---------------------------- MODULE AuctionProofs ----------------------------
(***************************************************************************)
(* The theorems about the auction, for every schedule, supply, window      *)
(* width and set of keys, participants, quantities, limits and times: what *)
(* is sold and at which price; and what the auction owes to its bidders:   *)
(* the truth of every answer, the balance of the collateral ledger, a      *)
(* window that is the current one, a price the clock produced, a clean     *)
(* end, and what no command may ever undo.                                 *)
(***************************************************************************)
EXTENDS Auction, CoreTheorems

-----------------------------------------------------------------------------
(* Types. *)

(* Outcomes by kind. *)
LEMMA OutcomeKinds ==
  /\ NoOutcome \in Outcomes /\ Withdrawn \in Outcomes
  /\ \A q \in Nat : Queued(q) \in Outcomes /\ Resting(q) \in Outcomes
  /\ \A q \in Nat, x \in Int : Filled(q, x) \in Outcomes
  /\ \A r \in Reasons : Rejected(r) \in Outcomes
  /\ \A o \in Outcomes : HasFill(o) =>
       o \in [kind : {"Filled", "FilledThenCancelled"}, qty : Nat, price : Int]
BY DEF Outcomes, NoOutcome, Withdrawn, Queued, Resting, Filled, Rejected, HasFill

LEMMA MergeType ==
  ASSUME NEW prior \in Outcomes, NEW fresh \in Outcomes
  PROVE  Merge(prior, fresh) \in Outcomes
<1> DEFINE F == [kind : {"Filled", "FilledThenCancelled"}, qty : Nat, price : Int]
<1>1. prior.kind = "Filled" => prior \in F
  BY OutcomeKinds DEF HasFill
<1>2. fresh.kind = "Filled" => fresh \in F
  BY OutcomeKinds DEF HasFill
<1>3. CASE prior.kind = "Filled" /\ fresh.kind = "Filled"
  <2>1. Merge(prior, fresh) = Filled(prior.qty + fresh.qty, fresh.price)
    BY <1>3 DEF Merge
  <2> QED BY <1>1, <1>2, <1>3, <2>1, OutcomeKinds
<1>4. CASE prior.kind = "Filled" /\ fresh.kind = "Cancelled"
  <2>1. Merge(prior, fresh) = [prior EXCEPT !.kind = "FilledThenCancelled"]
    BY <1>4 DEF Merge
  <2>2. [prior EXCEPT !.kind = "FilledThenCancelled"] \in F
    BY <1>1, <1>4
  <2> QED BY <2>1, <2>2 DEF Outcomes
<1>5. CASE ~(prior.kind = "Filled" /\ fresh.kind \in {"Filled", "Cancelled"})
  BY <1>5 DEF Merge
<1> QED BY <1>3, <1>4, <1>5

LEMMA TotalIsInteger ==
  ASSUME NEW p, NEW entries, NEW amount, \A k \in Keys : entries[k] # None => amount[k] \in Int
  PROVE  TotalFor(p, entries, amount) \in Int
<1> DEFINE f == [k \in Keys |-> IF entries[k] = None THEN 0
                                ELSE IF entries[k].participant = p THEN amount[k] ELSE 0]
<1>1. \A k \in Keys : f[k] \in Int
  OBVIOUS
<1>2. TotalFor(p, entries, amount) = SumFunctionOnSet(f, Keys)
  BY DEF TotalFor
<1> HIDE DEF f
<1> QED BY <1>1, <1>2, KeysAssumption, SumInt

(* The reservations and prices of well-typed bids are integers. *)
LEMMA CostsAreIntegers ==
  /\ \A bids \in [Keys -> PendingBid \cup {None}] :
       \A k \in Keys : Cost(bids, ReservePrices(bids))[k] \in Int
  /\ \A bids \in [Keys -> RestingBid \cup {None}] :
       \A k \in Keys : Cost(bids, LimitPrices(bids))[k] \in Int
  /\ \A fills \in [Keys -> Fill \cup {None}] :
       \A k \in Keys : Cost(fills, FillPrices(fills))[k] \in Int
<1>1. ASSUME NEW bids \in [Keys -> PendingBid \cup {None}], NEW k \in Keys
      PROVE  Cost(bids, ReservePrices(bids))[k] \in Int
  BY DEF Cost, ReservePrices, PendingBid
<1>2. ASSUME NEW bids \in [Keys -> RestingBid \cup {None}], NEW k \in Keys
      PROVE  Cost(bids, LimitPrices(bids))[k] \in Int
  BY DEF Cost, LimitPrices, RestingBid
<1>3. ASSUME NEW fills \in [Keys -> Fill \cup {None}], NEW k \in Keys
      PROVE  Cost(fills, FillPrices(fills))[k] \in Int
  BY DEF Cost, FillPrices, Fill
<1> QED BY <1>1, <1>2, <1>3

(* Sums of what is p's: of amounts at or above zero, and of nothing. *)
LEMMA TotalIsNatural ==
  ASSUME NEW p, NEW entries, NEW amount,
         \A k \in Keys : entries[k] # None /\ entries[k].participant = p => amount[k] \in Nat
  PROVE  TotalFor(p, entries, amount) \in Nat
<1> DEFINE f == [k \in Keys |-> IF entries[k] = None THEN 0
                                ELSE IF entries[k].participant = p THEN amount[k] ELSE 0]
<1>1. \A k \in Keys : f[k] \in Nat
  OBVIOUS
<1>2. TotalFor(p, entries, amount) = SumFunctionOnSet(f, Keys)
  BY DEF TotalFor
<1> HIDE DEF f
<1> QED BY <1>1, <1>2, KeysAssumption, SumNat

LEMMA TotalIsZero ==
  ASSUME NEW p, NEW entries, NEW amount,
         \A k \in Keys : entries[k] # None /\ entries[k].participant = p => amount[k] = 0
  PROVE  TotalFor(p, entries, amount) = 0
<1> DEFINE f == [k \in Keys |-> IF entries[k] = None THEN 0
                                ELSE IF entries[k].participant = p THEN amount[k] ELSE 0]
<1>1. \A k \in Keys : f[k] = 0
  OBVIOUS
<1>2. TotalFor(p, entries, amount) = SumFunctionOnSet(f, Keys)
  BY DEF TotalFor
<1> HIDE DEF f
<1> QED BY <1>1, <1>2, KeysAssumption, SumZero

LEMMA CostsAreNatural ==
  /\ \A bids \in [Keys -> RestingBid \cup {None}] : \A k \in Keys :
       bids[k] = None \/ 0 <= bids[k].limit => Cost(bids, LimitPrices(bids))[k] \in Nat
  /\ \A bids \in [Keys -> PendingBid \cup {None}] : \A k \in Keys :
       bids[k] = None \/ 0 <= bids[k].reserve_price => Cost(bids, ReservePrices(bids))[k] \in Nat
<1>1. ASSUME NEW bids \in [Keys -> RestingBid \cup {None}], NEW k \in Keys,
             bids[k] = None \/ 0 <= bids[k].limit
      PROVE  Cost(bids, LimitPrices(bids))[k] \in Nat
  <2>1. CASE bids[k] = None
    BY <2>1 DEF Cost
  <2>2. CASE bids[k] # None
    <3>1. bids[k].limit \in Nat /\ bids[k].qty \in Nat
      BY <1>1, <2>2 DEF RestingBid
    <3>2. bids[k].limit * bids[k].qty \in Nat
      BY <3>1
    <3> QED BY <2>2, <3>2 DEF Cost, LimitPrices
  <2> QED BY <2>1, <2>2
<1>2. ASSUME NEW bids \in [Keys -> PendingBid \cup {None}], NEW k \in Keys,
             bids[k] = None \/ 0 <= bids[k].reserve_price
      PROVE  Cost(bids, ReservePrices(bids))[k] \in Nat
  <2>1. CASE bids[k] = None
    BY <2>1 DEF Cost
  <2>2. CASE bids[k] # None
    <3>1. bids[k].reserve_price \in Nat /\ bids[k].qty \in Nat
      BY <1>2, <2>2 DEF PendingBid
    <3>2. bids[k].reserve_price * bids[k].qty \in Nat
      BY <3>1
    <3> QED BY <2>2, <3>2 DEF Cost, ReservePrices
  <2> QED BY <2>1, <2>2
<1> QED BY <1>1, <1>2

LEMMA SumsAreIntegers ==
  ASSUME NEW p
  PROVE  /\ \A bids \in [Keys -> PendingBid \cup {None}] : WindowHold(p, bids) \in Int
         /\ \A bids \in [Keys -> RestingBid \cup {None}] : LadderHold(p, bids) \in Int
         /\ \A fills \in [Keys -> Fill \cup {None}] : FillsOwed(p, fills) \in Int
         /\ \A fills \in [Keys -> Fill \cup {None}] : UnitsOf(fills) \in Nat
<1>1. ASSUME NEW bids \in [Keys -> PendingBid \cup {None}] PROVE WindowHold(p, bids) \in Int
  BY CostsAreIntegers, TotalIsInteger DEF WindowHold
<1>2. ASSUME NEW bids \in [Keys -> RestingBid \cup {None}] PROVE LadderHold(p, bids) \in Int
  BY CostsAreIntegers, TotalIsInteger DEF LadderHold
<1>3. ASSUME NEW fills \in [Keys -> Fill \cup {None}] PROVE FillsOwed(p, fills) \in Int
  BY CostsAreIntegers, TotalIsInteger DEF FillsOwed
<1>5. ASSUME NEW fills \in [Keys -> Fill \cup {None}] PROVE UnitsOf(fills) \in Nat
  <2> DEFINE f == [k \in Keys |-> IF fills[k] = None THEN 0 ELSE fills[k].qty]
  <2>1. \A k \in Keys : f[k] \in Nat
    BY DEF Fill
  <2>2. UnitsOf(fills) = SumFunctionOnSet(f, Keys)
    BY DEF UnitsOf
  <2> HIDE DEF f
  <2> QED BY <2>1, <2>2, KeysAssumption, SumNat
<1> QED BY <1>1, <1>2, <1>3, <1>5

-----------------------------------------------------------------------------
(* Saturating money. *)

LEMMA Saturation ==
  ASSUME NEW n \in Int
  PROVE  SatI64(n) \in Int /\ SatI64(n) \in I64 /\ (n \in I64 => SatI64(n) = n)
BY WidthsAssumption DEF SatI64, AtMost, I64

LEMMA LowerSaturates ==
  ASSUME NEW b \in I64, NEW x \in Nat
  PROVE  SatI64(b - x) <= b /\ SatI64(b - x) \in I64
BY WidthsAssumption DEF SatI64, AtMost, I64

(* Among bids with a seq each, one is settled last. *)
LEMMA LastIsThere ==
  ASSUME NEW bids, WellFormed(bids), NEW K, K \subseteq Present(bids), K # {}
  PROVE  LastOf(bids, K) \in K
<1> DEFINE v == [k \in K |-> bids[k].priority]
           L == {k \in K : \A j \in K : bids[k].priority <= bids[j].priority}
           w == [k \in K |-> bids[k].seq]
<1>1. \A k \in K : k \in Present(bids) /\ bids[k].priority \in Int /\ bids[k].seq \in Int
  BY DEF WellFormed
<1>2. IsFiniteSet(K)
  BY KeysAssumption, FS_Subset DEF Present
<1>3. PICK m \in K : \A k \in K : bids[m].priority <= bids[k].priority
  <2>1. \A k \in K : v[k] \in Int /\ v[k] = bids[k].priority
    BY <1>1
  <2> HIDE DEF v
  <2>2. \E n \in K : \A k \in K : v[n] <= v[k]
    BY <1>2, <2>1, Least
  <2> QED BY <2>1, <2>2
<1>4. IsFiniteSet(L) /\ L # {} /\ L \subseteq K
  BY <1>2, <1>3, FS_Subset
<1>5. PICK x \in L : \A k \in L : bids[k].seq <= bids[x].seq
  <2>1. \A k \in L : w[k] \in Int /\ w[k] = bids[k].seq
    BY <1>1, <1>4
  <2> HIDE DEF w, L
  <2>2. \E n \in L : \A k \in L : w[k] <= w[n]
    BY <1>4, <2>1, Greatest
  <2> QED BY <2>1, <2>2
<1>6. x \in K /\ \A j \in K : bids[x].priority <= bids[j].priority
  BY <1>5
<1>7. \A j \in K : j = x \/ Outranks(bids, j, x)
  <2> SUFFICES ASSUME NEW j \in K, j # x PROVE Outranks(bids, j, x)
    OBVIOUS
  <2>1. CASE bids[j].priority > bids[x].priority
    BY <1>1, <2>1 DEF Outranks, Above
  <2>2. CASE bids[j].priority = bids[x].priority
    <3>1. j \in L
      BY <1>6, <2>2
    <3>2. bids[j].seq <= bids[x].seq /\ bids[j].seq # bids[x].seq
      BY <1>1, <1>5, <1>6, <3>1 DEF WellFormed
    <3> QED BY <1>1, <1>6, <2>2, <3>2 DEF Outranks, Ahead, Level
  <2> QED BY <1>1, <1>6, <2>1, <2>2
<1> QED BY <1>6, <1>7 DEF LastOf

(* The recursion behind Settlement. *)
Exchanged(b, h, d, c) == SatI64(SatI64(SatI64(b - h) + d) + c)

Tally(g, balance, bids, held, paid, kept, D) ==
  g = [s \in D |-> IF s = {} THEN balance
                   ELSE Exchanged(g[s \ {LastOf(bids, s)}], held[LastOf(bids, s)],
                                  paid[LastOf(bids, s)], kept[LastOf(bids, s)])]

TheTally(balance, bids, K, held, paid, kept) ==
  CHOOSE g : Tally(g, balance, bids, held, paid, kept, SUBSET K)

LEMMA SettlementIsTally ==
  ASSUME NEW balance, NEW bids, NEW K, NEW held, NEW paid, NEW kept
  PROVE  Settlement(balance, bids, K, held, paid, kept)
           = TheTally(balance, bids, K, held, paid, kept)[K]
BY DEF Settlement, MapThenFoldSet, TheTally, Tally, Exchanged

LEMMA TallyExists ==
  ASSUME NEW balance, NEW bids, WellFormed(bids), NEW K, K \subseteq Present(bids),
         NEW held, NEW paid, NEW kept
  PROVE  Tally(TheTally(balance, bids, K, held, paid, kept),
               balance, bids, held, paid, kept, SUBSET K)
<1> DEFINE D(n) == {s \in SUBSET K : Cardinality(s) <= n}
           Last(s) == LastOf(bids, s)
           Step(s, b) == Exchanged(b, held[Last(s)], paid[Last(s)], kept[Last(s)])
           Is(g, n) == Tally(g, balance, bids, held, paid, kept, D(n))
           G == {n \in Nat : \E g : Is(g, n)}
<1>1. IsFiniteSet(K)
  BY KeysAssumption, FS_Subset DEF Present
<1>2. ASSUME NEW s \in SUBSET K
      PROVE  /\ Cardinality(s) \in Nat /\ (Cardinality(s) = 0 <=> s = {})
             /\ s # {} => /\ s \ {Last(s)} \in SUBSET K
                          /\ Cardinality(s \ {Last(s)}) = Cardinality(s) - 1
  <2>1. IsFiniteSet(s) /\ Cardinality(s) \in Nat /\ (Cardinality(s) = 0 <=> s = {})
    BY <1>1, FS_Subset, FS_CardinalityType, FS_EmptySet
  <2>2. s # {} => Last(s) \in s
    BY LastIsThere
  <2>3. s # {} => Cardinality(s \ {Last(s)}) = Cardinality(s) - 1
    BY <2>1, <2>2, FS_RemoveElement
  <2> QED BY <2>1, <2>2, <2>3
<1> HIDE DEF Last
<1>3. 0 \in G
  <2>1. \A s \in D(0) : s = {}
    <3> TAKE s \in D(0)
    <3>1. s \in SUBSET K /\ Cardinality(s) <= 0
      OBVIOUS
    <3>2. Cardinality(s) \in Nat /\ (Cardinality(s) = 0 <=> s = {})
      BY <1>2, <3>1
    <3> QED BY <3>1, <3>2
  <2>2. Is([s \in D(0) |-> balance], 0)
    <3> HIDE DEF D
    <3> QED BY <2>1 DEF Tally
  <2> QED BY <2>2
<1>4. ASSUME NEW n \in Nat, n \in G PROVE n + 1 \in G
  <2>1. PICK g : Is(g, n)
    BY <1>4
  <2>2. \A s \in D(n) : s \in D(n+1)
    <3> TAKE s \in D(n)
    <3>1. s \in SUBSET K /\ Cardinality(s) <= n
      OBVIOUS
    <3>2. Cardinality(s) \in Nat
      BY <1>2, <3>1
    <3> QED BY <3>1, <3>2
  <2>3. \A s \in D(n+1) : s # {} => s \ {Last(s)} \in D(n)
    BY <1>2
  <2>4. {} \in D(n)
    BY FS_EmptySet
  <2> DEFINE h == [s \in D(n+1) |-> IF s \in D(n) THEN g[s] ELSE Step(s, g[s \ {Last(s)}])]
             h1 == [s \in D(n+1) |-> IF s = {} THEN balance ELSE Step(s, h[s \ {Last(s)}])]
  <2>5. \A s \in D(n) : g[s] = IF s = {} THEN balance ELSE Step(s, g[s \ {Last(s)}])
    <3> HIDE DEF D
    <3> QED BY <2>1 DEF Tally, Last
  <2> HIDE DEF D, Step
  <2>6. \A s \in D(n+1) : h[s] = IF s = {} THEN balance ELSE Step(s, h[s \ {Last(s)}])
    BY <2>2, <2>3, <2>4, <2>5
  <2>7. h = h1
    BY <2>6
  <2>8. Is(h, n+1)
    <3>1. h = [s \in D(n+1) |-> IF s = {} THEN balance ELSE Step(s, h[s \ {Last(s)}])]
      BY <2>7
    <3> HIDE DEF h
    <3> QED BY <3>1 DEF Tally, Step, Last
  <2> QED BY <2>8
<1>5. Cardinality(K) \in G
  <2> HIDE DEF G
  <2> QED BY <1>1, <1>3, <1>4, NatSetInduction, FS_CardinalityType
<1>6. D(Cardinality(K)) = SUBSET K
  <2>1. \A s \in SUBSET K : Cardinality(s) <= Cardinality(K)
    BY <1>1, FS_Subset
  <2> QED BY <2>1
<1>7. \E g : Tally(g, balance, bids, held, paid, kept, SUBSET K)
  BY <1>5, <1>6
<1> QED BY <1>7 DEF TheTally

(* Settling leaves a balance that is an i64 ... *)
LEMMA SettlementIsInteger ==
  ASSUME NEW balance \in Int, NEW bids, WellFormed(bids), NEW K, K \subseteq Present(bids),
         NEW held, NEW paid, NEW kept,
         \A k \in K : held[k] \in Int /\ paid[k] \in Int /\ kept[k] \in Int
  PROVE  /\ Settlement(balance, bids, K, held, paid, kept) \in Int
         /\ balance \in I64 => Settlement(balance, bids, K, held, paid, kept) \in I64
<1> DEFINE g == TheTally(balance, bids, K, held, paid, kept)
           G == {T \in SUBSET K : g[T] \in Int /\ (balance \in I64 => g[T] \in I64)}
<1>1. SUFFICES ASSUME K \notin G PROVE FALSE
  BY SettlementIsTally
<1>2. IsFiniteSet(K) /\ Tally(g, balance, bids, held, paid, kept, SUBSET K)
  BY KeysAssumption, FS_Subset, TallyExists DEF Present
<1> HIDE DEF g
<1>3. PICK T \in SUBSET K : T \notin G /\ \A U \in SUBSET T : U # T => U \in G
  <2> HIDE DEF G
  <2> QED BY <1>1, <1>2, MinimalSubset
<1> DEFINE x == LastOf(bids, T)
<1>4. g[T] = IF T = {} THEN balance ELSE Exchanged(g[T \ {x}], held[x], paid[x], kept[x])
  BY <1>2 DEF Tally
<1>5. CASE T = {}
  BY <1>3, <1>4, <1>5
<1>6. CASE T # {}
  <2>1. x \in T
    BY <1>6, LastIsThere
  <2>2. g[T \ {x}] \in Int /\ held[x] \in Int /\ paid[x] \in Int /\ kept[x] \in Int
    BY <1>3, <2>1
  <2> HIDE DEF x
  <2>3. ASSUME NEW b \in Int, NEW h \in Int, NEW d \in Int, NEW c \in Int
        PROVE  Exchanged(b, h, d, c) \in Int /\ Exchanged(b, h, d, c) \in I64
    BY Saturation DEF Exchanged
  <2>4. /\ Exchanged(g[T \ {x}], held[x], paid[x], kept[x]) \in Int
        /\ Exchanged(g[T \ {x}], held[x], paid[x], kept[x]) \in I64
    BY <2>2, <2>3
  <2> QED BY <1>3, <1>4, <1>6, <2>4
<1> QED BY <1>5, <1>6

(* ... and nothing saturates when the balance covers what is released and  *)
(* each bid is charged no more than it held.                               *)
LEMMA SettlementIsExact ==
  ASSUME NEW balance \in Int, NEW bids, WellFormed(bids), NEW K, K \subseteq Present(bids),
         NEW held, NEW paid, NEW kept,
         \A k \in K : held[k] \in Nat /\ paid[k] \in Nat /\ paid[k] <= held[k] /\ kept[k] = 0,
         SumFunctionOnSet(held, K) <= balance, balance <= I64Max
  PROVE  Settlement(balance, bids, K, held, paid, kept)
           = balance - SumFunctionOnSet(held, K) + SumFunctionOnSet(paid, K)
<1> DEFINE g == TheTally(balance, bids, K, held, paid, kept)
           H(T) == SumFunctionOnSet(held, T)
           P(T) == SumFunctionOnSet(paid, T)
           G == {T \in SUBSET K : g[T] = balance - H(T) + P(T)}
<1>1. SUFFICES ASSUME K \notin G PROVE FALSE
  BY SettlementIsTally
<1>2. IsFiniteSet(K) /\ Tally(g, balance, bids, held, paid, kept, SUBSET K)
  BY KeysAssumption, FS_Subset, TallyExists DEF Present
<1> HIDE DEF g
<1>3. PICK T \in SUBSET K : T \notin G /\ \A U \in SUBSET T : U # T => U \in G
  <2> HIDE DEF G
  <2> QED BY <1>1, <1>2, MinimalSubset
<1> DEFINE x == LastOf(bids, T)
<1>4. g[T] = IF T = {} THEN balance ELSE Exchanged(g[T \ {x}], held[x], paid[x], kept[x])
  BY <1>2 DEF Tally
<1>5. CASE T = {}
  <2>1. H(T) = 0 /\ P(T) = 0
    BY <1>5, SumEmpty
  <2> HIDE DEF H, P
  <2> QED BY <1>3, <1>4, <1>5, <2>1
<1>6. CASE T # {}
  <2> DEFINE U == T \ {x}
  <2>1. x \in T /\ U \in SUBSET T /\ U # T
    BY <1>6, LastIsThere
  <2>2. held[x] \in Nat /\ paid[x] \in Nat /\ paid[x] <= held[x] /\ kept[x] = 0
    BY <2>1
  <2> HIDE DEF x
  <2>3. IsFiniteSet(T) /\ IsFiniteSet(U)
    BY <1>2, FS_Subset
  <2>4. H(T) = held[x] + H(U) /\ P(T) = paid[x] + P(U)
    <3>1. \A k \in T : held[k] \in Int /\ paid[k] \in Int
      OBVIOUS
    <3> QED BY <2>1, <2>3, <3>1, SumRemove
  <2>5. H(T) \in Nat /\ H(T) <= H(K)
    BY <1>2, SumSubset
  <2>6. H(U) \in Nat /\ P(U) \in Nat /\ P(U) <= H(U)
    <3>1. \A k \in U : /\ held[k] \in Nat /\ paid[k] \in Nat /\ held[k] \in Int /\ paid[k] \in Int
                       /\ paid[k] <= held[k]
      OBVIOUS
    <3> HIDE DEF U
    <3> QED BY <2>3, <3>1, SumNat, SumMonotonic
  <2>7. g[U] = balance - H(U) + P(U)
    BY <1>3, <2>1
  <2>8. g[T] = Exchanged(g[U], held[x], paid[x], kept[x])
    BY <1>4, <1>6
  <2>9. H(K) <= balance /\ balance <= I64Max /\ H(K) \in Int /\ I64Max \in Nat
    BY <1>2, SumSubset, WidthsAssumption
  <2> HIDE DEF U, H, P, G
  <2>10. g[U] - held[x] \in I64 /\ g[U] - held[x] + paid[x] \in I64 /\ g[U] \in Int
    BY <2>2, <2>4, <2>5, <2>6, <2>7, <2>9 DEF I64
  <2>11. g[T] = g[U] - held[x] + paid[x]
    <3>1. SatI64(g[U] - held[x]) = g[U] - held[x]
      BY <2>2, <2>10, Saturation
    <3>2. SatI64(g[U] - held[x] + paid[x]) = g[U] - held[x] + paid[x]
      BY <2>2, <2>10, Saturation
    <3>3. g[U] - held[x] + paid[x] + kept[x] = g[U] - held[x] + paid[x]
      BY <2>2, <2>10
    <3> QED BY <2>8, <3>1, <3>2, <3>3 DEF Exchanged
  <2>12. g[T] = balance - H(T) + P(T)
    BY <2>2, <2>4, <2>5, <2>6, <2>7, <2>11
  <2> QED BY <1>3, <2>12 DEF G
<1> QED BY <1>5, <1>6

(* Even where it does saturate, a debt does not grow: each bid is charged  *)
(* no more than it held.                                                   *)
LEMMA SettlementLowers ==
  ASSUME NEW balance \in I64, NEW bids, WellFormed(bids), NEW K, K \subseteq Present(bids),
         NEW held, NEW paid, NEW kept,
         \A k \in K : /\ held[k] \in 0..I64Max /\ paid[k] \in 0..I64Max /\ paid[k] <= held[k]
                      /\ kept[k] = 0
  PROVE  \/ Settlement(balance, bids, K, held, paid, kept) <= balance
         \/ Settlement(balance, bids, K, held, paid, kept) <= 0
<1> DEFINE g == TheTally(balance, bids, K, held, paid, kept)
           G == {T \in SUBSET K : g[T] \in I64 /\ (g[T] <= balance \/ g[T] <= 0)}
<1>1. SUFFICES ASSUME K \notin G PROVE FALSE
  BY SettlementIsTally
<1>2. IsFiniteSet(K) /\ Tally(g, balance, bids, held, paid, kept, SUBSET K)
  BY KeysAssumption, FS_Subset, TallyExists DEF Present
<1> HIDE DEF g
<1>3. PICK T \in SUBSET K : T \notin G /\ \A U \in SUBSET T : U # T => U \in G
  <2> HIDE DEF G
  <2> QED BY <1>1, <1>2, MinimalSubset
<1> DEFINE x == LastOf(bids, T)
<1>4. g[T] = IF T = {} THEN balance ELSE Exchanged(g[T \ {x}], held[x], paid[x], kept[x])
  BY <1>2 DEF Tally
<1>5. I64Max \in Nat /\ balance \in Int
  BY WidthsAssumption DEF I64
<1>6. CASE T = {}
  BY <1>3, <1>4, <1>5, <1>6
<1>7. CASE T # {}
  <2> DEFINE b == g[T \ {x}]
             h == held[x]
             d == paid[x]
  <2>1. x \in T
    BY <1>7, LastIsThere
  <2>2. h \in 0..I64Max /\ d \in 0..I64Max /\ d <= h /\ kept[x] = 0
    BY <2>1
  <2>3. b \in I64 /\ (b <= balance \/ b <= 0)
    BY <1>3, <2>1
  <2>4. g[T] = SatI64(SatI64(SatI64(b - h) + d) + 0)
    BY <1>4, <1>7, <2>2 DEF Exchanged
  <2> HIDE DEF b, h, d, x
  <2>5. b \in Int /\ h \in Int /\ d \in Int /\ b <= I64Max /\ -I64Max - 1 <= b
    BY <1>5, <2>2, <2>3 DEF I64
  <2>6. SatI64(b - h) = IF b - h < -I64Max - 1 THEN -I64Max - 1 ELSE b - h
    BY <1>5, <2>2, <2>5 DEF SatI64, AtMost
  <2> DEFINE m == SatI64(b - h)
  <2>7. /\ m \in Int /\ m + d \in Int /\ -I64Max - 1 <= m + d /\ m + d <= I64Max
        /\ m + d <= b \/ m + d <= 0
    BY <1>5, <2>2, <2>5, <2>6
  <2> HIDE DEF m
  <2>8. SatI64(m + d) = m + d /\ SatI64(m + d + 0) = m + d
    BY <1>5, <2>7, Saturation DEF I64
  <2>9. g[T] = m + d /\ m + d \in I64
    BY <1>5, <2>4, <2>7, <2>8 DEF m, I64
  <2> QED BY <1>3, <1>5, <2>3, <2>5, <2>7, <2>9
<1> QED BY <1>6, <1>7

(* What is released leaves an i64, whatever its sign; and no more than     *)
(* there was, if nothing of p's was held below zero.                       *)
LEMMA ReturnedIsInteger ==
  ASSUME NEW balance \in Int, NEW p, NEW bids, NEW unit,
         \A k \in Keys : Cost(bids, unit)[k] \in Int
  PROVE  /\ Returned(balance, p, bids, unit) \in Int
         /\ Returned(balance, p, bids, unit) \in I64
         /\ /\ balance \in I64
            /\ \A k \in Keys : bids[k] # None /\ bids[k].participant = p
                                 => 0 <= Cost(bids, unit)[k]
            => Returned(balance, p, bids, unit) <= balance
<1> DEFINE amount == Cost(bids, unit)
           c == TotalFor(p, bids, CreditOnly(amount))
           d == TotalFor(p, bids, DebitOnly(amount))
<1>1. \A k \in Keys : /\ CreditOnly(amount)[k] \in Int /\ DebitOnly(amount)[k] \in Int
                      /\ CreditOnly(amount)[k] \in Nat
                      /\ 0 <= amount[k] => DebitOnly(amount)[k] = 0
  <2> HIDE DEF amount
  <2> QED BY DEF CreditOnly, DebitOnly, amount
<1>2. c \in Nat /\ d \in Int
  <2> HIDE DEF amount
  <2> QED BY <1>1, TotalIsNatural, TotalIsInteger
<1>3. Returned(balance, p, bids, unit) = SatI64(SatI64(balance - c) - d)
  BY DEF Returned
<1>4. (\A k \in Keys : bids[k] # None /\ bids[k].participant = p => 0 <= amount[k]) => d = 0
  <2> HIDE DEF amount
  <2> QED BY <1>1, TotalIsZero
<1> HIDE DEF c, d
<1>5. SatI64(balance - c) \in Int /\ SatI64(balance - c) \in I64
  BY <1>2, Saturation
<1>6. Returned(balance, p, bids, unit) \in Int /\ Returned(balance, p, bids, unit) \in I64
  BY <1>2, <1>3, <1>5, Saturation
<1>7. ASSUME balance \in I64, d = 0 PROVE Returned(balance, p, bids, unit) <= balance
  <2>1. SatI64(balance - c) <= balance
    BY <1>2, <1>7, LowerSaturates
  <2>2. SatI64(balance - c) - d = SatI64(balance - c)
    BY <1>5, <1>7
  <2> QED BY <1>3, <1>5, <2>1, <2>2, Saturation
<1> QED BY <1>4, <1>6, <1>7 DEF amount

(* ... and exactly what was not released, if nothing below zero was held.  *)
LEMMA ReturnedIsExact ==
  ASSUME NEW balance \in Int, NEW p, NEW bids, NEW unit,
         \A k \in Keys : Cost(bids, unit)[k] \in Nat,
         TotalFor(p, bids, Cost(bids, unit)) <= balance, balance <= I64Max
  PROVE  Returned(balance, p, bids, unit) = balance - TotalFor(p, bids, Cost(bids, unit))
<1> DEFINE amount == Cost(bids, unit)
           T == TotalFor(p, bids, amount)
           d == TotalFor(p, bids, DebitOnly(amount))
<1>1. CreditOnly(amount) = amount
  BY DEF CreditOnly, Cost
<1>2. d = 0
  <2> DEFINE f == [k \in Keys |-> IF bids[k] = None THEN 0
                     ELSE IF bids[k].participant = p THEN DebitOnly(amount)[k] ELSE 0]
  <2>1. \A k \in Keys : DebitOnly(amount)[k] = 0
    <3> HIDE DEF amount
    <3> QED BY DEF DebitOnly, amount
  <2>2. \A k \in Keys : f[k] = 0
    <3> HIDE DEF amount
    <3> QED BY <2>1
  <2>3. d = SumFunctionOnSet(f, Keys)
    BY DEF TotalFor
  <2> HIDE DEF f, d
  <2> QED BY <2>2, <2>3, KeysAssumption, SumZero
<1>3. T \in Nat
  <2> DEFINE f == [k \in Keys |-> IF bids[k] = None THEN 0
                     ELSE IF bids[k].participant = p THEN amount[k] ELSE 0]
  <2>1. \A k \in Keys : f[k] \in Nat
    <3> HIDE DEF amount
    <3> QED BY DEF amount
  <2>2. T = SumFunctionOnSet(f, Keys)
    BY DEF TotalFor
  <2> HIDE DEF f, T
  <2> QED BY <2>1, <2>2, KeysAssumption, SumNat
<1>4. Returned(balance, p, bids, unit) = SatI64(SatI64(balance - T) - d)
  BY <1>1 DEF Returned
<1>5. T <= balance
  OBVIOUS
<1> HIDE DEF T, d
<1>6. balance - T \in I64 /\ balance - T \in Int
  BY <1>3, <1>5, WidthsAssumption DEF I64
<1>7. SatI64(balance - T) = balance - T /\ (balance - T) - d = balance - T
  BY <1>2, <1>6, Saturation
<1> QED BY <1>4, <1>6, <1>7, Saturation DEF T

(* What repricing gives back, and what fills cost, are integers. *)
LEMMA AmountsAreIntegers ==
  ASSUME NEW fills \in [Keys -> Fill \cup {None}]
  PROVE  /\ \A k \in Keys : Paid(fills)[k] \in Int
         /\ \A p : \A price \in Int : TotalFor(p, fills, Freed(fills, price)) \in Int
<1>1. I64Max \in Int
  BY WidthsAssumption
<1>2. ASSUME NEW k \in Keys PROVE Paid(fills)[k] \in Int
  <2>1. CASE fills[k] = None
    BY <2>1 DEF Paid
  <2>2. CASE fills[k] # None
    <3>1. fills[k].price * fills[k].qty \in Int
      BY <2>2 DEF Fill
    <3> QED BY <1>1, <2>2, <3>1 DEF Paid, CommitAmount
  <2> QED BY <2>1, <2>2
<1>3. ASSUME NEW price \in Int, NEW p PROVE TotalFor(p, fills, Freed(fills, price)) \in Int
  <2>1. ASSUME NEW k \in Keys, fills[k] # None PROVE Freed(fills, price)[k] \in Int
    <3> DEFINE fall == SatI64(fills[k].price - price)
    <3>1. fills[k].price \in Int /\ fills[k].qty \in Int
      BY <2>1 DEF Fill
    <3>2. fall \in Int
      BY <3>1, Saturation
    <3>3. Freed(fills, price)[k] = ReleaseAmount(fall, fills[k].qty)
      BY <2>1 DEF Freed
    <3> HIDE DEF fall
    <3>4. fall * fills[k].qty \in Int
      BY <3>1, <3>2
    <3> QED BY <3>3, <3>4 DEF ReleaseAmount
  <2> QED BY <2>1, TotalIsInteger
<1> QED BY <1>2, <1>3

-----------------------------------------------------------------------------
(***************************************************************************)
(* The inductive invariant.  A window sells exactly what its bids and the  *)
(* supply allow only if its bids ask for something and have one arrival    *)
(* seq each; so bids that are waiting, in the window or on the ladder, do. *)
(* And a clearing reprices every fill a retry would quote only if every    *)
(* outcome that quotes one belongs to a key that has one.                  *)
(***************************************************************************)
WindowBids(s) == IF s.window = None THEN Nothing ELSE s.window.bids

(* The arrival seqs of what is waiting under key k. *)
Seqs(s, k) ==
  (IF s.resting[k] = None THEN {} ELSE {s.resting[k].seq})
    \cup (IF WindowBids(s)[k] = None THEN {} ELSE {WindowBids(s)[k].seq})

SeqsApart(s) ==
  /\ \A k \in Keys : \A x \in Seqs(s, k) : x < s.admitted
  /\ \A j, k \in Keys : j # k => Seqs(s, j) \cap Seqs(s, k) = {}

Wanting(s) ==
  \A k \in Keys : /\ s.resting[k] # None => s.resting[k].qty > 0
                  /\ WindowBids(s)[k] # None => WindowBids(s)[k].qty > 0

Conserved(s) == s.supply_remaining + UnitsOf(s.fills) = TotalSupply

FillsTold(s) == \A k \in Keys : HasFill(s.outcomes[k]) => s.fills[k] # None

Uniform(s) ==
  s.status = "Cleared" =>
    \A k \in Keys :
      /\ s.fills[k] # None => s.fills[k].price = s.clearing_price
      /\ HasFill(s.outcomes[k]) => s.outcomes[k].price = s.clearing_price

Kept(s) ==
  /\ s \in AuctionState
  /\ SeqsApart(s) /\ Wanting(s) /\ Conserved(s) /\ FillsTold(s) /\ Uniform(s)

(* An outcome that is no fill never adds one, nor moves its price. *)
LEMMA MergeNoFill ==
  ASSUME NEW prior \in Outcomes, NEW fresh \in Outcomes, ~HasFill(fresh),
         HasFill(Merge(prior, fresh))
  PROVE  HasFill(prior) /\ Merge(prior, fresh).price = prior.price
<1> DEFINE F == [kind : {"Filled", "FilledThenCancelled"}, qty : Nat, price : Int]
<1>1. HasFill(prior)
  BY DEF Merge, HasFill
<1>2. prior \in F
  BY <1>1, OutcomeKinds
<1>3. CASE prior.kind = "Filled" /\ fresh.kind = "Cancelled"
  <2>1. Merge(prior, fresh) = [prior EXCEPT !.kind = "FilledThenCancelled"]
    BY <1>3 DEF Merge
  <2> QED BY <1>1, <1>2, <2>1
<1>4. CASE ~(prior.kind = "Filled" /\ fresh.kind = "Cancelled")
  <2>1. Merge(prior, fresh) = prior
    BY <1>1, <1>4 DEF Merge, HasFill
  <2> QED BY <1>1, <2>1
<1> QED BY <1>3, <1>4

LEMMA RejectAllKeeps ==
  ASSUME NEW outcomes \in [Keys -> Outcomes], NEW bids, NEW r \in Reasons
  PROVE  /\ RejectAll(outcomes, bids, r) \in [Keys -> Outcomes]
         /\ \A k \in Keys : HasFill(RejectAll(outcomes, bids, r)[k]) =>
              /\ HasFill(outcomes[k])
              /\ RejectAll(outcomes, bids, r)[k].price = outcomes[k].price
<1>1. Rejected(r) \in Outcomes /\ ~HasFill(Rejected(r))
  BY OutcomeKinds DEF Rejected, HasFill
<1>2. \A k \in Keys : RejectAll(outcomes, bids, r)[k] =
        IF bids[k] = None THEN outcomes[k] ELSE Merge(outcomes[k], Rejected(r))
  BY DEF RejectAll
<1>3. \A k \in Keys : Merge(outcomes[k], Rejected(r)) \in Outcomes
  BY <1>1, MergeType
<1>4. RejectAll(outcomes, bids, r) \in [Keys -> Outcomes]
  BY <1>2, <1>3 DEF RejectAll
<1> QED BY <1>1, <1>2, <1>4, MergeNoFill

LEMMA RepriceKeeps ==
  ASSUME NEW fills \in [Keys -> Fill \cup {None}], NEW price \in Int
  PROVE  /\ Reprice(fills, price) \in [Keys -> Fill \cup {None}]
         /\ UnitsOf(Reprice(fills, price)) = UnitsOf(fills)
         /\ \A k \in Keys : /\ Reprice(fills, price)[k] = None <=> fills[k] = None
                            /\ fills[k] # None => Reprice(fills, price)[k].price = price
<1> DEFINE new == Reprice(fills, price)
<1>1. ASSUME NEW k \in Keys
      PROVE  /\ new[k] \in Fill \cup {None}
             /\ (new[k] = None) <=> (fills[k] = None)
             /\ fills[k] # None => new[k].price = price /\ new[k].qty = fills[k].qty
  <2>1. new[k] = IF fills[k] = None THEN None ELSE [fills[k] EXCEPT !.price = price]
    BY DEF Reprice
  <2>2. CASE fills[k] = None
    BY <2>1, <2>2
  <2>3. CASE fills[k] # None
    <3>1. fills[k] \in Fill
      BY <2>3
    <3>2. [fills[k] EXCEPT !.price = price] \in Fill /\ None \notin Fill
      BY <3>1, NoneAssumption DEF Fill
    <3> QED BY <2>1, <2>3, <3>1, <3>2 DEF Fill
  <2> QED BY <2>2, <2>3
<1>2. new \in [Keys -> Fill \cup {None}]
  BY <1>1 DEF Reprice
<1>3. [k \in Keys |-> IF new[k] = None THEN 0 ELSE new[k].qty]
        = [k \in Keys |-> IF fills[k] = None THEN 0 ELSE fills[k].qty]
  BY <1>1
<1>4. UnitsOf(new) = UnitsOf(fills)
  BY <1>3 DEF UnitsOf
<1> QED BY <1>1, <1>2, <1>4

LEMMA RequoteKeeps ==
  ASSUME NEW outcomes \in [Keys -> Outcomes], NEW fills, NEW price \in Int
  PROVE  /\ Requote(outcomes, fills, price) \in [Keys -> Outcomes]
         /\ \A k \in Keys : HasFill(Requote(outcomes, fills, price)[k]) =>
              /\ HasFill(outcomes[k])
              /\ fills[k] # None => Requote(outcomes, fills, price)[k].price = price
<1> DEFINE new == Requote(outcomes, fills, price)
           F == [kind : {"Filled", "FilledThenCancelled"}, qty : Nat, price : Int]
<1>1. ASSUME NEW k \in Keys
      PROVE  /\ new[k] \in Outcomes
             /\ HasFill(new[k]) => /\ HasFill(outcomes[k])
                                   /\ fills[k] # None => new[k].price = price
  <2>1. new[k] = IF fills[k] # None /\ HasFill(outcomes[k])
                 THEN [outcomes[k] EXCEPT !.price = price] ELSE outcomes[k]
    BY DEF Requote
  <2>2. CASE fills[k] # None /\ HasFill(outcomes[k])
    <3>1. outcomes[k] \in F
      BY <2>2, OutcomeKinds
    <3>2. [outcomes[k] EXCEPT !.price = price] \in F /\ [outcomes[k] EXCEPT !.price = price].price = price
      BY <3>1
    <3> QED BY <2>1, <2>2, <3>2 DEF Outcomes
  <2>3. CASE ~(fills[k] # None /\ HasFill(outcomes[k]))
    BY <2>1, <2>3
  <2> QED BY <2>2, <2>3
<1>2. new \in [Keys -> Outcomes]
  BY <1>1 DEF Requote
<1> QED BY <1>1, <1>2

-----------------------------------------------------------------------------
(* What each part of a handler keeps. *)

(* A step after which fewer bids wait keeps their seqs apart. *)
LEMMA SeqsShrink ==
  ASSUME NEW s, NEW t, SeqsApart(s), t.admitted = s.admitted,
         \A k \in Keys : Seqs(t, k) \subseteq Seqs(s, k)
  PROVE  SeqsApart(t)
BY DEF SeqsApart

(* Nothing waits where the maps are empty. *)
LEMMA NothingWaits ==
  Nothing \in [Keys -> {None}] /\ \A k \in Keys : Nothing[k] = None
BY DEF Nothing

LEMMA ClearKept ==
  ASSUME NEW s, Kept(s), NEW price \in Int
  PROVE  Kept(Clear(s, price)) /\ Clear(s, price).status = "Cleared"
<1> DEFINE t == Clear(s, price)
           fills == Reprice(s.fills, price)
           quoted == Requote(s.outcomes, s.fills, price)
           outcomes == RejectAll(quoted, s.resting, "Unfilled")
           committed == [p \in Participants |->
              Returned(SatI64(s.committed[p] - TotalFor(p, s.fills, Freed(s.fills, price))),
                       p, s.resting, LimitPrices(s.resting))]
<1>1. s \in AuctionState
  BY DEF Kept
<1>2. /\ s.fills \in [Keys -> Fill \cup {None}] /\ s.outcomes \in [Keys -> Outcomes]
      /\ s.resting \in [Keys -> RestingBid \cup {None}] /\ s.committed \in [Participants -> Int]
  BY <1>1 DEF AuctionState
<1>3. "Unfilled" \in Reasons
  BY DEF Reasons
<1>4. fills \in [Keys -> Fill \cup {None}] /\ quoted \in [Keys -> Outcomes]
      /\ outcomes \in [Keys -> Outcomes]
  BY <1>2, <1>3, RepriceKeeps, RequoteKeeps, RejectAllKeeps
<1>5. committed \in [Participants -> Int]
  <2> SUFFICES ASSUME NEW p \in Participants PROVE committed[p] \in Int
    OBVIOUS
  <2> DEFINE b == SatI64(s.committed[p] - TotalFor(p, s.fills, Freed(s.fills, price)))
  <2>1. s.committed[p] \in Int /\ TotalFor(p, s.fills, Freed(s.fills, price)) \in Int
    BY <1>2, AmountsAreIntegers
  <2>2. b \in Int
    BY <2>1, Saturation
  <2>3. \A k \in Keys : Cost(s.resting, LimitPrices(s.resting))[k] \in Int
    BY <1>2, CostsAreIntegers
  <2>4. Returned(b, p, s.resting, LimitPrices(s.resting)) \in Int
    <3> HIDE DEF b
    <3> QED BY <2>2, <2>3, ReturnedIsInteger
  <2> QED BY <2>4
<1>6. t = [s EXCEPT !.status = "Cleared", !.clearing_price = price, !.fills = fills,
                    !.outcomes = outcomes, !.resting = Nothing, !.committed = committed]
  BY DEF Clear
<1> HIDE DEF t, fills, quoted, outcomes, committed
<1>7. /\ t \in AuctionState
      /\ t.status = "Cleared" /\ t.clearing_price = price /\ t.fills = fills
      /\ t.outcomes = outcomes /\ t.resting = Nothing /\ t.window = s.window
      /\ t.supply_remaining = s.supply_remaining /\ t.admitted = s.admitted
  <2>1. Nothing \in [Keys -> RestingBid \cup {None}] /\ "Cleared" \in Status
    BY NothingWaits DEF Status
  <2> QED BY <1>1, <1>4, <1>5, <1>6, <2>1 DEF AuctionState
<1>8. WindowBids(t) = WindowBids(s)
  BY <1>7 DEF WindowBids
<1>9. SeqsApart(t)
  <2>1. \A k \in Keys : Seqs(t, k) \subseteq Seqs(s, k)
    BY <1>7, <1>8, NothingWaits DEF Seqs
  <2> QED BY <1>7, <2>1, SeqsShrink DEF Kept
<1>10. Wanting(t)
  BY <1>7, <1>8, NothingWaits DEF Wanting, Kept
<1>11. Conserved(t)
  BY <1>2, <1>7, RepriceKeeps DEF Conserved, Kept, fills
<1>12. ASSUME NEW k \in Keys, HasFill(outcomes[k])
       PROVE  s.fills[k] # None /\ fills[k] # None /\ outcomes[k].price = price
  <2>1. HasFill(quoted[k]) /\ outcomes[k].price = quoted[k].price
    BY <1>3, <1>4, <1>12, RejectAllKeeps DEF outcomes
  <2>2. HasFill(s.outcomes[k]) /\ (s.fills[k] # None => quoted[k].price = price)
    BY <1>2, <2>1, RequoteKeeps DEF quoted
  <2>3. s.fills[k] # None
    BY <2>2 DEF Kept, FillsTold
  <2> QED BY <1>2, <2>1, <2>2, <2>3, RepriceKeeps DEF fills
<1>13. FillsTold(t)
  BY <1>7, <1>12 DEF FillsTold
<1>14. Uniform(t)
  <2>1. \A k \in Keys : fills[k] # None => fills[k].price = price
    BY <1>2, RepriceKeeps DEF fills
  <2> QED BY <1>7, <1>12, <2>1 DEF Uniform
<1> QED BY <1>7, <1>9, <1>10, <1>11, <1>13, <1>14 DEF Kept, t

LEMMA RefundKept ==
  ASSUME NEW s, Kept(s), NEW r \in Reasons
  PROVE  /\ Kept(RefundWindow(s, r))
         /\ RefundWindow(s, r).status = s.status /\ RefundWindow(s, r).resting = s.resting
         /\ RefundWindow(s, r).window = None
<1>1. s \in AuctionState
  BY DEF Kept
<1>2. CASE s.window = None
  BY <1>2 DEF RefundWindow
<1>3. CASE s.window # None
  <2> DEFINE t == RefundWindow(s, r)
             outcomes == RejectAll(s.outcomes, s.window.bids, r)
             committed == [p \in Participants |->
                Returned(s.committed[p], p, s.window.bids, ReservePrices(s.window.bids))]
  <2>1. /\ s.window.bids \in [Keys -> PendingBid \cup {None}] /\ s.outcomes \in [Keys -> Outcomes]
        /\ s.committed \in [Participants -> Int]
    BY <1>1, <1>3 DEF AuctionState, OpenWindow
  <2>2. outcomes \in [Keys -> Outcomes] /\ committed \in [Participants -> Int]
    <3>1. outcomes \in [Keys -> Outcomes]
      BY <2>1, RejectAllKeeps
    <3>2. \A k \in Keys : Cost(s.window.bids, ReservePrices(s.window.bids))[k] \in Int
      BY <2>1, CostsAreIntegers
    <3>3. \A p \in Participants : committed[p] \in Int
      BY <2>1, <3>2, ReturnedIsInteger
    <3> QED BY <3>1, <3>3
  <2>3. t = [s EXCEPT !.window = None, !.outcomes = outcomes, !.committed = committed]
    BY <1>3 DEF RefundWindow
  <2> HIDE DEF t, outcomes, committed
  <2>4. /\ t \in AuctionState
        /\ t.status = s.status /\ t.clearing_price = s.clearing_price /\ t.fills = s.fills
        /\ t.outcomes = outcomes /\ t.resting = s.resting /\ t.window = None
        /\ t.supply_remaining = s.supply_remaining /\ t.admitted = s.admitted
    BY <1>1, <2>2, <2>3 DEF AuctionState
  <2>5. WindowBids(t) = Nothing
    BY <2>4 DEF WindowBids
  <2>6. SeqsApart(t)
    <3>1. \A k \in Keys : Seqs(t, k) \subseteq Seqs(s, k)
      BY <2>4, <2>5, NothingWaits DEF Seqs
    <3> QED BY <2>4, <3>1, SeqsShrink DEF Kept
  <2>7. Wanting(t) /\ Conserved(t)
    BY <2>4, <2>5, NothingWaits DEF Wanting, Conserved, Kept
  <2>8. \A k \in Keys : HasFill(outcomes[k]) =>
          HasFill(s.outcomes[k]) /\ outcomes[k].price = s.outcomes[k].price
    BY <2>1, RejectAllKeeps DEF outcomes
  <2>9. FillsTold(t) /\ Uniform(t)
    BY <2>4, <2>8 DEF FillsTold, Uniform, Kept
  <2> QED BY <2>4, <2>6, <2>7, <2>9 DEF Kept, t
<1> QED BY <1>2, <1>3

(* The window of a kept state is one that Matching allocates exactly. *)
LEMMA WindowWellFormed ==
  ASSUME NEW s, Kept(s), s.window # None
  PROVE  /\ s.window.bids \in [Keys -> PendingBid \cup {None}] /\ WindowBids(s) = s.window.bids
         /\ WellFormed(s.window.bids)
<1> DEFINE bids == s.window.bids
<1>1. bids \in [Keys -> PendingBid \cup {None}] /\ WindowBids(s) = bids
  BY DEF Kept, AuctionState, OpenWindow, WindowBids
<1> HIDE DEF bids
<1>2. \A k \in Present(bids) : k \in Keys /\ bids[k] \in PendingBid /\ bids[k] # None
  BY <1>1 DEF Present
<1>3. \A k \in Present(bids) : bids[k].qty \in Nat \ {0} /\ bids[k].priority \in Int /\ bids[k].seq \in Nat
  <2> TAKE k \in Present(bids)
  <2>1. bids[k].qty > 0
    BY <1>1, <1>2 DEF Kept, Wanting
  <2>2. bids[k].qty \in Nat /\ bids[k].priority \in Int /\ bids[k].seq \in Nat
    BY <1>2 DEF PendingBid
  <2> QED BY <2>1, <2>2
<1>4. \A j, k \in Present(bids) : j # k => bids[j].seq # bids[k].seq
  <2> SUFFICES ASSUME NEW j \in Present(bids), NEW k \in Present(bids), j # k
               PROVE  bids[j].seq # bids[k].seq
    OBVIOUS
  <2>1. bids[j].seq \in Seqs(s, j) /\ bids[k].seq \in Seqs(s, k)
    BY <1>1, <1>2 DEF Seqs
  <2>2. Seqs(s, j) \cap Seqs(s, k) = {}
    BY <1>2 DEF Kept, SeqsApart
  <2> QED BY <2>1, <2>2
<1> QED BY <1>1, <1>3, <1>4 DEF WellFormed, bids

(* A window's fills are added to the old ones unit by unit. *)
LEMMA AddFillsKeeps ==
  ASSUME NEW old \in [Keys -> Fill \cup {None}], NEW w \in OpenWindow,
         NEW allocs, \A k \in Keys : allocs[k] \in Nat /\ (w.bids[k] = None => allocs[k] = 0)
  PROVE  LET new == NewFills(w, allocs)
             all == AddFills(old, new)
         IN  /\ new \in [Keys -> Fill \cup {None}]
             /\ all \in [Keys -> Fill \cup {None}]
             /\ \A k \in Keys : all[k] # None <=> (old[k] # None \/ allocs[k] # 0)
             /\ UnitsOf(all) = UnitsOf(old) + SumFunctionOnSet(allocs, Keys)
<1> DEFINE new == NewFills(w, allocs)
           all == AddFills(old, new)
           made(k) == [participant |-> w.bids[k].participant, qty |-> allocs[k], price |-> w.price]
<1>1. w.bids \in [Keys -> PendingBid \cup {None}] /\ w.price \in Int
  BY DEF OpenWindow
<1>2. None \notin Fill
  BY NoneAssumption
<1>3. ASSUME NEW k \in Keys, allocs[k] # 0
      PROVE  made(k) \in Fill /\ new[k] = made(k) /\ new[k].qty = allocs[k]
  <2>1. w.bids[k] \in PendingBid
    BY <1>1, <1>3
  <2>2. w.bids[k].participant \in Participants
    BY <2>1 DEF PendingBid
  <2> QED BY <1>1, <1>3, <2>2 DEF NewFills, Fill
<1>4. \A k \in Keys : allocs[k] = 0 => new[k] = None
  BY DEF NewFills
<1>5. new \in [Keys -> Fill \cup {None}]
  <2>1. \A k \in Keys : new[k] \in Fill \cup {None}
    <3> HIDE DEF new
    <3> QED BY <1>3, <1>4
  <2> QED BY <2>1 DEF NewFills
<1>6. \A k \in Keys : all[k] = IF new[k] = None THEN old[k]
                               ELSE IF old[k] = None THEN new[k]
                               ELSE [new[k] EXCEPT !.qty = @ + old[k].qty]
  BY DEF AddFills
<1>7. all = [k \in Keys |-> all[k]]
  BY DEF AddFills
<1> HIDE DEF new, all, made
<1>8. ASSUME NEW k \in Keys
      PROVE  /\ all[k] \in Fill \cup {None}
             /\ (all[k] # None) <=> (old[k] # None \/ allocs[k] # 0)
             /\ (IF all[k] = None THEN 0 ELSE all[k].qty)
                  = (IF old[k] = None THEN 0 ELSE old[k].qty) + allocs[k]
  <2>0. allocs[k] \in Nat /\ (old[k] # None => old[k] \in Fill /\ old[k].qty \in Nat)
    BY DEF Fill
  <2>1. CASE allocs[k] = 0
    <3>1. all[k] = old[k]
      BY <1>4, <1>6, <2>1
    <3> QED BY <2>0, <2>1, <3>1
  <2>2. CASE allocs[k] # 0 /\ old[k] = None
    <3>1. all[k] = new[k] /\ new[k] \in Fill /\ new[k].qty = allocs[k] /\ new[k] # None
      BY <1>2, <1>3, <1>6, <2>2
    <3> QED BY <1>2, <2>0, <2>2, <3>1
  <2>3. CASE allocs[k] # 0 /\ old[k] # None
    <3>1. new[k] \in Fill /\ new[k].qty = allocs[k] /\ new[k] # None
      BY <1>2, <1>3, <2>3
    <3>2. all[k] = [new[k] EXCEPT !.qty = @ + old[k].qty]
      BY <1>6, <2>3, <3>1
    <3>3. all[k] \in Fill /\ all[k].qty = allocs[k] + old[k].qty
      BY <2>0, <2>3, <3>1, <3>2 DEF Fill
    <3> QED BY <1>2, <2>0, <2>3, <3>3
  <2> QED BY <2>1, <2>2, <2>3
<1>9. all \in [Keys -> Fill \cup {None}]
  BY <1>7, <1>8
<1>10. UnitsOf(all) = UnitsOf(old) + SumFunctionOnSet(allocs, Keys)
  <2> DEFINE f == [k \in Keys |-> IF old[k] = None THEN 0 ELSE old[k].qty]
             h == [k \in Keys |-> IF all[k] = None THEN 0 ELSE all[k].qty]
  <2>1. \A k \in Keys : f[k] \in Int /\ allocs[k] \in Int /\ h[k] = f[k] + allocs[k]
    BY <1>8 DEF Fill
  <2>2. UnitsOf(all) = SumFunctionOnSet(h, Keys) /\ UnitsOf(old) = SumFunctionOnSet(f, Keys)
    BY DEF UnitsOf
  <2> HIDE DEF f, h
  <2>3. SumFunctionOnSet(h, Keys) = SumFunctionOnSet(f, Keys) + SumFunctionOnSet(allocs, Keys)
    BY <2>1, KeysAssumption, SumAdd
  <2> QED BY <2>2, <2>3
<1> QED BY <1>5, <1>8, <1>9, <1>10 DEF new, all

(* Remainders are resting bids for what was not filled. *)
LEMMA RemaindersKeep ==
  ASSUME NEW w \in OpenWindow, NEW exhausted,
         NEW allocs, \A k \in Keys : allocs[k] \in Nat /\ (w.bids[k] = None => allocs[k] = 0)
  PROVE  LET back == Remainders(w, allocs, exhausted)
         IN  /\ back \in [Keys -> RestingBid \cup {None}]
             /\ \A k \in Keys : back[k] # None =>
                  w.bids[k] # None /\ back[k].qty > 0 /\ back[k].seq = w.bids[k].seq
<1> DEFINE back == Remainders(w, allocs, exhausted)
<1>1. ASSUME NEW k \in Keys
      PROVE  /\ back[k] \in RestingBid \cup {None}
             /\ back[k] # None =>
                  w.bids[k] # None /\ back[k].qty > 0 /\ back[k].seq = w.bids[k].seq
  <2>1. CASE /\ allocs[k] > 0 /\ ~exhausted
             /\ w.bids[k].resting_limit # None /\ allocs[k] < w.bids[k].qty
    <3>1. w.bids[k] \in PendingBid /\ w.bids[k] # None /\ allocs[k] \in Nat
      BY <2>1 DEF OpenWindow
    <3>2. /\ w.bids[k].qty \in Nat /\ w.bids[k].seq \in Nat /\ w.bids[k].resting_limit \in Int
          /\ w.bids[k].participant \in Participants
      BY <2>1, <3>1 DEF PendingBid
    <3>3. back[k] = [seq |-> w.bids[k].seq, participant |-> w.bids[k].participant,
                     qty |-> w.bids[k].qty - allocs[k], limit |-> w.bids[k].resting_limit]
      BY <2>1 DEF Remainders
    <3>4. w.bids[k].qty - allocs[k] \in Nat /\ w.bids[k].qty - allocs[k] > 0
      BY <2>1, <3>1, <3>2
    <3> HIDE DEF back
    <3> QED BY <3>1, <3>2, <3>3, <3>4 DEF RestingBid
  <2>2. CASE ~(/\ allocs[k] > 0 /\ ~exhausted
               /\ w.bids[k].resting_limit # None /\ allocs[k] < w.bids[k].qty)
    BY <2>2 DEF Remainders
  <2> QED BY <2>1, <2>2
<1>2. back \in [Keys -> RestingBid \cup {None}]
  BY <1>1 DEF Remainders
<1> QED BY <1>1, <1>2

(* The outcomes a window leaves: a new fill only with units allocated. *)
LEMMA WindowOutcomesKeep ==
  ASSUME NEW outcomes \in [Keys -> Outcomes], NEW w \in OpenWindow,
         NEW allocs, \A k \in Keys : allocs[k] \in Nat /\ (w.bids[k] = None => allocs[k] = 0)
  PROVE  LET new == WindowOutcomes(outcomes, w, allocs)
         IN  /\ new \in [Keys -> Outcomes]
             /\ \A k \in Keys : HasFill(new[k]) => HasFill(outcomes[k]) \/ allocs[k] # 0
<1> DEFINE new == WindowOutcomes(outcomes, w, allocs)
           no == Rejected("SupplyExhausted")
<1>1. no \in Outcomes /\ ~HasFill(no)
  BY OutcomeKinds DEF Reasons, Rejected, HasFill
<1>2. \A k \in Keys : Filled(allocs[k], w.price) \in Outcomes
  BY OutcomeKinds DEF OpenWindow
<1>3. \A k \in Keys : new[k] = IF w.bids[k] = None THEN outcomes[k]
                               ELSE Merge(outcomes[k], IF allocs[k] = 0 THEN no
                                                       ELSE Filled(allocs[k], w.price))
  BY DEF WindowOutcomes
<1> HIDE DEF no
<1>4. \A k \in Keys : new[k] \in Outcomes
  BY <1>1, <1>2, <1>3, MergeType
<1>5. \A k \in Keys : HasFill(new[k]) => HasFill(outcomes[k]) \/ allocs[k] # 0
  BY <1>1, <1>3, MergeNoFill
<1>6. new \in [Keys -> Outcomes]
  BY <1>4 DEF WindowOutcomes
<1> QED BY <1>5, <1>6

(* The state that settling a window leaves, before it may clear. *)
SettledState(s) ==
  LET w == s.window
      allocs == Allocate(w.bids, s.supply_remaining)
      left == Monus(s.supply_remaining, SumFunctionOnSet(allocs, Keys))
      exhausted == s.supply_remaining > 0 /\ left = 0
  IN  Settled(s, w, allocs, left, NewFills(w, allocs), Remainders(w, allocs, exhausted))

LEMMA SettledKept ==
  ASSUME NEW s, Kept(s), s.window # None, s.status = "Live"
  PROVE  /\ Kept(SettledState(s)) /\ SettledState(s).status = "Live"
         /\ s.window.price \in Int
<1> DEFINE w == s.window
           allocs == Allocate(w.bids, s.supply_remaining)
           sold == SumFunctionOnSet(allocs, Keys)
           left == Monus(s.supply_remaining, sold)
           exhausted == s.supply_remaining > 0 /\ left = 0
           new == NewFills(w, allocs)
           fills == AddFills(s.fills, new)
           back == Remainders(w, allocs, exhausted)
           outcomes == WindowOutcomes(s.outcomes, w, allocs)
           resting == [k \in Keys |-> IF back[k] = None THEN s.resting[k] ELSE back[k]]
           committed == [p \in Participants |->
              Settlement(s.committed[p], w.bids, BidsOf(p, w.bids),
                         Cost(w.bids, ReservePrices(w.bids)), Paid(new),
                         Cost(back, LimitPrices(back)))]
           t == [s EXCEPT !.window = None, !.supply_remaining = left, !.fills = fills,
                          !.outcomes = outcomes, !.resting = resting, !.committed = committed]
<1>1. s \in AuctionState
  BY DEF Kept
<1>2. /\ s.fills \in [Keys -> Fill \cup {None}] /\ s.outcomes \in [Keys -> Outcomes]
      /\ s.resting \in [Keys -> RestingBid \cup {None}] /\ s.committed \in [Participants -> Int]
      /\ s.supply_remaining \in Nat /\ w \in OpenWindow
  BY <1>1 DEF AuctionState
<1>3. /\ w.bids \in [Keys -> PendingBid \cup {None}] /\ WindowBids(s) = w.bids
      /\ WellFormed(w.bids)
  BY WindowWellFormed
<1>4. /\ \A k \in Keys : allocs[k] \in Nat /\ (w.bids[k] = None => allocs[k] = 0)
      /\ sold \in Nat /\ sold <= s.supply_remaining
  <2>1. /\ \A k \in Keys : allocs[k] \in Nat /\ allocs[k] <= Asked(w.bids)[k]
        /\ sold = Sells(w.bids, s.supply_remaining)
    BY <1>2, <1>3, AllocationIsExact
  <2>2. \A k \in Keys : w.bids[k] = None => Asked(w.bids)[k] = 0
    BY DEF Asked
  <2>3. Demand(w.bids, Present(w.bids)) \in Nat
    BY <1>3, DemandIsAsked
  <2> HIDE DEF allocs, sold, w
  <2>4. sold \in Nat /\ sold <= s.supply_remaining
    BY <1>2, <2>1, <2>3 DEF Sells
  <2> QED BY <2>1, <2>2, <2>4
<1>5. SettledState(s) = t
  BY DEF SettledState, Settled
<1> HIDE DEF allocs
<1>6. /\ new \in [Keys -> Fill \cup {None}] /\ fills \in [Keys -> Fill \cup {None}]
      /\ \A k \in Keys : fills[k] # None <=> (s.fills[k] # None \/ allocs[k] # 0)
      /\ UnitsOf(fills) = UnitsOf(s.fills) + sold
  BY <1>2, <1>4, AddFillsKeeps
<1>7. /\ back \in [Keys -> RestingBid \cup {None}]
      /\ \A k \in Keys : back[k] # None =>
           w.bids[k] # None /\ back[k].qty > 0 /\ back[k].seq = w.bids[k].seq
  BY <1>2, <1>4, RemaindersKeep
<1>8. /\ outcomes \in [Keys -> Outcomes]
      /\ \A k \in Keys : HasFill(outcomes[k]) => HasFill(s.outcomes[k]) \/ allocs[k] # 0
  BY <1>2, <1>4, WindowOutcomesKeep
<1> HIDE DEF sold
<1>9. left \in Nat /\ left = s.supply_remaining - sold
  BY <1>2, <1>4 DEF Monus
<1> HIDE DEF left, exhausted, new, fills, back, outcomes
<1>10. committed \in [Participants -> Int]
  <2>1. \A k \in Keys : /\ Cost(w.bids, ReservePrices(w.bids))[k] \in Int
                        /\ Paid(new)[k] \in Int /\ Cost(back, LimitPrices(back))[k] \in Int
    BY <1>3, <1>6, <1>7, CostsAreIntegers, AmountsAreIntegers
  <2>2. \A p \in Participants : s.committed[p] \in Int
    BY <1>2
  <2>3. \A p \in Participants :
          BidsOf(p, w.bids) \subseteq Present(w.bids) /\ BidsOf(p, w.bids) \subseteq Keys
    BY DEF BidsOf, Present
  <2> HIDE DEF w
  <2>4. \A p \in Participants : committed[p] \in Int
    BY <1>3, <2>1, <2>2, <2>3, SettlementIsInteger
  <2> QED BY <2>4
<1>11. resting \in [Keys -> RestingBid \cup {None}]
  BY <1>2, <1>7
<1> HIDE DEF committed
<1>12. \A k \in Keys : resting[k] = IF back[k] = None THEN s.resting[k] ELSE back[k]
  OBVIOUS
<1> HIDE DEF resting
<1>13. /\ t \in AuctionState
       /\ t.status = "Live" /\ t.fills = fills
       /\ t.outcomes = outcomes /\ t.resting = resting /\ t.window = None
       /\ t.supply_remaining = left /\ t.admitted = s.admitted
  BY <1>1, <1>6, <1>8, <1>9, <1>10, <1>11 DEF AuctionState
<1> HIDE DEF t
<1>14. WindowBids(t) = Nothing
  BY <1>13 DEF WindowBids
<1>15. SeqsApart(t)
  <2>1. \A k \in Keys : Seqs(t, k) \subseteq Seqs(s, k)
    BY <1>3, <1>7, <1>12, <1>13, <1>14, NothingWaits DEF Seqs
  <2> QED BY <1>13, <2>1, SeqsShrink DEF Kept
<1>16. Wanting(t)
  BY <1>7, <1>12, <1>13, <1>14, NothingWaits DEF Wanting, Kept
<1>17. Conserved(t)
  <2>1. UnitsOf(s.fills) \in Nat /\ s.supply_remaining + UnitsOf(s.fills) = TotalSupply
    BY <1>2, SumsAreIntegers DEF Kept, Conserved
  <2> QED BY <1>2, <1>4, <1>6, <1>9, <1>13, <2>1 DEF Conserved
<1>18. FillsTold(t)
  BY <1>6, <1>8, <1>13 DEF FillsTold, Kept
<1>19. Uniform(t)
  BY <1>13 DEF Uniform
<1>20. Kept(t) /\ w.price \in Int
  BY <1>2, <1>13, <1>15, <1>16, <1>17, <1>18, <1>19 DEF Kept, OpenWindow
<1> QED BY <1>5, <1>13, <1>20

LEMMA SettleKept ==
  ASSUME NEW s, Kept(s), s.window # None, s.status = "Live"
  PROVE  Kept(SettleWindow(s)) /\ SettleWindow(s).status \in {"Live", "Cleared"}
<1> DEFINE left == Monus(s.supply_remaining,
                         SumFunctionOnSet(Allocate(s.window.bids, s.supply_remaining), Keys))
<1>1. SettleWindow(s) = IF s.supply_remaining > 0 /\ left = 0
                        THEN Clear(SettledState(s), s.window.price) ELSE SettledState(s)
  BY DEF SettleWindow, Distribute, SettledState
<1>2. /\ Kept(SettledState(s)) /\ SettledState(s).status = "Live"
      /\ s.window.price \in Int
  BY SettledKept
<1> HIDE DEF left
<1> QED BY <1>1, <1>2, ClearKept

LEMMA FlushKept ==
  ASSUME NEW s, Kept(s)
  PROVE  Kept(FlushWindow(s))
<1>1. CASE s.window = None
  BY <1>1 DEF FlushWindow
<1>2. CASE s.window # None /\ AcceptsBids(s)
  BY <1>2, SettleKept DEF FlushWindow, AcceptsBids
<1>3. CASE s.window # None /\ ~AcceptsBids(s)
  <2>1. "NotLive" \in Reasons
    BY DEF Reasons
  <2> QED BY <1>3, <2>1, RefundKept DEF FlushWindow
<1> QED BY <1>1, <1>2, <1>3

(* Steps that change no bid, fill or outcome. *)
LEMMA BookkeepingKept ==
  ASSUME NEW s, Kept(s), NEW t \in AuctionState,
         t.resting = s.resting, t.window = s.window, t.fills = s.fills,
         t.outcomes = s.outcomes, t.supply_remaining = s.supply_remaining,
         t.clearing_price = s.clearing_price,
         t.status = "Cleared" => s.status = "Cleared",
         t.admitted >= s.admitted
  PROVE  Kept(t)
<1>1. WindowBids(t) = WindowBids(s) /\ \A k \in Keys : Seqs(t, k) = Seqs(s, k)
  BY DEF WindowBids, Seqs
<1>2. ASSUME NEW k \in Keys, NEW x \in Seqs(s, k) PROVE x \in Nat
  <2>1. s.resting[k] # None => s.resting[k].seq \in Nat
    BY DEF Kept, AuctionState, RestingBid
  <2>2. CASE s.window = None
    BY <2>1, <2>2, <1>2, NothingWaits DEF Seqs, WindowBids
  <2>3. CASE s.window # None
    <3>1. WindowBids(s)[k] # None => WindowBids(s)[k].seq \in Nat
      BY <2>3, WindowWellFormed DEF PendingBid
    <3> QED BY <1>2, <2>1, <3>1 DEF Seqs
  <2> QED BY <2>2, <2>3
<1>3. s.admitted \in Nat /\ t.admitted \in Nat
  BY DEF Kept, AuctionState
<1>4. SeqsApart(t)
  BY <1>1, <1>2, <1>3 DEF SeqsApart, Kept
<1> QED BY <1>1, <1>4 DEF Kept, Wanting, Conserved, FillsTold, Uniform

LEMMA ArriveKept ==
  ASSUME NEW s, Kept(s), NEW ts \in U64
  PROVE  Kept(Arrive(s, ts))
<1> DEFINE now == IF ts > s.now THEN ts ELSE s.now
           t == [s EXCEPT !.now = now]
<1>1. s \in AuctionState /\ now \in U64
  BY DEF Kept, AuctionState
<1> HIDE DEF now
<1>2. /\ t \in AuctionState
      /\ t.resting = s.resting /\ t.window = s.window /\ t.fills = s.fills
      /\ t.outcomes = s.outcomes /\ t.supply_remaining = s.supply_remaining
      /\ t.clearing_price = s.clearing_price /\ t.status = s.status
      /\ t.admitted = s.admitted /\ s.admitted \in Nat
  BY <1>1 DEF AuctionState
<1>3. Arrive(s, ts) = CloseElapsedWindow(t)
  BY DEF Arrive, now
<1> HIDE DEF t
<1>4. Kept(t)
  BY <1>2, BookkeepingKept
<1> QED BY <1>3, <1>4, FlushKept DEF CloseElapsedWindow

LEMMA SetOutcomeKept ==
  ASSUME NEW s, Kept(s), NEW k \in Keys, NEW o \in Outcomes, ~HasFill(o)
  PROVE  Kept(SetOutcome(s, k, o))
<1> DEFINE outcomes == [s.outcomes EXCEPT ![k] = Merge(s.outcomes[k], o)]
           t == SetOutcome(s, k, o)
<1>1. s \in AuctionState /\ s.outcomes \in [Keys -> Outcomes]
  BY DEF Kept, AuctionState
<1>2. outcomes \in [Keys -> Outcomes]
  BY <1>1, MergeType
<1>3. t = [s EXCEPT !.outcomes = outcomes]
  BY <1>1 DEF SetOutcome, AuctionState
<1>4. \A j \in Keys : HasFill(outcomes[j]) =>
        HasFill(s.outcomes[j]) /\ outcomes[j].price = s.outcomes[j].price
  BY <1>1, MergeNoFill
<1> HIDE DEF outcomes, t
<1>5. /\ t \in AuctionState /\ t.outcomes = outcomes
      /\ t.resting = s.resting /\ t.window = s.window /\ t.fills = s.fills
      /\ t.supply_remaining = s.supply_remaining /\ t.status = s.status
      /\ t.clearing_price = s.clearing_price /\ t.admitted = s.admitted
  BY <1>1, <1>2, <1>3 DEF AuctionState
<1>6. WindowBids(t) = WindowBids(s) /\ \A j \in Keys : Seqs(t, j) = Seqs(s, j)
  BY <1>5 DEF WindowBids, Seqs
<1>7. SeqsApart(t)
  BY <1>5, <1>6, SeqsShrink DEF Kept
<1>8. Wanting(t) /\ Conserved(t)
  BY <1>5, <1>6 DEF Wanting, Conserved, Kept
<1>9. FillsTold(t) /\ Uniform(t)
  BY <1>4, <1>5 DEF FillsTold, Uniform, Kept
<1> QED BY <1>5, <1>7, <1>8, <1>9 DEF Kept, t

(* A window's index and price are numbers. *)
LEMMA WindowTypes ==
  ASSUME NEW ts \in U64
  PROVE  WindowIndex(BatchWindow, ts) \in Nat /\ WindowPrice(Schedule, BatchWindow, ts) \in Int
<1>1. BatchWindow \in U64 /\ IsSchedule(Schedule)
  BY AuctionAssumption
<1>2. WindowLast(BatchWindow, ts) \in U64
  BY <1>1, WindowLastIsLast
<1>3. WindowPrice(Schedule, BatchWindow, ts) \in Int
  BY <1>1, <1>2, PriceInBounds DEF WindowPrice
<1>4. WindowIndex(BatchWindow, ts) \in Nat
  BY <1>1, DivBrackets DEF WindowIndex, U64
<1> QED BY <1>3, <1>4

(* Bids that ask for something and have seqs of their own may join. *)
LEMMA PushKept ==
  ASSUME NEW s, Kept(s), NEW bids \in [Keys -> PendingBid \cup {None}],
         \A k \in Keys : bids[k] # None =>
           /\ bids[k].qty > 0 /\ bids[k].seq < s.admitted
           /\ \A j \in Keys : j # k =>
                /\ bids[k].seq \notin Seqs(s, j)
                /\ bids[j] # None => bids[j].seq # bids[k].seq
  PROVE  Kept(PushPending(s, bids))
<1>1. CASE Present(bids) = {}
  BY <1>1 DEF PushPending
<1>2. CASE Present(bids) # {}
  <2> DEFINE w == IF s.window # None THEN s.window
                  ELSE [index |-> WindowIndex(BatchWindow, s.now),
                        price |-> WindowPrice(Schedule, BatchWindow, s.now),
                        bids |-> Nothing]
             all == [k \in Keys |-> IF bids[k] = None THEN w.bids[k] ELSE bids[k]]
             v == [w EXCEPT !.bids = all]
             t == [s EXCEPT !.window = v]
  <2>1. s \in AuctionState /\ s.now \in U64
    BY DEF Kept, AuctionState
  <2>2. w \in OpenWindow /\ w.bids = WindowBids(s)
    <3>1. CASE s.window # None
      BY <2>1, <3>1 DEF AuctionState, WindowBids
    <3>2. CASE s.window = None
      <4>1. Nothing \in [Keys -> PendingBid \cup {None}]
        BY NothingWaits
      <4> QED BY <2>1, <3>2, <4>1, WindowTypes DEF OpenWindow, WindowBids
    <3> QED BY <3>1, <3>2
  <2>3. PushPending(s, bids) = t
    BY <1>2 DEF PushPending
  <2> HIDE DEF w
  <2>4. w.bids \in [Keys -> PendingBid \cup {None}]
    BY <2>2 DEF OpenWindow
  <2>5. all \in [Keys -> PendingBid \cup {None}]
    BY <2>4
  <2>6. \A k \in Keys : all[k] = IF bids[k] = None THEN WindowBids(s)[k] ELSE bids[k]
    BY <2>2
  <2> HIDE DEF all
  <2>7. v \in OpenWindow /\ v.bids = all /\ v # None
    <3>1. v \in OpenWindow /\ v.bids = all
      BY <2>2, <2>5 DEF OpenWindow
    <3> QED BY <3>1, NoneAssumption
  <2> HIDE DEF v
  <2>8. /\ t \in AuctionState /\ t.window = v
        /\ t.resting = s.resting /\ t.fills = s.fills /\ t.outcomes = s.outcomes
        /\ t.supply_remaining = s.supply_remaining /\ t.status = s.status
        /\ t.clearing_price = s.clearing_price /\ t.admitted = s.admitted
    BY <2>1, <2>7 DEF AuctionState
  <2> HIDE DEF t
  <2>9. WindowBids(t) = all
    BY <2>7, <2>8 DEF WindowBids
  <2>10. \A k \in Keys : Seqs(t, k) \subseteq
           Seqs(s, k) \cup (IF bids[k] = None THEN {} ELSE {bids[k].seq})
    BY <2>6, <2>8, <2>9 DEF Seqs
  <2>11. SeqsApart(t)
    BY <2>8, <2>10 DEF SeqsApart, Kept
  <2>12. Wanting(t)
    BY <2>6, <2>8, <2>9 DEF Wanting, Kept
  <2>13. Conserved(t) /\ FillsTold(t) /\ Uniform(t)
    BY <2>8 DEF Conserved, FillsTold, Uniform, Kept
  <2> QED BY <2>3, <2>8, <2>11, <2>12, <2>13 DEF Kept
<1> QED BY <1>1, <1>2

(* Reserving collateral for a bid, and counting it. *)
LEMMA ReserveKept ==
  ASSUME NEW s, Kept(s), NEW p \in Participants, NEW price \in Int, NEW qty \in Nat
  PROVE  LET t == [Reserve(s, p, price, qty) EXCEPT !.admitted = @ + 1]
         IN  /\ Kept(t) /\ t.admitted = s.admitted + 1 /\ s.admitted \in Nat
             /\ t.resting = s.resting /\ t.window = s.window /\ t.now = s.now
             /\ \A k \in Keys : Seqs(t, k) = Seqs(s, k)
<1> DEFINE t == [Reserve(s, p, price, qty) EXCEPT !.admitted = @ + 1]
           committed == [s.committed EXCEPT ![p] = SatI64(s.committed[p] + price * qty)]
           n == s.admitted + 1
<1>1. s \in AuctionState /\ s.committed \in [Participants -> Int] /\ s.admitted \in Nat /\ n \in Nat
  BY DEF Kept, AuctionState
<1>2. SatI64(s.committed[p] + price * qty) \in Int
  BY <1>1, WidthsAssumption DEF SatI64, AtMost
<1>3. committed \in [Participants -> Int]
  BY <1>1, <1>2
<1>4. Reserve(s, p, price, qty) = [s EXCEPT !.committed = committed]
  BY DEF Reserve
<1> HIDE DEF committed
<1>5. t = [s EXCEPT !.committed = committed, !.admitted = n]
  BY <1>1, <1>4 DEF AuctionState
<1> HIDE DEF t
<1>6. /\ t \in AuctionState /\ t.admitted = n
      /\ t.resting = s.resting /\ t.window = s.window /\ t.fills = s.fills
      /\ t.outcomes = s.outcomes /\ t.supply_remaining = s.supply_remaining
      /\ t.clearing_price = s.clearing_price /\ t.status = s.status /\ t.now = s.now
  <2> HIDE DEF n
  <2> QED BY <1>1, <1>3, <1>5 DEF AuctionState
<1>7. Kept(t)
  BY <1>1, <1>6, BookkeepingKept
<1>8. \A k \in Keys : Seqs(t, k) = Seqs(s, k)
  BY <1>6 DEF Seqs, WindowBids
<1> QED BY <1>1, <1>6, <1>7, <1>8 DEF t

-----------------------------------------------------------------------------
(* What each handler keeps. *)

LEMMA OnOpenKept ==
  ASSUME NEW s, Kept(s)
  PROVE  Kept(OnOpen(s))
<1> DEFINE t == [s EXCEPT !.status = "Live"]
<1>1. s \in AuctionState
  BY DEF Kept
<1>2. /\ t \in AuctionState /\ t.status = "Live"
      /\ t.resting = s.resting /\ t.window = s.window /\ t.fills = s.fills
      /\ t.outcomes = s.outcomes /\ t.supply_remaining = s.supply_remaining
      /\ t.clearing_price = s.clearing_price /\ t.admitted = s.admitted /\ s.admitted \in Nat
  BY <1>1 DEF AuctionState, Status
<1>3. OnOpen(s) = IF s.status = "Pending" THEN t ELSE s
  BY DEF OnOpen
<1> HIDE DEF t
<1>4. Kept(t)
  BY <1>2, BookkeepingKept
<1> QED BY <1>3, <1>4

LEMMA OnSetCollateralKept ==
  ASSUME NEW s, Kept(s), NEW p \in Participants, NEW limit \in Int
  PROVE  Kept(OnSetCollateral(s, p, limit))
<1> DEFINE limits == [s.limit EXCEPT ![p] = limit]
           t == OnSetCollateral(s, p, limit)
<1>1. s \in AuctionState /\ s.limit \in [Participants -> Int] /\ limits \in [Participants -> Int]
  BY DEF Kept, AuctionState
<1>2. t = [s EXCEPT !.limit = limits]
  BY DEF OnSetCollateral
<1> HIDE DEF limits, t
<1>3. /\ t \in AuctionState
      /\ t.resting = s.resting /\ t.window = s.window /\ t.fills = s.fills
      /\ t.outcomes = s.outcomes /\ t.supply_remaining = s.supply_remaining
      /\ t.clearing_price = s.clearing_price /\ t.admitted = s.admitted /\ s.admitted \in Nat
      /\ t.status = s.status
  BY <1>1, <1>2 DEF AuctionState
<1>4. Kept(t)
  BY <1>3, BookkeepingKept
<1> QED BY <1>4 DEF t

LEMMA OnBidKept ==
  ASSUME NEW s, Kept(s), NEW k \in Keys, NEW refusal \in Reasons \cup {""}, NEW admit,
         refusal = "" => Kept(admit)
  PROVE  Kept(OnBid(s, k, refusal, admit))
<1>1. CASE s.outcomes[k] # NoOutcome
  BY <1>1 DEF OnBid
<1>2. CASE s.outcomes[k] = NoOutcome /\ refusal # ""
  <2>1. Rejected(refusal) \in Outcomes /\ ~HasFill(Rejected(refusal))
    BY <1>2, OutcomeKinds DEF Rejected, HasFill
  <2>2. Kept(Reject(s, k, refusal))
    BY <2>1, SetOutcomeKept DEF Reject
  <2> QED BY <1>2, <2>2 DEF OnBid
<1>3. CASE s.outcomes[k] = NoOutcome /\ refusal = ""
  BY <1>3 DEF OnBid
<1> QED BY <1>1, <1>2, <1>3

(* A refusal is a reason, and none means that something was asked for. *)
LEMMA RefusalIsReason ==
  ASSUME NEW s, NEW p, NEW qty, NEW offClock, NEW reason \in Reasons, NEW price
  PROVE  /\ BidRefusal(s, p, qty, offClock, reason, price) \in Reasons \cup {""}
         /\ BidRefusal(s, p, qty, offClock, reason, price) = "" => qty # 0
BY DEF BidRefusal, Reasons

(* No seq of a waiting bid is the next one. *)
LEMMA NextSeqIsNew ==
  ASSUME NEW s, Kept(s)
  PROVE  s.admitted \in Nat /\ \A k \in Keys : s.admitted \notin Seqs(s, k)
BY DEF Kept, AuctionState, SeqsApart

(* A take in its window, which settles at once when batching is off. *)
QueuedState(s, p, k, qty) ==
  LET price == WindowPrice(Schedule, BatchWindow, s.now)
      bid == [seq |-> s.admitted, participant |-> p, qty |-> qty, priority |-> price,
              reserve_price |-> price, resting_limit |-> None]
      reserved == [Reserve(s, p, price, qty) EXCEPT !.admitted = @ + 1]
  IN  SetOutcome(PushPending(reserved, OneBid(k, bid)), k, Queued(qty))

LEMMA QueuedKept ==
  ASSUME NEW s, Kept(s), NEW p \in Participants, NEW k \in Keys, NEW qty \in Nat, qty # 0
  PROVE  Kept(QueuedState(s, p, k, qty))
<1> DEFINE price == WindowPrice(Schedule, BatchWindow, s.now)
           bid == [seq |-> s.admitted, participant |-> p, qty |-> qty, priority |-> price,
                   reserve_price |-> price, resting_limit |-> None]
           t == [Reserve(s, p, price, qty) EXCEPT !.admitted = @ + 1]
           bids == OneBid(k, bid)
           u == PushPending(t, bids)
<1>1. price \in Int
  BY WindowTypes DEF Kept, AuctionState
<1>2. /\ Kept(t) /\ t.admitted = s.admitted + 1 /\ s.admitted \in Nat
      /\ \A j \in Keys : Seqs(t, j) = Seqs(s, j)
  BY <1>1, ReserveKept
<1>3. QueuedState(s, p, k, qty) = SetOutcome(u, k, Queued(qty))
  BY DEF QueuedState
<1> HIDE DEF price, t
<1>4. bid \in PendingBid /\ bid.seq = s.admitted /\ bid.qty = qty
  BY <1>1, <1>2 DEF PendingBid
<1> HIDE DEF bid
<1>5. /\ bids \in [Keys -> PendingBid \cup {None}]
      /\ \A j \in Keys : bids[j] = IF j = k THEN bid ELSE None
  BY <1>4 DEF OneBid
<1> HIDE DEF bids
<1>6. Kept(u)
  <2>1. \A j \in Keys : s.admitted \notin Seqs(t, j)
    BY <1>2, NextSeqIsNew
  <2>2. \A j \in Keys : bids[j] # None => j = k /\ bids[j] = bid
    BY <1>5
  <2>3. \A j \in Keys : bids[j] # None =>
          /\ bids[j].qty > 0 /\ bids[j].seq < t.admitted
          /\ \A i \in Keys : i # j =>
               /\ bids[j].seq \notin Seqs(t, i)
               /\ bids[i] # None => bids[i].seq # bids[j].seq
    BY <1>2, <1>4, <2>1, <2>2
  <2> QED BY <1>2, <1>5, <2>3, PushKept
<1> HIDE DEF u
<1>7. Kept(SetOutcome(u, k, Queued(qty)))
  <2>1. Queued(qty) \in Outcomes /\ ~HasFill(Queued(qty))
    BY OutcomeKinds DEF Queued, HasFill
  <2> QED BY <1>6, <2>1, SetOutcomeKept
<1> QED BY <1>3, <1>7

LEMMA AdmitTakeKept ==
  ASSUME NEW s, Kept(s), NEW p \in Participants, NEW k \in Keys, NEW qty \in Nat, qty # 0
  PROVE  Kept(AdmitTake(s, p, k, qty))
<1>1. AdmitTake(s, p, k, qty) = FlushIfUnbatched(QueuedState(s, p, k, qty))
  BY DEF AdmitTake, QueuedState
<1> QED BY <1>1, QueuedKept, FlushKept DEF FlushIfUnbatched

LEMMA AdmitRestingKept ==
  ASSUME NEW s, Kept(s), NEW p \in Participants, NEW k \in Keys, NEW qty \in Nat, qty # 0,
         NEW limit \in Int
  PROVE  Kept(AdmitResting(s, p, k, qty, limit))
<1> DEFINE bid == [seq |-> s.admitted, participant |-> p, qty |-> qty, limit |-> limit]
           t == [Reserve(s, p, limit, qty) EXCEPT !.admitted = @ + 1]
           resting == [t.resting EXCEPT ![k] = bid]
           u == [t EXCEPT !.resting[k] = bid]
<1>1. /\ Kept(t) /\ t.admitted = s.admitted + 1 /\ s.admitted \in Nat
      /\ \A j \in Keys : Seqs(t, j) = Seqs(s, j)
  BY ReserveKept
<1>2. AdmitResting(s, p, k, qty, limit) = SetOutcome(u, k, Resting(qty))
  BY DEF AdmitResting
<1> HIDE DEF t
<1>3. bid \in RestingBid /\ bid.seq = s.admitted /\ bid.qty = qty /\ bid # None
  BY <1>1, NoneAssumption DEF RestingBid
<1> HIDE DEF bid
<1>4. t \in AuctionState /\ t.resting \in [Keys -> RestingBid \cup {None}]
  BY <1>1 DEF Kept, AuctionState
<1>5. /\ resting \in [Keys -> RestingBid \cup {None}]
      /\ \A j \in Keys : resting[j] = IF j = k THEN bid ELSE t.resting[j]
  BY <1>3, <1>4
<1>6. u = [t EXCEPT !.resting = resting]
  OBVIOUS
<1> HIDE DEF u, resting
<1>7. /\ u \in AuctionState /\ u.resting = resting
      /\ u.window = t.window /\ u.fills = t.fills /\ u.outcomes = t.outcomes
      /\ u.supply_remaining = t.supply_remaining /\ u.status = t.status
      /\ u.clearing_price = t.clearing_price /\ u.admitted = t.admitted
  BY <1>4, <1>5, <1>6 DEF AuctionState
<1>8. WindowBids(u) = WindowBids(t)
  BY <1>7 DEF WindowBids
<1>9. SeqsApart(u)
  <2>1. \A j \in Keys : Seqs(u, j) \subseteq Seqs(t, j) \cup (IF j = k THEN {s.admitted} ELSE {})
    BY <1>3, <1>5, <1>7, <1>8 DEF Seqs
  <2>2. \A j \in Keys : s.admitted \notin Seqs(t, j)
    BY <1>1, NextSeqIsNew
  <2>3. s.admitted < t.admitted
    BY <1>1
  <2> QED BY <1>1, <1>7, <2>1, <2>2, <2>3 DEF SeqsApart, Kept
<1>10. Wanting(u)
  BY <1>1, <1>3, <1>5, <1>7, <1>8 DEF Wanting, Kept
<1>11. Conserved(u) /\ FillsTold(u) /\ Uniform(u)
  BY <1>1, <1>7 DEF Conserved, FillsTold, Uniform, Kept
<1>12. Resting(qty) \in Outcomes /\ ~HasFill(Resting(qty))
  BY OutcomeKinds DEF Resting, HasFill
<1>13. Kept(u)
  BY <1>7, <1>9, <1>10, <1>11 DEF Kept
<1> QED BY <1>2, <1>12, <1>13, SetOutcomeKept

(* Taking bids off the ladder. *)
LEMMA LadderShrinksKept ==
  ASSUME NEW s, Kept(s), NEW resting \in [Keys -> RestingBid \cup {None}],
         \A k \in Keys : resting[k] \in {None, s.resting[k]},
         NEW committed \in [Participants -> Int], NEW outcomes \in [Keys -> Outcomes],
         \A k \in Keys : HasFill(outcomes[k]) =>
           HasFill(s.outcomes[k]) /\ outcomes[k].price = s.outcomes[k].price
  PROVE  LET t == [s EXCEPT !.resting = resting, !.committed = committed, !.outcomes = outcomes]
         IN  /\ Kept(t) /\ t.resting = resting /\ t.outcomes = outcomes
             /\ t.window = s.window /\ t.admitted = s.admitted /\ t.now = s.now
             /\ t.status = s.status
             /\ \A k \in Keys : Seqs(t, k) \subseteq Seqs(s, k)
<1> DEFINE t == [s EXCEPT !.resting = resting, !.committed = committed, !.outcomes = outcomes]
<1>1. s \in AuctionState
  BY DEF Kept
<1>2. /\ t \in AuctionState /\ t.resting = resting /\ t.outcomes = outcomes
      /\ t.window = s.window /\ t.fills = s.fills
      /\ t.supply_remaining = s.supply_remaining /\ t.status = s.status
      /\ t.clearing_price = s.clearing_price /\ t.admitted = s.admitted /\ t.now = s.now
  BY <1>1 DEF AuctionState
<1> HIDE DEF t
<1>3. WindowBids(t) = WindowBids(s)
  BY <1>2 DEF WindowBids
<1>4. \A k \in Keys : Seqs(t, k) \subseteq Seqs(s, k)
  BY <1>2, <1>3 DEF Seqs
<1>5. SeqsApart(t)
  BY <1>2, <1>4, SeqsShrink DEF Kept
<1>6. Wanting(t)
  BY <1>2, <1>3 DEF Wanting, Kept
<1>7. Conserved(t) /\ FillsTold(t) /\ Uniform(t)
  BY <1>2 DEF Conserved, FillsTold, Uniform, Kept
<1> QED BY <1>2, <1>4, <1>5, <1>6, <1>7 DEF Kept, t

LEMMA OnCancelRestingKept ==
  ASSUME NEW s, Kept(s), NEW p \in Participants, NEW k \in Keys
  PROVE  Kept(OnCancelResting(s, p, k))
<1>1. CASE ~(s.resting[k] # None /\ s.resting[k].participant = p)
  BY <1>1 DEF OnCancelResting
<1>2. CASE s.resting[k] # None /\ s.resting[k].participant = p
  <2> DEFINE back == s.resting[k].limit * s.resting[k].qty
             resting == [s.resting EXCEPT ![k] = None]
             committed == [s.committed EXCEPT ![p] = SatI64(s.committed[p] - back)]
             t == [s EXCEPT !.resting[k] = None, !.committed[p] = SatI64(@ - back)]
             u == [s EXCEPT !.resting = resting, !.committed = committed, !.outcomes = s.outcomes]
  <2>1. /\ s \in AuctionState /\ s.resting \in [Keys -> RestingBid \cup {None}]
        /\ s.committed \in [Participants -> Int] /\ s.outcomes \in [Keys -> Outcomes]
    BY DEF Kept, AuctionState
  <2>2. s.resting[k] \in RestingBid
    BY <1>2, <2>1
  <2>3. back \in Int
    BY <2>2 DEF RestingBid
  <2>4. OnCancelResting(s, p, k) = SetOutcome(t, k, Withdrawn)
    BY <1>2 DEF OnCancelResting
  <2> HIDE DEF back
  <2>5. t = u
    BY <2>1 DEF AuctionState
  <2>6. /\ resting \in [Keys -> RestingBid \cup {None}] /\ committed \in [Participants -> Int]
        /\ \A j \in Keys : resting[j] \in {None, s.resting[j]}
    BY <2>1, <2>3, Saturation
  <2> HIDE DEF resting, committed
  <2>7. Kept(u)
    BY <2>1, <2>6, LadderShrinksKept
  <2> HIDE DEF u, t
  <2>8. Withdrawn \in Outcomes /\ ~HasFill(Withdrawn)
    BY OutcomeKinds DEF Withdrawn, HasFill
  <2> QED BY <2>4, <2>5, <2>7, <2>8, SetOutcomeKept
<1> QED BY <1>1, <1>2

(* Triggered bids move from the ladder to the window. *)
LEMMA TriggerKept ==
  ASSUME NEW s, Kept(s), NEW clock \in Int
  PROVE  Kept(PushPending(DrainTriggered(s, clock), TriggeredBids(s, clock)))
<1> DEFINE bids == TriggeredBids(s, clock)
           resting == [k \in Keys |-> IF IsTriggered(s.resting[k], clock) THEN None
                                      ELSE s.resting[k]]
           t == DrainTriggered(s, clock)
           u == [s EXCEPT !.resting = resting, !.committed = s.committed, !.outcomes = s.outcomes]
<1>1. /\ s \in AuctionState /\ s.resting \in [Keys -> RestingBid \cup {None}]
      /\ s.committed \in [Participants -> Int] /\ s.outcomes \in [Keys -> Outcomes]
  BY DEF Kept, AuctionState
<1>2. /\ resting \in [Keys -> RestingBid \cup {None}]
      /\ \A j \in Keys : resting[j] \in {None, s.resting[j]}
  BY <1>1
<1>3. t = [s EXCEPT !.resting = resting]
  BY DEF DrainTriggered
<1> HIDE DEF resting, t
<1>4. t = u
  BY <1>1, <1>3 DEF AuctionState
<1>5. Kept(t) /\ t.admitted = s.admitted /\ \A k \in Keys : Seqs(t, k) \subseteq Seqs(s, k)
  <2>1. Kept(u)
    BY <1>1, <1>2, LadderShrinksKept
  <2>2. \A k \in Keys : Seqs(u, k) \subseteq Seqs(s, k)
    BY <1>1, <1>2, LadderShrinksKept
  <2>3. u.admitted = s.admitted
    BY <1>1 DEF AuctionState
  <2> HIDE DEF u
  <2> QED BY <1>4, <2>1, <2>2, <2>3
<1>6. ASSUME NEW k \in Keys
      PROVE  /\ bids[k] \in PendingBid \cup {None}
             /\ bids[k] # None => /\ bids[k].qty > 0 /\ bids[k].seq \in Seqs(s, k)
  <2>1. CASE s.resting[k] = None \/ ~IsTriggered(s.resting[k], clock)
    BY <2>1 DEF TriggeredBids
  <2>2. CASE s.resting[k] # None /\ IsTriggered(s.resting[k], clock)
    <3> DEFINE b == s.resting[k]
    <3>1. b \in RestingBid /\ b.qty > 0
      BY <1>1, <2>2 DEF Kept, Wanting
    <3>2. bids[k] = [seq |-> b.seq, participant |-> b.participant, qty |-> b.qty,
                     priority |-> b.limit, reserve_price |-> b.limit, resting_limit |-> b.limit]
      BY <2>2 DEF TriggeredBids
    <3>3. b.seq \in Seqs(s, k)
      BY <2>2 DEF Seqs
    <3> HIDE DEF b, bids
    <3>4. bids[k] \in PendingBid /\ bids[k].qty = b.qty /\ bids[k].seq = b.seq
      BY <3>1, <3>2 DEF RestingBid, PendingBid
    <3> QED BY <3>1, <3>3, <3>4
  <2> QED BY <2>1, <2>2
<1>7. bids \in [Keys -> PendingBid \cup {None}]
  BY <1>6 DEF TriggeredBids
<1> HIDE DEF bids
<1>8. /\ \A k \in Keys : \A x \in Seqs(s, k) : x < s.admitted
      /\ \A j, k \in Keys : j # k => Seqs(s, j) \cap Seqs(s, k) = {}
  BY DEF Kept, SeqsApart
<1>9. \A k \in Keys : bids[k] # None =>
        /\ bids[k].qty > 0 /\ bids[k].seq < t.admitted
        /\ \A j \in Keys : j # k =>
             /\ bids[k].seq \notin Seqs(t, j)
             /\ bids[j] # None => bids[j].seq # bids[k].seq
  BY <1>5, <1>6, <1>8
<1> QED BY <1>5, <1>7, <1>9, PushKept DEF bids, t

LEMMA OnTickKept ==
  ASSUME NEW s, Kept(s)
  PROVE  Kept(OnTick(s))
<1> DEFINE clock == Price(s.now)
           triggered == PushPending(DrainTriggered(s, clock), TriggeredBids(s, clock))
           matched == FlushIfUnbatched(triggered)
<1>1. clock \in Int
  BY AuctionAssumption, PriceInBounds DEF Price, Kept, AuctionState
<1>2. Kept(triggered)
  BY <1>1, TriggerKept
<1>3. Kept(matched)
  <2> HIDE DEF triggered
  <2> QED BY <1>2, FlushKept DEF FlushIfUnbatched
<1>4. OnTick(s) = IF ~AcceptsBids(s) THEN s
                  ELSE IF AcceptsBids(matched) /\ AtFloor(Schedule, s.now)
                  THEN CloseAtFloor(matched) ELSE matched
  BY DEF OnTick
<1> HIDE DEF matched
<1>5. Kept(CloseAtFloor(matched))
  <2>1. Kept(FlushWindow(matched))
    BY <1>3, FlushKept
  <2>2. Schedule.floor_price \in Int
    BY AuctionAssumption DEF IsSchedule, I64
  <2> QED BY <2>1, <2>2, ClearKept DEF CloseAtFloor
<1> QED BY <1>3, <1>4, <1>5

LEMMA OnCancelKept ==
  ASSUME NEW s, Kept(s)
  PROVE  Kept(OnCancel(s))
<1>1. CASE IsTerminal(s)
  BY <1>1 DEF OnCancel
<1>2. CASE ~IsTerminal(s)
  <2> DEFINE c == [s EXCEPT !.status = "Cancelled"]
             r == RefundWindow(c, "NotLive")
             outcomes == RejectAll(r.outcomes, s.resting, "NotLive")
             committed == [p \in Participants |->
                Returned(r.committed[p], p, s.resting, LimitPrices(s.resting))]
             t == [r EXCEPT !.outcomes = outcomes, !.resting = Nothing, !.committed = committed]
             u == [r EXCEPT !.resting = Nothing, !.committed = committed, !.outcomes = outcomes]
  <2>1. s \in AuctionState /\ s.resting \in [Keys -> RestingBid \cup {None}]
    BY DEF Kept, AuctionState
  <2>2. /\ c \in AuctionState /\ c.status = "Cancelled"
        /\ c.resting = s.resting /\ c.window = s.window /\ c.fills = s.fills
        /\ c.outcomes = s.outcomes /\ c.supply_remaining = s.supply_remaining
        /\ c.clearing_price = s.clearing_price /\ c.admitted = s.admitted /\ s.admitted \in Nat
    BY <2>1 DEF AuctionState, Status
  <2>3. OnCancel(s) = t
    BY <1>2 DEF OnCancel
  <2> HIDE DEF c
  <2>4. Kept(c) /\ "NotLive" \in Reasons
    BY <2>2, BookkeepingKept DEF Reasons
  <2>5. Kept(r)
    BY <2>4, RefundKept
  <2> HIDE DEF r
  <2>6. r \in AuctionState /\ r.outcomes \in [Keys -> Outcomes] /\ r.committed \in [Participants -> Int]
    BY <2>5 DEF Kept, AuctionState
  <2>7. /\ outcomes \in [Keys -> Outcomes]
        /\ \A k \in Keys : HasFill(outcomes[k]) =>
             HasFill(r.outcomes[k]) /\ outcomes[k].price = r.outcomes[k].price
    BY <2>4, <2>6, RejectAllKeeps
  <2>8. committed \in [Participants -> Int]
    <3>1. \A k \in Keys : Cost(s.resting, LimitPrices(s.resting))[k] \in Int
      BY <2>1, CostsAreIntegers
    <3>2. \A p \in Participants : committed[p] \in Int
      BY <2>6, <3>1, ReturnedIsInteger
    <3> QED BY <3>2
  <2> HIDE DEF outcomes, committed
  <2>9. t = u
    BY <2>6 DEF AuctionState
  <2>10. /\ Nothing \in [Keys -> RestingBid \cup {None}]
         /\ \A k \in Keys : Nothing[k] \in {None, r.resting[k]}
    BY NothingWaits
  <2>11. Kept(u)
    BY <2>5, <2>7, <2>8, <2>10, LadderShrinksKept
  <2> QED BY <2>3, <2>9, <2>11
<1> QED BY <1>1, <1>2

-----------------------------------------------------------------------------
(* The theorems. *)

IInv == Kept(auction)

LEMMA NewAuctionKept == Kept(NewAuction)
<1>2. TotalSupply \in Nat /\ 0 \in U64
  BY AuctionAssumption, WidthsAssumption DEF U64
<1>3. NewAuction \in AuctionState
  <2>1. /\ Nothing \in [Keys -> Fill \cup {None}] /\ Nothing \in [Keys -> RestingBid \cup {None}]
    BY NothingWaits
  <2>2. [k \in Keys |-> NoOutcome] \in [Keys -> Outcomes]
    BY OutcomeKinds
  <2> QED BY <1>2, <2>1, <2>2 DEF NewAuction, AuctionState, Status
<1>4. /\ NewAuction.resting = Nothing /\ WindowBids(NewAuction) = Nothing
      /\ NewAuction.status = "Pending" /\ NewAuction.fills = Nothing
      /\ NewAuction.supply_remaining = TotalSupply
      /\ \A k \in Keys : NewAuction.outcomes[k] = NoOutcome
  BY DEF NewAuction, WindowBids
<1>5. SeqsApart(NewAuction) /\ Wanting(NewAuction)
  BY <1>4, NothingWaits DEF SeqsApart, Seqs, Wanting
<1>6. Conserved(NewAuction)
  <2> DEFINE f == [k \in Keys |-> IF Nothing[k] = None THEN 0 ELSE Nothing[k].qty]
  <2>1. \A k \in Keys : f[k] = 0
    BY NothingWaits
  <2>2. UnitsOf(Nothing) = SumFunctionOnSet(f, Keys)
    BY DEF UnitsOf
  <2> HIDE DEF f
  <2>3. UnitsOf(Nothing) = 0
    BY <2>1, <2>2, KeysAssumption, SumZero
  <2> QED BY <1>2, <1>4, <2>3 DEF Conserved
<1>7. FillsTold(NewAuction) /\ Uniform(NewAuction)
  BY <1>4 DEF FillsTold, Uniform, HasFill, NoOutcome
<1> QED BY <1>3, <1>5, <1>6, <1>7 DEF Kept

LEMMA NextKept == Kept(auction) /\ [Next]_auction => Kept(auction')
<1> SUFFICES ASSUME Kept(auction), [Next]_auction PROVE Kept(auction')
  OBVIOUS
<1>1. CASE UNCHANGED auction
  BY <1>1
<1>2. CASE Next
  <2>1. PICK ts \in Timestamps :
          \/ Open(ts)
          \/ Tick(ts)
          \/ Cancel(ts)
          \/ \E p \in Participants :
               \/ \E limit \in Collaterals : SetCollateral(ts, p, limit)
               \/ \E k \in Keys :
                    \/ \E qty \in Quantities, expected \in Expected :
                         SubmitTake(ts, p, k, qty, expected)
                    \/ \E qty \in Quantities, limit \in Limits :
                         SubmitResting(ts, p, k, qty, limit)
                    \/ CancelResting(ts, p, k)
    BY <1>2 DEF Next
  <2> DEFINE s == Arrive(auction, ts)
  <2>2. Kept(s)
    BY AuctionAssumption, ArriveKept
  <2>3. CASE Open(ts)
    BY <2>2, <2>3, OnOpenKept DEF Open
  <2>4. CASE Tick(ts)
    BY <2>2, <2>4, OnTickKept DEF Tick
  <2>5. CASE Cancel(ts)
    BY <2>2, <2>5, OnCancelKept DEF Cancel
  <2>6. ASSUME NEW p \in Participants, NEW limit \in Collaterals, SetCollateral(ts, p, limit)
        PROVE  Kept(auction')
    <3>1. limit \in Int
      BY AuctionAssumption, WidthsAssumption DEF I64
    <3> QED BY <2>2, <2>6, <3>1, OnSetCollateralKept DEF SetCollateral
  <2>7. ASSUME NEW p \in Participants, NEW k \in Keys, NEW qty \in Quantities,
               NEW expected \in Expected, SubmitTake(ts, p, k, qty, expected)
        PROVE  Kept(auction')
    <3> DEFINE refusal == TakeRefusal(s, p, qty, expected)
    <3>1. qty \in Nat
      BY AuctionAssumption, WidthsAssumption DEF U64
    <3>2. refusal \in Reasons \cup {""} /\ (refusal = "" => qty # 0)
      <4>1. "PriceMoved" \in Reasons
        BY DEF Reasons
      <4> QED BY <4>1, RefusalIsReason DEF TakeRefusal
    <3>3. refusal = "" => Kept(AdmitTake(s, p, k, qty))
      BY <2>2, <3>1, <3>2, AdmitTakeKept
    <3>4. auction' = OnBid(s, k, refusal, AdmitTake(s, p, k, qty))
      BY <2>7 DEF SubmitTake
    <3> HIDE DEF s, refusal
    <3> QED BY <2>2, <3>2, <3>3, <3>4, OnBidKept
  <2>8. ASSUME NEW p \in Participants, NEW k \in Keys, NEW qty \in Quantities,
               NEW limit \in Limits, SubmitResting(ts, p, k, qty, limit)
        PROVE  Kept(auction')
    <3> DEFINE refusal == RestingRefusal(s, p, qty, limit)
    <3>1. qty \in Nat /\ limit \in Int
      BY AuctionAssumption, WidthsAssumption DEF U64, I64
    <3>2. refusal \in Reasons \cup {""} /\ (refusal = "" => qty # 0)
      <4>1. "LimitAboveClock" \in Reasons
        BY DEF Reasons
      <4> QED BY <4>1, RefusalIsReason DEF RestingRefusal
    <3>3. refusal = "" => Kept(AdmitResting(s, p, k, qty, limit))
      BY <2>2, <3>1, <3>2, AdmitRestingKept
    <3>4. auction' = OnBid(s, k, refusal, AdmitResting(s, p, k, qty, limit))
      BY <2>8 DEF SubmitResting
    <3> HIDE DEF s, refusal
    <3> QED BY <2>2, <3>2, <3>3, <3>4, OnBidKept
  <2>9. ASSUME NEW p \in Participants, NEW k \in Keys, CancelResting(ts, p, k)
        PROVE  Kept(auction')
    BY <2>2, <2>9, OnCancelRestingKept DEF CancelResting
  <2> QED BY <2>1, <2>3, <2>4, <2>5, <2>6, <2>7, <2>8, <2>9
<1> QED BY <1>1, <1>2

(* The inductive invariant holds in every reachable state. *)
THEOREM AlwaysKept == Spec => []IInv
<1>1. Init => IInv
  BY NewAuctionKept DEF Init, IInv
<1>2. IInv /\ [Next]_auction => IInv'
  BY NextKept DEF IInv
<1> QED BY <1>1, <1>2, PTL DEF Spec

(* Every command leaves a well-typed AuctionState. *)
THEOREM AuctionTypeCorrect == Spec => []TypeOK
<1>1. IInv => TypeOK
  BY DEF IInv, Kept, TypeOK
<1> QED BY <1>1, AlwaysKept, PTL

(* Supply is neither oversold nor lost (I1), for every supply, every bid   *)
(* and every order of commands.                                            *)
THEOREM SupplyIsConserved == Spec => []SupplyConserved
<1>1. IInv => SupplyConserved
  BY DEF IInv, Kept, Conserved, SupplyConserved
<1> QED BY <1>1, AlwaysKept, PTL

(* A cleared auction has one price (I2), in its fills and in the answers   *)
(* every retry is given.                                                   *)
THEOREM PriceIsUniform == Spec => []UniformPrice
<1>1. IInv => UniformPrice
  BY DEF IInv, Kept, Uniform, UniformPrice
<1> QED BY <1>1, AlwaysKept, PTL

-----------------------------------------------------------------------------
(***************************************************************************)
(* The inductive invariant, part by part, as predicates of a state: a      *)
(* command goes through states that are not the auction's between two      *)
(* commands, and most of these hold there too.                             *)
(***************************************************************************)

(* What the outcome o of a key says of its bid in the window, its resting  *)
(* bid and its fill.                                                       *)
Told(o, bid, rest, fill) ==
  /\ o.kind # "FilledThenCancelled"
  /\ bid # None => rest = None /\ o.kind \in {"Queued", "Resting"} /\ o.qty = bid.qty
  /\ rest # None => o = Resting(rest.qty)
  /\ o.kind = "Queued" => bid # None
  /\ o.kind = "Resting" => bid # None \/ rest # None
  /\ IF fill = None THEN o.kind # "Filled" ELSE o = Filled(fill.qty, fill.price)

Truthful(s) ==
  \A k \in Keys : Told(s.outcomes[k], WindowBids(s)[k], s.resting[k], s.fills[k])

Balanced(s) ==
  \A p \in Participants :
    s.committed[p] = WindowHold(p, WindowBids(s)) + LadderHold(p, s.resting)
                       + FillsOwed(p, s.fills)

(* An amount that checked_mul_qty computes without overflow. *)
Payable(price, qty) == 0 <= price /\ price * qty <= I64Max /\ qty <= I64Max

(* Balances saturate, so they always fit. *)
Bounded(s) ==
  \A p \in Participants : s.limit[p] \in I64 /\ s.committed[p] \in I64

(* A clock that stays at or above zero, and prices that all do. *)
FloorNotNegative == 0 <= Schedule.floor_price
PricesNotNegative == FloorNotNegative /\ \A limit \in Limits : 0 <= limit

(* Every amount fits: a resting bid may be below zero, what is taken from  *)
(* a window at the clock's price may not.                                  *)
Fits(s) ==
  \A k \in Keys :
    /\ s.resting[k] # None => ~Overflows(s.resting[k].limit, s.resting[k].qty)
    /\ WindowBids(s)[k] # None =>
         Payable(WindowBids(s)[k].reserve_price, WindowBids(s)[k].qty)
    /\ s.fills[k] # None => Payable(s.fills[k].price, s.fills[k].qty)

Fitting(s) == FloorNotNegative => Fits(s)

RestsAboveZero(s) == \A k \in Keys : s.resting[k] # None => 0 <= s.resting[k].limit

(* With no price below zero nothing saturates, and the ledger balances. *)
Ledger(s) == PricesNotNegative => Balanced(s) /\ RestsAboveZero(s)

FairWindow(s) ==
  s.window # None =>
    /\ s.status = "Live" /\ Present(s.window.bids) # {}
    /\ Schedule.floor_price <= s.window.price
    /\ \A k \in Present(s.window.bids) : s.window.price <= s.window.bids[k].reserve_price

(* Until it clears, the auction has sold nothing below the clock, nor      *)
(* below the price of the window that is open.                             *)
FillsAbove(s) ==
  s.status # "Cleared" =>
    \A k \in Keys : s.fills[k] # None =>
      /\ Price(s.now) <= s.fills[k].price
      /\ s.window # None => s.window.price <= s.fills[k].price

NobodyWaits(s) ==
  IsTerminal(s) => s.window = None /\ \A k \in Keys : s.resting[k] = None

ExhaustionTrue(s) ==
  \A k \in Keys : s.outcomes[k] = Rejected("SupplyExhausted") => s.supply_remaining = 0

Produced(s, price) == \E t \in 0..s.now : Price(t) = price

PriceSeen(s) ==
  s.status = "Cleared" =>
    /\ Produced(s, s.clearing_price)
    /\ s.supply_remaining > 0 => s.clearing_price = Schedule.floor_price

Solid(s) ==
  /\ Kept(s) /\ Truthful(s) /\ Bounded(s) /\ Fitting(s) /\ Ledger(s) /\ FairWindow(s)
  /\ FillsAbove(s) /\ NobodyWaits(s) /\ ExhaustionTrue(s) /\ PriceSeen(s)

(* A window that exhausts the supply clears the auction right after. *)
SoldOutEnds(s) == TotalSupply > 0 /\ s.supply_remaining = 0 => s.status = "Cleared"

Sound(s) == Solid(s) /\ SoldOutEnds(s)

(* The window that is open is the one `now` is in. *)
Opened(s) ==
  s.window # None =>
    /\ s.window.index = WindowIndex(BatchWindow, s.now)
    /\ s.window.price = WindowPrice(Schedule, BatchWindow, s.now)

Timed(s) == Opened(s) /\ (s.window # None => BatchWindow > 0)

SafetyInv == Sound(auction) /\ Timed(auction)

-----------------------------------------------------------------------------
(* Sums of money. *)

(* A sum in which one term changes. *)
LEMMA SumChange ==
  ASSUME NEW S, IsFiniteSet(S), NEW f, NEW g, NEW x \in S,
         \A y \in S : f[y] \in Int /\ g[y] \in Int,
         \A y \in S : y # x => g[y] = f[y]
  PROVE  SumFunctionOnSet(g, S) = SumFunctionOnSet(f, S) + (g[x] - f[x])
<1> DEFINE T == S \ {x}
<1>1. IsFiniteSet(T) /\ T \subseteq S
  BY FS_Subset
<1>2. /\ SumFunctionOnSet(f, S) = f[x] + SumFunctionOnSet(f, T)
      /\ SumFunctionOnSet(g, S) = g[x] + SumFunctionOnSet(g, T)
  BY SumRemove
<1>3. SumFunctionOnSet(g, T) = SumFunctionOnSet(f, T)
  BY <1>1, SumSame
<1>4. SumFunctionOnSet(f, T) \in Int
  BY <1>1, SumInt
<1>5. f[x] \in Int /\ g[x] \in Int
  OBVIOUS
<1> HIDE DEF T
<1> QED BY <1>2, <1>3, <1>4, <1>5

(* What one entry of a map contributes to p's account. *)
Part(p, entry, price) ==
  IF entry = None THEN 0 ELSE IF entry.participant = p THEN price * entry.qty ELSE 0

WindowPart(p, bids) == [k \in Keys |-> Part(p, bids[k], bids[k].reserve_price)]
LadderPart(p, bids) == [k \in Keys |-> Part(p, bids[k], bids[k].limit)]
FillPart(p, fills) == [k \in Keys |-> Part(p, fills[k], fills[k].price)]

LEMMA HoldsAreSums ==
  ASSUME NEW p, NEW bids
  PROVE  /\ WindowHold(p, bids) = SumFunctionOnSet(WindowPart(p, bids), Keys)
         /\ LadderHold(p, bids) = SumFunctionOnSet(LadderPart(p, bids), Keys)
         /\ FillsOwed(p, bids) = SumFunctionOnSet(FillPart(p, bids), Keys)
<1>1. [k \in Keys |-> IF bids[k] = None THEN 0 ELSE IF bids[k].participant = p
                      THEN Cost(bids, ReservePrices(bids))[k] ELSE 0] = WindowPart(p, bids)
  BY DEF Cost, ReservePrices, WindowPart, Part
<1>2. [k \in Keys |-> IF bids[k] = None THEN 0 ELSE IF bids[k].participant = p
                      THEN Cost(bids, LimitPrices(bids))[k] ELSE 0] = LadderPart(p, bids)
  BY DEF Cost, LimitPrices, LadderPart, Part
<1>3. [k \in Keys |-> IF bids[k] = None THEN 0 ELSE IF bids[k].participant = p
                      THEN Cost(bids, FillPrices(bids))[k] ELSE 0] = FillPart(p, bids)
  BY DEF Cost, FillPrices, FillPart, Part
<1> QED BY <1>1, <1>2, <1>3 DEF WindowHold, LadderHold, FillsOwed, TotalFor

LEMMA PartsAreIntegers ==
  ASSUME NEW p
  PROVE  /\ \A bids \in [Keys -> PendingBid \cup {None}] :
              \A k \in Keys : WindowPart(p, bids)[k] \in Int
         /\ \A bids \in [Keys -> RestingBid \cup {None}] :
              \A k \in Keys : LadderPart(p, bids)[k] \in Int
         /\ \A fills \in [Keys -> Fill \cup {None}] :
              \A k \in Keys : FillPart(p, fills)[k] \in Int
<1>1. ASSUME NEW bids \in [Keys -> PendingBid \cup {None}], NEW k \in Keys
      PROVE  WindowPart(p, bids)[k] \in Int
  BY DEF WindowPart, Part, PendingBid
<1>2. ASSUME NEW bids \in [Keys -> RestingBid \cup {None}], NEW k \in Keys
      PROVE  LadderPart(p, bids)[k] \in Int
  BY DEF LadderPart, Part, RestingBid
<1>3. ASSUME NEW fills \in [Keys -> Fill \cup {None}], NEW k \in Keys
      PROVE  FillPart(p, fills)[k] \in Int
  BY DEF FillPart, Part, Fill
<1> QED BY <1>1, <1>2, <1>3

(* Where nothing is waiting or sold, nothing is held. *)
LEMMA NothingHeld ==
  ASSUME NEW p, NEW bids, \A k \in Keys : bids[k] = None
  PROVE  WindowHold(p, bids) = 0 /\ LadderHold(p, bids) = 0 /\ FillsOwed(p, bids) = 0
<1>1. \A k \in Keys : /\ WindowPart(p, bids)[k] = 0 /\ LadderPart(p, bids)[k] = 0
                      /\ FillPart(p, bids)[k] = 0
  BY DEF WindowPart, LadderPart, FillPart, Part
<1> QED BY <1>1, HoldsAreSums, KeysAssumption, SumZero

(* Payable amounts are never negative, nor are their sums. *)
LEMMA PayableProduct ==
  ASSUME NEW price \in Int, NEW qty \in Nat, Payable(price, qty)
  PROVE  price * qty \in 0..I64Max /\ ~Overflows(price, qty)
<1>1. price * qty \in Int /\ 0 <= price * qty /\ price * qty <= I64Max
  <2>1. price \in Nat
    BY DEF Payable
  <2>2. price * qty \in Nat
    BY <2>1
  <2> QED BY <2>2 DEF Payable
<1>2. I64Max \in Nat
  BY WidthsAssumption
<1> QED BY <1>1, <1>2 DEF Payable, Overflows, I64

LEMMA HoldsArePositive ==
  ASSUME NEW s, Kept(s), Fits(s), RestsAboveZero(s), NEW p
  PROVE  /\ WindowHold(p, WindowBids(s)) \in Nat
         /\ LadderHold(p, s.resting) \in Nat
         /\ FillsOwed(p, s.fills) \in Nat
<1>1. /\ s.resting \in [Keys -> RestingBid \cup {None}] /\ s.fills \in [Keys -> Fill \cup {None}]
      /\ WindowBids(s) \in [Keys -> PendingBid \cup {None}]
  <2>1. s \in AuctionState
    BY DEF Kept
  <2>2. WindowBids(s) \in [Keys -> PendingBid \cup {None}]
    BY <2>1, NothingWaits DEF AuctionState, WindowBids, OpenWindow
  <2> QED BY <2>1, <2>2 DEF AuctionState
<1>2. I64Max \in Nat
  BY WidthsAssumption
<1>3. \A k \in Keys : LadderPart(p, s.resting)[k] \in Nat
  <2> TAKE k \in Keys
  <2>1. CASE s.resting[k] = None
    BY <2>1 DEF LadderPart, Part
  <2>2. CASE s.resting[k] # None
    <3>1. s.resting[k].limit \in Int /\ s.resting[k].qty \in Nat
      BY <1>1, <2>2 DEF RestingBid
    <3>2. s.resting[k].limit \in Nat
      BY <2>2, <3>1 DEF RestsAboveZero
    <3>3. s.resting[k].limit * s.resting[k].qty \in Nat
      BY <3>1, <3>2
    <3> QED BY <2>2, <3>3 DEF LadderPart, Part
  <2> QED BY <2>1, <2>2
<1>4. \A k \in Keys : WindowPart(p, WindowBids(s))[k] \in Nat
  <2> TAKE k \in Keys
  <2> DEFINE b == WindowBids(s)[k]
  <2>1. CASE b = None
    BY <2>1 DEF WindowPart, Part
  <2>2. CASE b # None
    <3>1. b.reserve_price \in Int /\ b.qty \in Nat
      BY <1>1, <2>2 DEF PendingBid
    <3>2. b.reserve_price * b.qty \in Nat
      BY <1>2, <2>2, <3>1, PayableProduct DEF Fits
    <3> QED BY <2>2, <3>2 DEF WindowPart, Part
  <2> QED BY <2>1, <2>2
<1>5. \A k \in Keys : FillPart(p, s.fills)[k] \in Nat
  <2> TAKE k \in Keys
  <2>1. CASE s.fills[k] = None
    BY <2>1 DEF FillPart, Part
  <2>2. CASE s.fills[k] # None
    <3>1. s.fills[k].price \in Int /\ s.fills[k].qty \in Nat
      BY <1>1, <2>2 DEF Fill
    <3>2. s.fills[k].price * s.fills[k].qty \in Nat
      BY <1>2, <2>2, <3>1, PayableProduct DEF Fits
    <3> QED BY <2>2, <3>2 DEF FillPart, Part
  <2> QED BY <2>1, <2>2
<1> QED BY <1>3, <1>4, <1>5, KeysAssumption, SumNat, HoldsAreSums

-----------------------------------------------------------------------------
(***************************************************************************)
(* What a part of a command may do to the state, so that the parts of one  *)
(* command compose: time and supply go one way, the end is final, answers  *)
(* stand, and exposure grows only within the ceiling.                      *)
(***************************************************************************)
AnswersKept(s, t) ==
  \A k \in Keys : AnswerStands(s.outcomes[k], t.outcomes[k])

Onward(s, t) ==
  /\ s.now <= t.now /\ t.supply_remaining <= s.supply_remaining
  /\ s.status # "Pending" => t.status # "Pending"
  /\ IsTerminal(s) =>
       /\ t.status = s.status /\ t.fills = s.fills /\ t.committed = s.committed
       /\ t.clearing_price = s.clearing_price

(* A bid of p that rests below zero in s is gone in t. *)
Ends(s, t, p) ==
  \E k \in Keys :
    /\ s.resting[k] # None /\ s.resting[k].participant = p /\ s.resting[k].limit < 0
    /\ t.resting[k] = None

WithinLimit(s, t) ==
  FloorNotNegative =>
    \A p \in Participants :
      \/ t.committed[p] <= s.committed[p] \/ t.committed[p] <= t.limit[p]
      \/ t.committed[p] <= 0 \/ Ends(s, t, p)

(* A key that has an answer rests no more, or as it did. *)
RestsAsBefore(s, t) ==
  \A k \in Keys : s.outcomes[k] # NoOutcome => t.resting[k] \in {None, s.resting[k]}

Advances(s, t) ==
  Onward(s, t) /\ AnswersKept(s, t) /\ WithinLimit(s, t) /\ RestsAsBefore(s, t)

(* The end of a window and clearing only return collateral, and put no     *)
(* bid on the ladder.                                                      *)
Shrinks(s, t) == \A k \in Keys : t.resting[k] \in {None, s.resting[k]}

Releases(s, t) ==
  /\ Shrinks(s, t)
  /\ FloorNotNegative =>
       \A p \in Participants :
         t.committed[p] <= s.committed[p] \/ t.committed[p] <= 0 \/ Ends(s, t, p)

(* The kinds of outcome, and what each one binds the next one to. *)
LEMMA OutcomeCases ==
  ASSUME NEW o \in Outcomes
  PROVE  /\ o.kind \in {"Unknown", "Cancelled", "Queued", "Resting", "Filled",
                        "FilledThenCancelled", "Rejected"}
         /\ o.kind = "Unknown" => o = NoOutcome
         /\ o.kind \in {"Queued", "Resting"} => o \in [kind : {"Queued", "Resting"}, qty : Nat]
         /\ o.kind = "Rejected" => o \in [kind : {"Rejected"}, reason : Reasons]
         /\ HasFill(o) => o.qty \in Nat /\ o.price \in Int
BY DEF Outcomes, NoOutcome, Withdrawn, HasFill

LEMMA StandsByKind ==
  ASSUME NEW o \in Outcomes, NEW next
  PROVE  AnswerStands(o, next) <=>
           /\ o.kind \in {"Rejected", "Cancelled"} => next = o
           /\ HasFill(o) => HasFill(next) /\ next.qty = o.qty /\ next.price <= o.price
           /\ o.kind \in {"Queued", "Resting"} =>
                \/ next = o
                \/ next.kind = "Filled" /\ next.qty \in 1..o.qty
                \/ next.kind = "Rejected" /\ next.reason \in {"SupplyExhausted", "NotLive", "Unfilled"}
                \/ next.kind = "Cancelled" /\ o.kind = "Resting"
<1>1. o.kind \in {"Unknown", "Cancelled", "Queued", "Resting", "Filled",
                  "FilledThenCancelled", "Rejected"}
  BY OutcomeCases
<1>2. CASE o.kind = "Unknown"
  BY <1>2 DEF AnswerStands, HasFill
<1>3. CASE o.kind \in {"Rejected", "Cancelled"}
  BY <1>3 DEF AnswerStands, HasFill
<1>4. CASE o.kind \in {"Filled", "FilledThenCancelled"}
  BY <1>4 DEF AnswerStands, HasFill
<1>5. CASE o.kind \in {"Queued", "Resting"}
  BY <1>5 DEF AnswerStands, HasFill
<1> QED BY <1>1, <1>2, <1>3, <1>4, <1>5

(* An answer that does not change stands. *)
LEMMA SameAnswerStands ==
  ASSUME NEW o \in Outcomes
  PROVE  AnswerStands(o, o)
BY StandsByKind, OutcomeCases

(* Answers stand over two parts of a command. *)
LEMMA AnswersCompose ==
  ASSUME NEW o \in Outcomes, NEW next \in Outcomes, NEW last \in Outcomes,
         AnswerStands(o, next), AnswerStands(next, last), last.kind # "FilledThenCancelled"
  PROVE  AnswerStands(o, last)
<1>1. /\ o.kind \in {"Rejected", "Cancelled"} => last = o
      /\ HasFill(o) => HasFill(last) /\ last.qty = o.qty /\ last.price <= o.price
  BY StandsByKind, OutcomeCases DEF HasFill
<1>2. o.kind \in {"Queued", "Resting"} =>
        \/ last = o
        \/ last.kind = "Filled" /\ last.qty \in 1..o.qty
        \/ last.kind = "Rejected" /\ last.reason \in {"SupplyExhausted", "NotLive", "Unfilled"}
        \/ last.kind = "Cancelled" /\ o.kind = "Resting"
  BY StandsByKind, OutcomeCases DEF HasFill
<1> QED BY <1>1, <1>2, StandsByKind

(* A key with an answer never becomes unknown again. *)
LEMMA StaysKnown ==
  ASSUME NEW o \in Outcomes, NEW next, AnswerStands(o, next), o # NoOutcome
  PROVE  next # NoOutcome
BY StandsByKind, OutcomeCases DEF HasFill, NoOutcome

(* Who rests has an answer. *)
LEMMA RestingIsKnown ==
  ASSUME NEW s, Truthful(s), NEW k \in Keys, s.resting[k] # None
  PROVE  s.outcomes[k] # NoOutcome
<1>1. s.outcomes[k] = Resting(s.resting[k].qty)
  BY DEF Truthful, Told
<1>2. s.outcomes[k].kind = "Resting" /\ NoOutcome.kind = "Unknown"
  BY <1>1 DEF Resting, NoOutcome
<1> QED BY <1>2

(* Two parts of which the first puts no bid on the ladder end what either  *)
(* of them ends.                                                           *)
LEMMA EndsCompose ==
  ASSUME NEW s \in AuctionState, NEW t \in AuctionState, NEW u, NEW p,
         Truthful(s), Shrinks(s, t), AnswersKept(s, t), RestsAsBefore(t, u),
         Ends(s, t, p) \/ Ends(t, u, p)
  PROVE  Ends(s, u, p)
<1>1. CASE Ends(s, t, p)
  <2>1. PICK k \in Keys :
          /\ s.resting[k] # None /\ s.resting[k].participant = p /\ s.resting[k].limit < 0
          /\ t.resting[k] = None
    BY <1>1 DEF Ends
  <2>2. s.outcomes[k] # NoOutcome /\ s.outcomes[k] \in Outcomes
    BY <2>1, RestingIsKnown DEF AuctionState
  <2>3. t.outcomes[k] # NoOutcome
    BY <2>2, StaysKnown DEF AnswersKept
  <2>4. u.resting[k] = None
    BY <2>1, <2>3 DEF RestsAsBefore
  <2> QED BY <2>1, <2>4 DEF Ends
<1>2. CASE Ends(t, u, p)
  BY <1>2 DEF Ends, Shrinks
<1> QED BY <1>1, <1>2

LEMMA AdvancesCompose ==
  ASSUME NEW s \in AuctionState, NEW t \in AuctionState, NEW u \in AuctionState,
         Truthful(s), Advances(s, t), Advances(t, u), Truthful(u), Shrinks(s, t),
         u.limit = t.limit \/ Releases(s, t)
  PROVE  Advances(s, u)
<1>1. /\ s.now \in Int /\ t.now \in Int /\ u.now \in Int
      /\ s.supply_remaining \in Int /\ t.supply_remaining \in Int /\ u.supply_remaining \in Int
      /\ s.committed \in [Participants -> Int] /\ t.committed \in [Participants -> Int]
      /\ u.committed \in [Participants -> Int] /\ t.limit \in [Participants -> Int]
      /\ s.outcomes \in [Keys -> Outcomes] /\ t.outcomes \in [Keys -> Outcomes]
      /\ u.outcomes \in [Keys -> Outcomes]
  BY WidthsAssumption DEF AuctionState, U64
<1>2. Onward(s, u)
  BY <1>1 DEF Advances, Onward, IsTerminal
<1>3. AnswersKept(s, u)
  <2> SUFFICES ASSUME NEW k \in Keys PROVE AnswerStands(s.outcomes[k], u.outcomes[k])
    BY DEF AnswersKept
  <2>1. u.outcomes[k].kind # "FilledThenCancelled"
    BY DEF Truthful, Told
  <2>2. AnswerStands(s.outcomes[k], t.outcomes[k]) /\ AnswerStands(t.outcomes[k], u.outcomes[k])
    BY DEF Advances, AnswersKept
  <2> QED BY <1>1, <2>1, <2>2, AnswersCompose
<1>4. WithinLimit(s, u)
  <2> SUFFICES ASSUME FloorNotNegative, NEW p \in Participants
               PROVE  \/ u.committed[p] <= s.committed[p] \/ u.committed[p] <= u.limit[p]
                      \/ u.committed[p] <= 0 \/ Ends(s, u, p)
    BY DEF WithinLimit
  <2>1. Ends(s, t, p) \/ Ends(t, u, p) => Ends(s, u, p)
    BY EndsCompose DEF Advances
  <2>2. /\ \/ t.committed[p] <= s.committed[p] \/ t.committed[p] <= t.limit[p]
           \/ t.committed[p] <= 0 \/ Ends(s, t, p)
        /\ \/ u.committed[p] <= t.committed[p] \/ u.committed[p] <= u.limit[p]
           \/ u.committed[p] <= 0 \/ Ends(t, u, p)
        /\ \/ u.limit = t.limit \/ t.committed[p] <= s.committed[p]
           \/ t.committed[p] <= 0 \/ Ends(s, t, p)
    BY DEF Advances, WithinLimit, Releases
  <2>3. /\ s.committed[p] \in Int /\ t.committed[p] \in Int /\ u.committed[p] \in Int
        /\ t.limit[p] \in Int
    BY <1>1
  <2> QED BY <2>1, <2>2, <2>3
<1>5. RestsAsBefore(s, u)
  <2> SUFFICES ASSUME NEW k \in Keys, s.outcomes[k] # NoOutcome
               PROVE  u.resting[k] \in {None, s.resting[k]}
    BY DEF RestsAsBefore
  <2>1. t.outcomes[k] # NoOutcome
    BY <1>1, StaysKnown DEF Advances, AnswersKept
  <2> QED BY <2>1 DEF Advances, RestsAsBefore
<1> QED BY <1>2, <1>3, <1>4, <1>5 DEF Advances

LEMMA ReleasesCompose ==
  ASSUME NEW s \in AuctionState, NEW t \in AuctionState, NEW u \in AuctionState,
         Truthful(s), AnswersKept(s, t), Releases(s, t), Releases(t, u)
  PROVE  Releases(s, u)
<1>1. /\ s.committed \in [Participants -> Int] /\ t.committed \in [Participants -> Int]
      /\ u.committed \in [Participants -> Int]
  BY DEF AuctionState
<1>2. Shrinks(s, u) /\ RestsAsBefore(t, u)
  BY DEF Releases, Shrinks, RestsAsBefore
<1>3. ASSUME FloorNotNegative, NEW p \in Participants
      PROVE  u.committed[p] <= s.committed[p] \/ u.committed[p] <= 0 \/ Ends(s, u, p)
  <2>1. Ends(s, t, p) \/ Ends(t, u, p) => Ends(s, u, p)
    BY <1>2, EndsCompose DEF Releases
  <2>2. /\ t.committed[p] <= s.committed[p] \/ t.committed[p] <= 0 \/ Ends(s, t, p)
        /\ u.committed[p] <= t.committed[p] \/ u.committed[p] <= 0 \/ Ends(t, u, p)
    BY <1>3 DEF Releases
  <2>3. s.committed[p] \in Int /\ t.committed[p] \in Int /\ u.committed[p] \in Int
    BY <1>1
  <2> QED BY <2>1, <2>2, <2>3
<1> QED BY <1>2, <1>3 DEF Releases

(* A part that only returns collateral stays within the ceilings. *)
LEMMA ReleasesWithin ==
  ASSUME NEW s, NEW t, Releases(s, t)
  PROVE  WithinLimit(s, t) /\ RestsAsBefore(s, t)
BY DEF Releases, Shrinks, WithinLimit, RestsAsBefore

(* A part that leaves all this alone. *)
LEMMA AdvancesIdle ==
  ASSUME NEW s \in AuctionState, NEW t \in AuctionState, s.now <= t.now,
         t.supply_remaining = s.supply_remaining, t.fills = s.fills,
         t.clearing_price = s.clearing_price, t.outcomes = s.outcomes,
         t.committed = s.committed, Shrinks(s, t),
         t.status = s.status \/ s.status = "Pending"
  PROVE  Advances(s, t) /\ Releases(s, t)
<1>1. /\ s.supply_remaining \in Int /\ s.committed \in [Participants -> Int]
      /\ s.outcomes \in [Keys -> Outcomes]
  BY DEF AuctionState
<1>2. AnswersKept(s, t)
  BY <1>1, SameAnswerStands DEF AnswersKept
<1>3. Releases(s, t)
  BY <1>1 DEF Releases
<1> QED BY <1>1, <1>2, <1>3, ReleasesWithin DEF Advances, Onward, IsTerminal

-----------------------------------------------------------------------------
(* Clearing. *)

(* The parts of a well-typed state. *)
LEMMA StateParts ==
  ASSUME NEW s \in AuctionState
  PROVE  /\ s.status \in Status /\ s.supply_remaining \in Nat
         /\ s.fills \in [Keys -> Fill \cup {None}] /\ s.outcomes \in [Keys -> Outcomes]
         /\ s.resting \in [Keys -> RestingBid \cup {None}] /\ s.window \in OpenWindow \cup {None}
         /\ s.committed \in [Participants -> Int] /\ s.limit \in [Participants -> Int]
         /\ s.now \in U64 /\ s.now \in Nat /\ s.admitted \in Nat
         /\ WindowBids(s) \in [Keys -> PendingBid \cup {None}]
<1>1. WindowBids(s) \in [Keys -> PendingBid \cup {None}]
  BY NothingWaits DEF AuctionState, WindowBids, OpenWindow
<1>2. s.now \in Nat
  BY WidthsAssumption DEF AuctionState, U64
<1> QED BY <1>1, <1>2 DEF AuctionState

(* A record that holds no fill gives way to whatever comes next. *)
LEMMA MergeWaiting ==
  ASSUME NEW o, ~HasFill(o), NEW fresh
  PROVE  Merge(o, fresh) = fresh
BY DEF Merge, HasFill

(* A price between the floor and what was paid stays payable. *)
LEMMA CheaperIsPayable ==
  ASSUME NEW low \in Int, NEW high \in Int, NEW few \in Nat, NEW many \in Nat,
         0 <= low, low <= high, few <= many, Payable(high, many)
  PROVE  Payable(low, few) /\ low * few <= high * many /\ low * few \in Nat
<1>1. low \in Nat /\ high \in Nat /\ I64Max \in Nat
  BY WidthsAssumption
<1>2. low * few <= high * few /\ low * few \in Nat /\ high * few \in Nat
  BY <1>1, MulMonotonic
<1>3. few * high <= many * high /\ high * many = many * high /\ high * few = few * high
  BY <1>1, MulMonotonic
<1>4. high * many \in Nat
  BY <1>1
<1>5. low * few <= high * many
  BY <1>2, <1>3, <1>4
<1> QED BY <1>1, <1>2, <1>4, <1>5 DEF Payable

LEMMA RepriceParts ==
  ASSUME NEW fills \in [Keys -> Fill \cup {None}], NEW price \in Int, NEW k \in Keys,
         fills[k] # None
  PROVE  /\ Reprice(fills, price)[k] # None
         /\ Reprice(fills, price)[k].participant = fills[k].participant
         /\ Reprice(fills, price)[k].qty = fills[k].qty
         /\ Reprice(fills, price)[k].price = price
<1>1. fills[k] \in Fill
  OBVIOUS
<1>2. Reprice(fills, price)[k] = [fills[k] EXCEPT !.price = price]
  BY DEF Reprice
<1>3. [fills[k] EXCEPT !.price = price] \in Fill /\ None \notin Fill
  BY <1>1, NoneAssumption DEF Fill
<1> QED BY <1>1, <1>2, <1>3 DEF Fill

LEMMA RepriceLowers ==
  ASSUME NEW fills \in [Keys -> Fill \cup {None}], NEW price \in Int, 0 <= price, NEW p,
         \A k \in Keys : fills[k] # None =>
           price <= fills[k].price /\ Payable(fills[k].price, fills[k].qty)
  PROVE  /\ FillsOwed(p, Reprice(fills, price)) <= FillsOwed(p, fills)
         /\ \A k \in Keys : Reprice(fills, price)[k] # None =>
              Payable(Reprice(fills, price)[k].price, Reprice(fills, price)[k].qty)
<1> DEFINE new == Reprice(fills, price)
<1>1. new \in [Keys -> Fill \cup {None}] /\ \A k \in Keys : new[k] = None <=> fills[k] = None
  BY RepriceKeeps
<1>2. \A k \in Keys : FillPart(p, new)[k] \in Int /\ FillPart(p, fills)[k] \in Int
  BY <1>1, PartsAreIntegers
<1>3. ASSUME NEW k \in Keys, fills[k] # None
      PROVE  FillPart(p, new)[k] <= FillPart(p, fills)[k] /\ Payable(new[k].price, new[k].qty)
  <2> DEFINE q == fills[k].qty
  <2>1. fills[k].price \in Int /\ q \in Nat
    BY <1>3 DEF Fill
  <2>2. /\ new[k] # None /\ new[k].participant = fills[k].participant
        /\ new[k].qty = q /\ new[k].price = price
    BY <1>3, RepriceParts
  <2>3. price * q <= fills[k].price * q /\ Payable(price, q)
    <3>1. q <= q
      BY <2>1
    <3> QED BY <1>3, <2>1, <3>1, CheaperIsPayable
  <2> HIDE DEF new, q
  <2>4. FillPart(p, new)[k] = IF fills[k].participant = p THEN price * q ELSE 0
    BY <2>2 DEF FillPart, Part
  <2>5. FillPart(p, fills)[k] = IF fills[k].participant = p THEN fills[k].price * q ELSE 0
    BY <1>3 DEF FillPart, Part, q
  <2> QED BY <2>2, <2>3, <2>4, <2>5
<1>4. \A k \in Keys : FillPart(p, new)[k] <= FillPart(p, fills)[k]
  <2> TAKE k \in Keys
  <2>1. CASE fills[k] = None
    <3>1. FillPart(p, new)[k] = 0 /\ FillPart(p, fills)[k] = 0
      BY <1>1, <2>1 DEF FillPart, Part
    <3> QED BY <3>1
  <2> QED BY <1>3, <2>1
<1>5. FillsOwed(p, new) <= FillsOwed(p, fills)
  <2> HIDE DEF new
  <2> QED BY <1>2, <1>4, KeysAssumption, SumMonotonic, HoldsAreSums
<1> QED BY <1>1, <1>3, <1>5

(* What a fall in price gives back is never negative ... *)
LEMMA FreedIsNatural ==
  ASSUME NEW fills \in [Keys -> Fill \cup {None}], NEW price \in Int, NEW p,
         \A k \in Keys : fills[k] # None => price <= fills[k].price
  PROVE  TotalFor(p, fills, Freed(fills, price)) \in Nat
<1>1. ASSUME NEW k \in Keys, fills[k] # None PROVE Freed(fills, price)[k] \in Nat
  <2> DEFINE fall == SatI64(fills[k].price - price)
  <2>1. fills[k].price \in Int /\ fills[k].qty \in Nat /\ price <= fills[k].price
    BY <1>1 DEF Fill
  <2>2. fall \in Nat
    BY <2>1, WidthsAssumption DEF SatI64, AtMost
  <2>3. Freed(fills, price)[k] = ReleaseAmount(fall, fills[k].qty)
    BY <1>1 DEF Freed
  <2> HIDE DEF fall
  <2>4. fall * fills[k].qty \in Nat
    BY <2>1, <2>2
  <2> QED BY <2>3, <2>4 DEF ReleaseAmount
<1> QED BY <1>1, TotalIsNatural

(* ... and, above zero, is the difference of what is owed. *)
LEMMA FreedIsExact ==
  ASSUME NEW fills \in [Keys -> Fill \cup {None}], NEW price \in Int, 0 <= price, NEW p,
         \A k \in Keys : fills[k] # None =>
           price <= fills[k].price /\ Payable(fills[k].price, fills[k].qty)
  PROVE  TotalFor(p, fills, Freed(fills, price))
           = FillsOwed(p, fills) - FillsOwed(p, Reprice(fills, price))
<1> DEFINE new == Reprice(fills, price)
           f == [k \in Keys |-> IF fills[k] = None THEN 0
                  ELSE IF fills[k].participant = p THEN Freed(fills, price)[k] ELSE 0]
<1>1. new \in [Keys -> Fill \cup {None}] /\ \A k \in Keys : new[k] = None <=> fills[k] = None
  BY RepriceKeeps
<1>2. \A k \in Keys : FillPart(p, new)[k] \in Int /\ FillPart(p, fills)[k] \in Int
  BY <1>1, PartsAreIntegers
<1>3. ASSUME NEW k \in Keys PROVE FillPart(p, fills)[k] = FillPart(p, new)[k] + f[k] /\ f[k] \in Int
  <2>1. CASE fills[k] = None
    <3>1. FillPart(p, new)[k] = 0 /\ FillPart(p, fills)[k] = 0 /\ f[k] = 0
      BY <1>1, <2>1 DEF FillPart, Part
    <3> QED BY <3>1
  <2>2. CASE fills[k] # None
    <3> DEFINE q == fills[k].qty
               high == fills[k].price
               fall == SatI64(high - price)
    <3>1. high \in Nat /\ q \in Nat /\ price \in Nat /\ price <= high /\ Payable(high, q)
      BY <2>2 DEF Fill, Payable
    <3>2. /\ new[k] # None /\ new[k].participant = fills[k].participant
          /\ new[k].qty = q /\ new[k].price = price
      BY <2>2, RepriceParts
    <3>3. Freed(fills, price)[k] = ReleaseAmount(fall, q)
      BY <2>2 DEF Freed
    <3>4. FillPart(p, new)[k] = IF fills[k].participant = p THEN price * q ELSE 0
      <4> HIDE DEF new, q
      <4> QED BY <3>2 DEF FillPart, Part
    <3>5. FillPart(p, fills)[k] = IF fills[k].participant = p THEN high * q ELSE 0
      BY <2>2 DEF FillPart, Part
    <3>6. f[k] = IF fills[k].participant = p THEN ReleaseAmount(fall, q) ELSE 0
      BY <2>2, <3>3
    <3> HIDE DEF f, q, high, new
    <3>7. fall * q = (high - price) * q /\ Payable(fall, q) /\ fall \in Int
      <4>1. 0 <= high - price /\ high - price <= high /\ high - price \in Int /\ q <= q
        BY <3>1
      <4>2. Payable(high - price, q)
        BY <3>1, <4>1, CheaperIsPayable
      <4>3. CASE q = 0
        <5>1. fall \in Nat
          BY <4>1, WidthsAssumption DEF SatI64, AtMost
        <5> HIDE DEF fall
        <5>2. fall * q = 0 /\ (high - price) * q = 0
          BY <4>1, <4>3, <5>1
        <5> QED BY <4>3, <5>1, <5>2, WidthsAssumption DEF Payable
      <4>4. CASE q # 0
        <5>1. high <= high * q
          BY <3>1, <4>4
        <5>2. high - price \in I64
          BY <3>1, <4>1, <5>1, WidthsAssumption DEF I64, Payable
        <5>3. fall = high - price
          BY <4>1, <5>2, Saturation
        <5> HIDE DEF fall
        <5> QED BY <4>1, <4>2, <5>3
      <4> QED BY <4>3, <4>4
    <3> HIDE DEF fall
    <3>8. ReleaseAmount(fall, q) = (high - price) * q
      BY <3>1, <3>7, PayableProduct DEF ReleaseAmount
    <3>9. (high - price) * q = high * q - price * q /\ high * q \in Int /\ price * q \in Int
      BY <3>1
    <3>10. CASE fills[k].participant = p
      BY <3>4, <3>5, <3>6, <3>8, <3>9, <3>10
    <3>11. CASE fills[k].participant # p
      BY <3>4, <3>5, <3>6, <3>11
    <3> QED BY <3>10, <3>11
  <2> QED BY <2>1, <2>2
<1>4. TotalFor(p, fills, Freed(fills, price)) = SumFunctionOnSet(f, Keys)
  BY DEF TotalFor
<1> HIDE DEF f, new
<1>5. SumFunctionOnSet(FillPart(p, fills), Keys)
        = SumFunctionOnSet(FillPart(p, new), Keys) + SumFunctionOnSet(f, Keys)
  BY <1>2, <1>3, KeysAssumption, SumAdd
<1>6. /\ SumFunctionOnSet(FillPart(p, new), Keys) \in Int /\ SumFunctionOnSet(f, Keys) \in Int
  BY <1>2, <1>3, KeysAssumption, SumInt
<1>7. /\ FillsOwed(p, fills) = SumFunctionOnSet(FillPart(p, fills), Keys)
      /\ FillsOwed(p, new) = SumFunctionOnSet(FillPart(p, new), Keys)
  BY HoldsAreSums
<1> QED BY <1>4, <1>5, <1>6, <1>7 DEF new

(* What clearing answers each key with. *)
LEMMA ClearAnswers ==
  ASSUME NEW s, Kept(s), Truthful(s), s.window = None, NEW price \in Int, NEW k \in Keys
  PROVE  LET o == Clear(s, price).outcomes[k]
         IN  /\ s.fills[k] # None => /\ s.resting[k] = None
                                     /\ s.outcomes[k] = Filled(s.fills[k].qty, s.fills[k].price)
                                     /\ o = Filled(s.fills[k].qty, price)
             /\ s.resting[k] # None => /\ s.fills[k] = None
                                       /\ s.outcomes[k] = Resting(s.resting[k].qty)
                                       /\ o = Rejected("Unfilled")
             /\ s.fills[k] = None /\ s.resting[k] = None =>
                  o = s.outcomes[k] /\ o.kind \in {"Unknown", "Cancelled", "Rejected"}
<1> DEFINE quoted == Requote(s.outcomes, s.fills, price)
           prior == s.outcomes[k]
           o == RejectAll(quoted, s.resting, "Unfilled")[k]
<1>1. s \in AuctionState /\ prior \in Outcomes
  BY StateParts DEF Kept
<1>2. Clear(s, price).outcomes[k] = o
  BY <1>1 DEF Clear, AuctionState
<1>3. Told(prior, None, s.resting[k], s.fills[k])
  BY NothingWaits DEF Truthful, WindowBids
<1>4. quoted[k] = IF s.fills[k] # None /\ HasFill(prior)
                  THEN [prior EXCEPT !.price = price] ELSE prior
  BY DEF Requote
<1>5. o = IF s.resting[k] = None THEN quoted[k] ELSE Merge(quoted[k], Rejected("Unfilled"))
  BY DEF RejectAll
<1> HIDE DEF quoted, o
<1>6. CASE s.fills[k] # None
  <2>1. prior = Filled(s.fills[k].qty, s.fills[k].price)
    BY <1>3, <1>6 DEF Told
  <2>2. s.resting[k] = None
    BY <1>3, <2>1 DEF Told, Filled, Resting
  <2>3. o = [prior EXCEPT !.price = price]
    BY <1>4, <1>5, <1>6, <2>1, <2>2 DEF HasFill, Filled
  <2>4. o = Filled(s.fills[k].qty, price)
    BY <2>1, <2>3 DEF Filled
  <2> HIDE DEF prior
  <2> QED BY <1>2, <1>6, <2>1, <2>2, <2>4 DEF prior
<1>7. CASE s.fills[k] = None
  <2>1. prior.kind # "Filled" /\ prior.kind # "FilledThenCancelled"
    BY <1>3, <1>7 DEF Told
  <2>2. quoted[k] = prior
    BY <1>4, <1>7
  <2>3. CASE s.resting[k] # None
    <3>1. prior = Resting(s.resting[k].qty)
      BY <1>3, <2>3 DEF Told
    <3>2. o = Rejected("Unfilled")
      BY <1>5, <2>1, <2>2, <2>3, MergeWaiting DEF HasFill
    <3> QED BY <1>2, <1>7, <2>3, <3>1, <3>2
  <2>4. CASE s.resting[k] = None
    <3>1. o = prior
      BY <1>5, <2>2, <2>4
    <3>2. prior.kind \in {"Unknown", "Cancelled", "Rejected"}
      BY <1>1, <1>3, <2>1, <2>4, OutcomeCases DEF Told
    <3> QED BY <1>2, <1>7, <2>4, <3>1, <3>2
  <2> QED BY <2>3, <2>4
<1> QED BY <1>6, <1>7

(***************************************************************************)
(* Clearing at a price that the clock has produced and that is no higher   *)
(* than what anybody was charged.                                          *)
(***************************************************************************)
LEMMA ClearSound ==
  ASSUME NEW s, Solid(s), s.window = None, s.status = "Live",
         NEW price \in Int, Schedule.floor_price <= price, Produced(s, price),
         s.supply_remaining > 0 => price = Schedule.floor_price,
         \A k \in Keys : s.fills[k] # None => price <= s.fills[k].price
  PROVE  /\ Sound(Clear(s, price)) /\ Clear(s, price).window = None
         /\ Clear(s, price).now = s.now /\ Clear(s, price).limit = s.limit
         /\ Advances(s, Clear(s, price)) /\ Releases(s, Clear(s, price))
<1> DEFINE t == Clear(s, price)
           fills == Reprice(s.fills, price)
           outcomes == RejectAll(Requote(s.outcomes, s.fills, price), s.resting, "Unfilled")
           committed == [p \in Participants |->
              Returned(SatI64(s.committed[p] - TotalFor(p, s.fills, Freed(s.fills, price))),
                       p, s.resting, LimitPrices(s.resting))]
<1>1. /\ s \in AuctionState /\ Kept(s) /\ Truthful(s) /\ Bounded(s) /\ Fitting(s)
      /\ Ledger(s) /\ ExhaustionTrue(s)
  BY DEF Solid, Kept
<1>2. /\ s.fills \in [Keys -> Fill \cup {None}] /\ s.outcomes \in [Keys -> Outcomes]
      /\ s.resting \in [Keys -> RestingBid \cup {None}] /\ s.committed \in [Participants -> Int]
      /\ s.now \in Nat /\ s.supply_remaining \in Nat /\ s.limit \in [Participants -> Int]
  BY <1>1, StateParts
<1>3. /\ t.status = "Cleared" /\ t.clearing_price = price /\ t.fills = fills
      /\ t.outcomes = outcomes /\ t.resting = Nothing /\ t.window = None
      /\ t.supply_remaining = s.supply_remaining /\ t.now = s.now /\ t.limit = s.limit
      /\ t.committed = committed
  <2> HIDE DEF fills, outcomes, committed
  <2>1. t = [s EXCEPT !.status = "Cleared", !.clearing_price = price, !.fills = fills,
                      !.outcomes = outcomes, !.resting = Nothing, !.committed = committed]
    BY DEF Clear, fills, outcomes, committed
  <2> QED BY <1>1, <2>1 DEF AuctionState
<1>4. Kept(t) /\ t \in AuctionState
  BY <1>1, ClearKept DEF Kept
<1>5. WindowBids(t) = Nothing /\ WindowBids(s) = Nothing
  BY <1>3 DEF WindowBids
<1>6. /\ fills \in [Keys -> Fill \cup {None}]
      /\ \A k \in Keys : /\ fills[k] = None <=> s.fills[k] = None
                         /\ fills[k] # None => fills[k].qty = s.fills[k].qty /\ fills[k].price = price
  BY <1>2, RepriceKeeps, RepriceParts
<1>7. FloorNotNegative => 0 <= price
  BY AuctionAssumption DEF IsSchedule, I64, FloorNotNegative
<1>8. ASSUME FloorNotNegative
      PROVE  /\ \A k \in Keys : s.fills[k] # None =>
                  price <= s.fills[k].price /\ Payable(s.fills[k].price, s.fills[k].qty)
             /\ \A p : FillsOwed(p, fills) <= FillsOwed(p, s.fills)
             /\ \A k \in Keys : fills[k] # None => Payable(fills[k].price, fills[k].qty)
  <2>1. \A k \in Keys : s.fills[k] # None =>
          price <= s.fills[k].price /\ Payable(s.fills[k].price, s.fills[k].qty)
    BY <1>1, <1>8 DEF Fitting, Fits
  <2> QED BY <1>2, <1>7, <1>8, <2>1, RepriceLowers
<1>9. ASSUME NEW p \in Participants
      PROVE  /\ committed[p] \in I64
             /\ PricesNotNegative => committed[p] = FillsOwed(p, fills) /\ committed[p] \in Int
             /\ committed[p] <= s.committed[p] \/ Ends(s, t, p)
  <2> DEFINE freed == TotalFor(p, s.fills, Freed(s.fills, price))
             b == SatI64(s.committed[p] - freed)
             unit == LimitPrices(s.resting)
  <2>1. s.committed[p] \in I64 /\ s.committed[p] \in Int /\ I64Max \in Nat
    BY <1>1, <1>2, WidthsAssumption DEF Bounded
  <2>2. freed \in Nat
    BY <1>2, FreedIsNatural
  <2>3. committed[p] = Returned(b, p, s.resting, unit)
    OBVIOUS
  <2>4. \A k \in Keys : Cost(s.resting, unit)[k] \in Int
    BY <1>2, CostsAreIntegers
  <2> HIDE DEF freed, unit, committed
  <2>5. b \in I64 /\ b \in Int /\ b <= s.committed[p]
    BY <2>1, <2>2, LowerSaturates, Saturation
  <2> HIDE DEF b
  <2>6. committed[p] \in Int /\ committed[p] \in I64
    BY <2>3, <2>4, <2>5, ReturnedIsInteger
  <2>7. committed[p] <= s.committed[p] \/ Ends(s, t, p)
    <3>1. CASE \E k \in Keys : s.resting[k] # None /\ s.resting[k].participant = p
                                 /\ s.resting[k].limit < 0
      BY <1>3, <3>1, NothingWaits DEF Ends
    <3>2. CASE ~\E k \in Keys : s.resting[k] # None /\ s.resting[k].participant = p
                                  /\ s.resting[k].limit < 0
      <4>1. \A k \in Keys : s.resting[k] # None /\ s.resting[k].participant = p
                              => 0 <= Cost(s.resting, unit)[k]
        <5> SUFFICES ASSUME NEW k \in Keys, s.resting[k] # None, s.resting[k].participant = p
                     PROVE  0 <= Cost(s.resting, unit)[k]
          OBVIOUS
        <5>1. s.resting[k].limit \in Int
          BY <1>2 DEF RestingBid
        <5>2. 0 <= s.resting[k].limit
          BY <3>2, <5>1
        <5>3. Cost(s.resting, unit)[k] \in Nat
          BY <1>2, <5>2, CostsAreNatural DEF unit
        <5> QED BY <5>3
      <4>2. committed[p] <= b
        BY <2>3, <2>4, <2>5, <4>1, ReturnedIsInteger
      <4> QED BY <2>1, <2>5, <2>6, <4>2
    <3> QED BY <3>1, <3>2
  <2>8. ASSUME PricesNotNegative PROVE committed[p] = FillsOwed(p, fills)
    <3>0. FloorNotNegative /\ 0 <= price
      BY <1>7, <2>8 DEF PricesNotNegative
    <3>1. Balanced(s) /\ RestsAboveZero(s) /\ Fits(s)
      BY <1>1, <2>8, <3>0 DEF Ledger, Fitting
    <3>2. s.committed[p] = WindowHold(p, Nothing) + LadderHold(p, s.resting) + FillsOwed(p, s.fills)
      BY <1>5, <3>1 DEF Balanced
    <3>3. WindowHold(p, Nothing) = 0
      BY NothingHeld, NothingWaits
    <3>4. LadderHold(p, s.resting) \in Nat /\ FillsOwed(p, s.fills) \in Nat
      BY <1>1, <3>1, HoldsArePositive
    <3>5. FillsOwed(p, fills) \in Nat /\ FillsOwed(p, fills) <= FillsOwed(p, s.fills)
      <4>1. \A k \in Keys : FillPart(p, fills)[k] \in Nat
        <5> TAKE k \in Keys
        <5>1. CASE fills[k] # None
          <6>1. fills[k].price \in Int /\ fills[k].qty \in Nat
            BY <1>6, <5>1 DEF Fill
          <6>2. fills[k].price * fills[k].qty \in 0..I64Max
            BY <1>8, <3>0, <5>1, <6>1, PayableProduct
          <6>3. fills[k].price * fills[k].qty \in Nat
            BY <6>2
          <6> HIDE DEF fills
          <6> QED BY <5>1, <6>3 DEF FillPart, Part
        <5>2. CASE fills[k] = None
          BY <5>2 DEF FillPart, Part
        <5> QED BY <5>1, <5>2
      <4>2. FillsOwed(p, fills) <= FillsOwed(p, s.fills)
        BY <1>8, <3>0
      <4> HIDE DEF fills
      <4> QED BY <4>1, <4>2, KeysAssumption, SumNat, HoldsAreSums
    <3>6. freed = FillsOwed(p, s.fills) - FillsOwed(p, fills)
      BY <1>2, <1>8, <3>0, FreedIsExact DEF freed
    <3> HIDE DEF fills
    <3>7. s.committed[p] - freed = LadderHold(p, s.resting) + FillsOwed(p, fills)
      BY <3>2, <3>3, <3>4, <3>5, <3>6
    <3>8. s.committed[p] <= I64Max
      BY <2>1 DEF I64
    <3>9. s.committed[p] - freed \in I64 /\ s.committed[p] - freed \in Int
      BY <2>1, <2>2, <3>4, <3>5, <3>7, <3>8 DEF I64
    <3>10. b = LadderHold(p, s.resting) + FillsOwed(p, fills)
      BY <3>7, <3>9, Saturation DEF b
    <3>11. /\ \A k \in Keys : Cost(s.resting, unit)[k] \in Nat
           /\ TotalFor(p, s.resting, Cost(s.resting, unit)) = LadderHold(p, s.resting)
      BY <1>2, <3>1, CostsAreNatural DEF unit, RestsAboveZero, LadderHold
    <3>12. b <= I64Max /\ LadderHold(p, s.resting) <= b
      BY <2>1, <2>5, <3>4, <3>5, <3>10 DEF I64
    <3>13. committed[p] = b - LadderHold(p, s.resting)
      BY <2>3, <2>5, <3>11, <3>12, ReturnedIsExact
    <3> QED BY <3>4, <3>5, <3>10, <3>13
  <2> QED BY <2>6, <2>7, <2>8
<1>10. ASSUME NEW k \in Keys
       PROVE  /\ Told(outcomes[k], None, None, fills[k])
              /\ AnswerStands(s.outcomes[k], outcomes[k])
              /\ outcomes[k] = Rejected("SupplyExhausted") => s.outcomes[k] = outcomes[k]
  <2>1. outcomes[k] = Clear(s, price).outcomes[k]
    BY <1>3
  <2> HIDE DEF outcomes, fills
  <2>2. CASE s.fills[k] # None
    <3>1. /\ s.outcomes[k] = Filled(s.fills[k].qty, s.fills[k].price)
          /\ outcomes[k] = Filled(s.fills[k].qty, price)
      BY <1>1, <2>1, <2>2, ClearAnswers
    <3>2. fills[k] # None /\ fills[k].qty = s.fills[k].qty /\ fills[k].price = price
      BY <1>6, <2>2
    <3>3. Told(outcomes[k], None, None, fills[k])
      BY <3>1, <3>2 DEF Told, Filled
    <3>4. AnswerStands(s.outcomes[k], outcomes[k])
      <4>1. price <= s.fills[k].price /\ s.outcomes[k] \in Outcomes
        BY <1>2, <2>2
      <4> QED BY <3>1, <4>1, StandsByKind DEF Filled, HasFill
    <3> QED BY <3>1, <3>3, <3>4 DEF Filled, Rejected
  <2>3. CASE s.resting[k] # None
    <3>1. /\ s.fills[k] = None /\ s.outcomes[k] = Resting(s.resting[k].qty)
          /\ outcomes[k] = Rejected("Unfilled") /\ s.outcomes[k] \in Outcomes
      BY <1>1, <1>2, <2>1, <2>3, ClearAnswers
    <3>2. fills[k] = None
      BY <1>6, <3>1
    <3>3. Told(outcomes[k], None, None, fills[k])
      BY <3>1, <3>2 DEF Told, Rejected
    <3>4. AnswerStands(s.outcomes[k], outcomes[k])
      BY <3>1, StandsByKind DEF Resting, Rejected, HasFill
    <3> QED BY <3>1, <3>3, <3>4 DEF Rejected
  <2>4. CASE s.fills[k] = None /\ s.resting[k] = None
    <3>1. outcomes[k] = s.outcomes[k] /\ outcomes[k].kind \in {"Unknown", "Cancelled", "Rejected"}
      BY <1>1, <2>1, <2>4, ClearAnswers
    <3>2. fills[k] = None /\ s.outcomes[k] \in Outcomes
      BY <1>2, <1>6, <2>4
    <3>3. Told(outcomes[k], None, None, fills[k])
      BY <3>1, <3>2 DEF Told
    <3> QED BY <3>1, <3>2, <3>3, SameAnswerStands
  <2> QED BY <2>2, <2>3, <2>4
<1> HIDE DEF t, fills, outcomes, committed
<1>11. Truthful(t)
  BY <1>3, <1>5, <1>10, NothingWaits DEF Truthful
<1>12. Ledger(t)
  <2> SUFFICES ASSUME PricesNotNegative, NEW p \in Participants
               PROVE  committed[p] = WindowHold(p, Nothing) + LadderHold(p, Nothing) + FillsOwed(p, fills)
    BY <1>3, <1>5, NothingWaits DEF Ledger, Balanced, RestsAboveZero
  <2>1. WindowHold(p, Nothing) = 0 /\ LadderHold(p, Nothing) = 0
    BY NothingHeld, NothingWaits
  <2>2. committed[p] = FillsOwed(p, fills) /\ committed[p] \in Int
    BY <1>9
  <2> QED BY <2>1, <2>2
<1>13. Bounded(t) /\ Fitting(t)
  BY <1>1, <1>3, <1>5, <1>8, <1>9, NothingWaits DEF Bounded, Fitting, Fits
<1>14. FairWindow(t) /\ FillsAbove(t) /\ NobodyWaits(t) /\ SoldOutEnds(t)
  BY <1>3, NothingWaits DEF FairWindow, FillsAbove, NobodyWaits, SoldOutEnds
<1>15. ExhaustionTrue(t)
  BY <1>1, <1>3, <1>10 DEF ExhaustionTrue
<1>16. PriceSeen(t)
  BY <1>3 DEF PriceSeen, Produced
<1>17. Releases(s, t)
  BY <1>3, <1>9, NothingWaits DEF Releases, Shrinks
<1>18. Advances(s, t)
  <2>1. Onward(s, t)
    BY <1>2, <1>3 DEF Onward, IsTerminal
  <2>2. AnswersKept(s, t)
    BY <1>3, <1>10 DEF AnswersKept
  <2> QED BY <1>17, <2>1, <2>2, ReleasesWithin DEF Advances
<1>19. Sound(t)
  BY <1>4, <1>11, <1>12, <1>13, <1>14, <1>15, <1>16 DEF Sound, Solid
<1> QED BY <1>3, <1>17, <1>18, <1>19 DEF t

-----------------------------------------------------------------------------
(* The end of a window. *)

(* A bid that goes short means that the supply is gone. *)
LEMMA ShortMeansSoldOut ==
  ASSUME NEW bids, WellFormed(bids), NEW supply \in Nat, NEW k \in Keys
  PROVE  LET a == Allocate(bids, supply)
             left == Monus(supply, SumFunctionOnSet(a, Keys))
         IN  /\ \A j \in Keys : a[j] \in Nat /\ a[j] <= Asked(bids)[j]
             /\ SumFunctionOnSet(a, Keys) \in Nat /\ left \in Nat /\ left <= supply
             /\ a[k] # Asked(bids)[k] => left = 0
             /\ a[k] > 0 => supply > 0
<1> DEFINE a == Allocate(bids, supply)
           sold == SumFunctionOnSet(a, Keys)
           left == Monus(supply, sold)
           demand == Demand(bids, Present(bids))
<1>1. /\ \A j \in Keys : a[j] \in Nat /\ a[j] <= Asked(bids)[j]
      /\ sold = Sells(bids, supply)
      /\ demand <= supply => a = Asked(bids)
  BY AllocationIsExact
<1>2. demand \in Nat
  BY DemandIsAsked
<1> HIDE DEF a, demand
<1>3. sold \in Nat /\ sold <= supply /\ (~(demand <= supply) => sold = supply)
  BY <1>1, <1>2 DEF Sells, demand
<1>4. a[k] <= sold
  <2>1. IsFiniteSet(Keys \ {k})
    BY KeysAssumption, FS_Subset
  <2>2. sold = a[k] + SumFunctionOnSet(a, Keys \ {k})
    BY <1>1, KeysAssumption, SumRemove
  <2>3. SumFunctionOnSet(a, Keys \ {k}) \in Nat
    BY <1>1, <2>1, SumNat
  <2> HIDE DEF sold
  <2> QED BY <1>1, <2>2, <2>3
<1> HIDE DEF sold
<1>5. left \in Nat /\ left <= supply /\ (a[k] # Asked(bids)[k] => left = 0)
  BY <1>1, <1>3 DEF Monus
<1>6. a[k] > 0 => supply > 0
  BY <1>1, <1>3, <1>4
<1> QED BY <1>1, <1>3, <1>5, <1>6 DEF a, sold

(* What the bid of one key becomes when its window settles. *)
LEMMA SettledKey ==
  ASSUME NEW s, Kept(s), Truthful(s), s.window # None, NEW k \in Keys,
         NEW allocs, \A j \in Keys : allocs[j] \in Nat /\ allocs[j] <= Asked(s.window.bids)[j]
  PROVE  LET w == s.window
             bid == w.bids[k]
             fill == AddFills(s.fills, NewFills(w, allocs))[k]
             o == WindowOutcomes(s.outcomes, w, allocs)[k]
         IN  /\ bid = None => allocs[k] = 0 /\ fill = s.fills[k] /\ o = s.outcomes[k]
             /\ bid # None =>
                  /\ s.resting[k] = None /\ s.fills[k] = None
                  /\ s.outcomes[k].kind \in {"Queued", "Resting"} /\ s.outcomes[k].qty = bid.qty
                  /\ allocs[k] <= bid.qty
                  /\ allocs[k] = 0 => fill = None /\ o = Rejected("SupplyExhausted")
                  /\ allocs[k] # 0 =>
                       /\ o = Filled(allocs[k], w.price) /\ fill # None
                       /\ fill = NewFills(w, allocs)[k]
                       /\ fill = [participant |-> bid.participant, qty |-> allocs[k],
                                  price |-> w.price]
             /\ NewFills(w, allocs)[k] = None <=> allocs[k] = 0
<1> DEFINE w == s.window
           bid == w.bids[k]
           new == NewFills(w, allocs)
           made == [participant |-> bid.participant, qty |-> allocs[k], price |-> w.price]
           fill == AddFills(s.fills, new)[k]
           o == WindowOutcomes(s.outcomes, w, allocs)[k]
<1>1. /\ w.bids \in [Keys -> PendingBid \cup {None}] /\ WindowBids(s) = w.bids
      /\ w.price \in Int
  BY WindowWellFormed, StateParts DEF Kept, OpenWindow
<1>2. Told(s.outcomes[k], bid, s.resting[k], s.fills[k])
  BY <1>1 DEF Truthful
<1>3. new[k] = IF allocs[k] = 0 THEN None ELSE made
  BY DEF NewFills
<1>4. fill = IF new[k] = None THEN s.fills[k] ELSE IF s.fills[k] = None THEN new[k]
             ELSE [new[k] EXCEPT !.qty = @ + s.fills[k].qty]
  BY DEF AddFills
<1>5. o = IF bid = None THEN s.outcomes[k]
          ELSE Merge(s.outcomes[k], IF allocs[k] = 0 THEN Rejected("SupplyExhausted")
                                    ELSE Filled(allocs[k], w.price))
  BY DEF WindowOutcomes
<1>6. allocs[k] \in Nat /\ allocs[k] <= (IF bid = None THEN 0 ELSE bid.qty)
  BY DEF Asked
<1>7. bid # None => made # None
  <2> SUFFICES ASSUME bid # None PROVE made # None
    OBVIOUS
  <2>1. bid.participant \in Participants
    BY <1>1 DEF PendingBid
  <2>2. made \in Fill
    BY <1>1, <1>6, <2>1 DEF Fill
  <2> QED BY <2>2, NoneAssumption
<1> HIDE DEF new, fill, o, w, made
<1>8. CASE bid = None
  <2>1. allocs[k] = 0
    BY <1>6, <1>8
  <2> QED BY <1>3, <1>4, <1>5, <1>8, <2>1 DEF new, fill, o, w
<1>9. CASE bid # None
  <2>1. /\ s.resting[k] = None /\ s.outcomes[k].kind \in {"Queued", "Resting"}
        /\ s.outcomes[k].qty = bid.qty
    BY <1>2, <1>9 DEF Told
  <2>2. s.fills[k] = None
    BY <1>2, <2>1 DEF Told, Filled
  <2>3. o = IF allocs[k] = 0 THEN Rejected("SupplyExhausted") ELSE Filled(allocs[k], w.price)
    BY <1>5, <1>9, <2>1, MergeWaiting DEF HasFill
  <2>4. fill = new[k]
    BY <1>4, <2>2
  <2>5. new[k] = None <=> allocs[k] = 0
    BY <1>3, <1>7, <1>9
  <2>6. allocs[k] # 0 => fill = made /\ fill # None
    BY <1>3, <2>4, <2>5
  <2> QED BY <1>6, <1>9, <2>1, <2>2, <2>3, <2>4, <2>5, <2>6, <1>3 DEF new, fill, o, w, made
<1> QED BY <1>8, <1>9

(* The clock at an instant, and at an earlier one. *)
LEMMA ClockPrice ==
  ASSUME NEW ts \in U64
  PROVE  /\ Price(ts) \in Int /\ Schedule.floor_price <= Price(ts)
         /\ Schedule.floor_price \in Int /\ (FloorNotNegative => 0 <= Price(ts))
         /\ \A t \in 0..ts : t \in U64 /\ Price(ts) <= Price(t)
<1>1. IsSchedule(Schedule) /\ Schedule.floor_price \in Int
  BY AuctionAssumption DEF IsSchedule, I64
<1>2. Price(ts) \in Int /\ Schedule.floor_price <= Price(ts)
  BY <1>1, PriceInBounds DEF Price
<1>3. \A t \in 0..ts : t \in U64 /\ t <= ts
  BY WidthsAssumption DEF U64
<1>4. \A t \in 0..ts : Price(ts) <= Price(t)
  BY <1>1, <1>3, PriceMonotonic DEF Price
<1> QED BY <1>1, <1>2, <1>3, <1>4 DEF FloorNotNegative

(* Nothing was ever sold below the floor. *)
LEMMA FillsAboveFloor ==
  ASSUME NEW s, Solid(s), NEW k \in Keys, s.fills[k] # None
  PROVE  Schedule.floor_price \in Int /\ Schedule.floor_price <= s.fills[k].price
<1>1. s \in AuctionState /\ s.now \in U64 /\ s.fills[k].price \in Int
  BY StateParts DEF Solid, Kept, Fill
<1>2. CASE s.status # "Cleared"
  <2>1. Price(s.now) <= s.fills[k].price
    BY <1>2 DEF Solid, FillsAbove
  <2>2. Schedule.floor_price \in Int /\ Price(s.now) \in Int /\ Schedule.floor_price <= Price(s.now)
    BY <1>1, ClockPrice
  <2> QED BY <1>1, <2>1, <2>2
<1>3. CASE s.status = "Cleared"
  <2>1. s.fills[k].price = s.clearing_price
    BY <1>3 DEF Solid, Kept, Uniform
  <2>2. PICK ts \in 0..s.now : Price(ts) = s.clearing_price
    BY <1>3 DEF Solid, PriceSeen, Produced
  <2>3. ts \in U64
    BY <1>1, <2>2, ClockPrice
  <2> QED BY <2>1, <2>2, <2>3, ClockPrice
<1> QED BY <1>2, <1>3

(* The sum over the elements of a subset, as a sum over the whole set. *)
LEMMA SumOfSome ==
  ASSUME NEW S, IsFiniteSet(S), NEW T, T \subseteq S, NEW f, NEW g,
         \A x \in S : g[x] \in Int /\ g[x] = IF x \in T THEN f[x] ELSE 0
  PROVE  SumFunctionOnSet(f, T) = SumFunctionOnSet(g, S)
<1>1. IsFiniteSet(T) /\ IsFiniteSet(S \ T) /\ T \cap (S \ T) = {} /\ T \cup (S \ T) = S
  BY FS_Subset
<1>2. SumFunctionOnSet(g, S) = SumFunctionOnSet(g, T) + SumFunctionOnSet(g, S \ T)
  <2>1. \A x \in T \cup (S \ T) : g[x] \in Int
    OBVIOUS
  <2> QED BY <1>1, <2>1, SumUnion
<1>3. SumFunctionOnSet(g, S \ T) = 0
  BY <1>1, SumZero
<1>4. SumFunctionOnSet(g, T) = SumFunctionOnSet(f, T)
  BY <1>1, SumSame
<1>5. SumFunctionOnSet(g, T) \in Int
  BY <1>1, SumInt
<1> QED BY <1>2, <1>3, <1>4, <1>5

(* A window costs its bidders no more than they reserved. *)
LEMMA FillsWithinReserve ==
  ASSUME NEW s, Kept(s), Truthful(s), Fits(s), FloorNotNegative, FairWindow(s),
         s.window # None, NEW p,
         NEW allocs, \A j \in Keys : allocs[j] \in Nat /\ allocs[j] <= Asked(s.window.bids)[j]
  PROVE  LET w == s.window
             new == NewFills(w, allocs)
             all == AddFills(s.fills, new)
         IN  /\ FillsOwed(p, all) = FillsOwed(p, s.fills) + FillsOwed(p, new)
             /\ FillsOwed(p, new) <= WindowHold(p, w.bids)
             /\ FillsOwed(p, new) \in Nat
             /\ \A k \in Keys : all[k] # None => Payable(all[k].price, all[k].qty)
<1> DEFINE w == s.window
           new == NewFills(w, allocs)
           all == AddFills(s.fills, new)
<1>1. /\ w \in OpenWindow /\ w.bids \in [Keys -> PendingBid \cup {None}] /\ w.price \in Int
      /\ WindowBids(s) = w.bids /\ s.fills \in [Keys -> Fill \cup {None}]
  BY WindowWellFormed, StateParts DEF Kept, OpenWindow
<1>2. \A k \in Keys : allocs[k] \in Nat /\ (w.bids[k] = None => allocs[k] = 0)
  BY DEF Asked
<1>3. new \in [Keys -> Fill \cup {None}] /\ all \in [Keys -> Fill \cup {None}]
  BY <1>1, <1>2, AddFillsKeeps
<1>4. 0 <= w.price
  BY <1>1, AuctionAssumption DEF FairWindow, IsSchedule, I64, FloorNotNegative
<1>5. ASSUME NEW k \in Keys
      PROVE  /\ FillPart(p, all)[k] = FillPart(p, s.fills)[k] + FillPart(p, new)[k]
             /\ FillPart(p, new)[k] <= WindowPart(p, w.bids)[k]
             /\ FillPart(p, new)[k] \in Nat
             /\ all[k] # None => Payable(all[k].price, all[k].qty)
  <2> DEFINE bid == w.bids[k]
  <2>0. FillPart(p, s.fills)[k] \in Int
    BY <1>1, PartsAreIntegers
  <2>1. CASE allocs[k] = 0
    <3>1. new[k] = None /\ all[k] = s.fills[k]
      <4>1. new[k] = None
        BY <2>1 DEF NewFills
      <4> HIDE DEF new
      <4> QED BY <4>1 DEF AddFills
    <3>2. WindowPart(p, w.bids)[k] \in Nat
      <4>1. CASE bid = None
        BY <4>1 DEF WindowPart, Part
      <4>2. CASE bid # None
        <5>1. bid.reserve_price \in Int /\ bid.qty \in Nat /\ Payable(bid.reserve_price, bid.qty)
          BY <1>1, <4>2 DEF PendingBid, Fits
        <5>2. bid.reserve_price * bid.qty \in 0..I64Max
          BY <5>1, PayableProduct
        <5>3. bid.reserve_price * bid.qty \in Nat
          BY <5>2
        <5> QED BY <4>2, <5>3 DEF WindowPart, Part
      <4> QED BY <4>1, <4>2
    <3>3. s.fills[k] # None => Payable(s.fills[k].price, s.fills[k].qty)
      BY DEF Fits
    <3> HIDE DEF new, all, w
    <3>4. FillPart(p, new)[k] = 0 /\ FillPart(p, all)[k] = FillPart(p, s.fills)[k]
      BY <3>1 DEF FillPart, Part
    <3> QED BY <2>0, <3>1, <3>2, <3>3, <3>4
  <2>2. CASE allocs[k] # 0
    <3>1. bid # None
      BY <1>2, <2>2
    <3>2. /\ s.fills[k] = None /\ allocs[k] <= bid.qty /\ all[k] # None /\ all[k] = new[k]
          /\ all[k] = [participant |-> bid.participant, qty |-> allocs[k], price |-> w.price]
      BY <2>2, <3>1, SettledKey
    <3>3. /\ bid.reserve_price \in Int /\ bid.qty \in Nat /\ Payable(bid.reserve_price, bid.qty)
          /\ w.price <= bid.reserve_price
      BY <1>1, <3>1 DEF PendingBid, Fits, FairWindow, Present
    <3>4. /\ Payable(w.price, allocs[k]) /\ w.price * allocs[k] <= bid.reserve_price * bid.qty
          /\ w.price * allocs[k] \in Nat /\ bid.reserve_price * bid.qty \in Int
      <4>1. w.price \in Int /\ allocs[k] \in Nat /\ allocs[k] <= bid.qty
        BY <1>1, <1>2, <3>2
      <4>2. bid.reserve_price * bid.qty \in Int
        BY <3>3
      <4> HIDE DEF bid, w
      <4> QED BY <1>4, <3>3, <4>1, <4>2, CheaperIsPayable
    <3> HIDE DEF new, all, w
    <3>5. FillPart(p, s.fills)[k] = 0 /\ FillPart(p, all)[k] = FillPart(p, new)[k]
      BY <3>2 DEF FillPart, Part
    <3>6. FillPart(p, new)[k] = IF bid.participant = p THEN w.price * allocs[k] ELSE 0
      <4>1. /\ new[k] # None /\ new[k].participant = bid.participant
            /\ new[k].qty = allocs[k] /\ new[k].price = w.price
        BY <3>2
      <4> HIDE DEF bid
      <4> QED BY <4>1 DEF FillPart, Part
    <3>7. WindowPart(p, w.bids)[k] = IF bid.participant = p THEN bid.reserve_price * bid.qty ELSE 0
      BY <3>1 DEF WindowPart, Part
    <3> HIDE DEF bid
    <3>8. FillPart(p, new)[k] \in Nat /\ FillPart(p, new)[k] <= WindowPart(p, w.bids)[k]
      BY <3>4, <3>6, <3>7
    <3> QED BY <3>2, <3>4, <3>5, <3>8
  <2> QED BY <2>1, <2>2
<1>6. \A k \in Keys : FillPart(p, s.fills)[k] \in Int /\ WindowPart(p, w.bids)[k] \in Int
  BY <1>1, PartsAreIntegers
<1> HIDE DEF w, new, all
<1>7. SumFunctionOnSet(FillPart(p, all), Keys)
        = SumFunctionOnSet(FillPart(p, s.fills), Keys) + SumFunctionOnSet(FillPart(p, new), Keys)
  BY <1>5, <1>6, KeysAssumption, SumAdd
<1>8. SumFunctionOnSet(FillPart(p, new), Keys) <= SumFunctionOnSet(WindowPart(p, w.bids), Keys)
  BY <1>5, <1>6, KeysAssumption, SumMonotonic
<1>9. SumFunctionOnSet(FillPart(p, new), Keys) \in Nat
  BY <1>5, KeysAssumption, SumNat
<1> QED BY <1>5, <1>7, <1>8, <1>9, HoldsAreSums DEF w, new, all

(* So each of the terms of their settlement, and what they add up to. *)
LEMMA SettlementTerms ==
  ASSUME NEW s, Kept(s), Truthful(s), Fits(s), FloorNotNegative, FairWindow(s),
         s.window # None, NEW p,
         NEW allocs, \A j \in Keys : allocs[j] \in Nat /\ allocs[j] <= Asked(s.window.bids)[j]
  PROVE  LET w == s.window
             K == BidsOf(p, w.bids)
             held == Cost(w.bids, ReservePrices(w.bids))
             paid == Paid(NewFills(w, allocs))
         IN  /\ \A k \in K : /\ held[k] \in 0..I64Max /\ paid[k] \in 0..I64Max
                             /\ paid[k] <= held[k]
             /\ SumFunctionOnSet(held, K) = WindowHold(p, w.bids)
             /\ SumFunctionOnSet(paid, K) = FillsOwed(p, NewFills(w, allocs))
<1> DEFINE w == s.window
           new == NewFills(w, allocs)
           K == BidsOf(p, w.bids)
           held == Cost(w.bids, ReservePrices(w.bids))
           paid == Paid(new)
<1>1. /\ w \in OpenWindow /\ w.bids \in [Keys -> PendingBid \cup {None}] /\ w.price \in Int
      /\ WindowBids(s) = w.bids /\ s.fills \in [Keys -> Fill \cup {None}]
  BY WindowWellFormed, StateParts DEF Kept, OpenWindow
<1>2. \A k \in Keys : allocs[k] \in Nat /\ (w.bids[k] = None => allocs[k] = 0)
  BY DEF Asked
<1>3. new \in [Keys -> Fill \cup {None}]
  BY <1>1, <1>2, AddFillsKeeps
<1>4. 0 <= w.price /\ I64Max \in Nat
  BY <1>1, AuctionAssumption, WidthsAssumption DEF FairWindow, IsSchedule, I64, FloorNotNegative
<1>5. K \subseteq Keys /\ \A k \in Keys : k \in K <=> w.bids[k] # None /\ w.bids[k].participant = p
  BY DEF BidsOf, Present
<1>6. ASSUME NEW k \in Keys, w.bids[k] # None
      PROVE  /\ held[k] = w.bids[k].reserve_price * w.bids[k].qty /\ held[k] \in 0..I64Max
             /\ paid[k] \in 0..I64Max /\ paid[k] <= held[k]
             /\ new[k] = None => paid[k] = 0
             /\ new[k] # None => /\ paid[k] = new[k].price * new[k].qty
                                 /\ new[k].participant = w.bids[k].participant
  <2> DEFINE bid == w.bids[k]
  <2>1. bid.reserve_price \in Int /\ bid.qty \in Nat /\ Payable(bid.reserve_price, bid.qty)
    BY <1>1, <1>6 DEF PendingBid, Fits
  <2>2. w.price <= bid.reserve_price /\ allocs[k] \in Nat /\ allocs[k] <= bid.qty
    <3>1. Asked(w.bids)[k] = bid.qty
      BY <1>6 DEF Asked
    <3>2. k \in Present(w.bids)
      BY <1>6 DEF Present
    <3> QED BY <3>1, <3>2 DEF FairWindow
  <2>3. held[k] = bid.reserve_price * bid.qty
    BY <1>6 DEF Cost, ReservePrices
  <2>4. bid.reserve_price * bid.qty \in 0..I64Max
    BY <2>1, PayableProduct
  <2>5. /\ Payable(w.price, allocs[k]) /\ w.price * allocs[k] <= bid.reserve_price * bid.qty
        /\ w.price * allocs[k] \in Nat
    <3> HIDE DEF bid, w
    <3> QED BY <1>1, <1>4, <2>1, <2>2, CheaperIsPayable
  <2>6. new[k] = IF allocs[k] = 0 THEN None
                 ELSE [participant |-> bid.participant, qty |-> allocs[k], price |-> w.price]
    BY DEF NewFills
  <2>7. paid[k] = IF new[k] = None THEN 0 ELSE CommitAmount(new[k].price, new[k].qty)
    BY DEF Paid
  <2> HIDE DEF new, paid, held, bid
  <2>8. CASE new[k] = None
    <3>1. paid[k] = 0
      BY <2>7, <2>8
    <3> QED BY <1>4, <2>3, <2>4, <2>8, <3>1 DEF bid
  <2>9. CASE new[k] # None
    <3>1. /\ new[k].participant = bid.participant /\ new[k].qty = allocs[k]
          /\ new[k].price = w.price
      BY <2>6, <2>9
    <3>2. ~Overflows(w.price, allocs[k]) /\ w.price * allocs[k] \in 0..I64Max
      BY <1>1, <2>2, <2>5, PayableProduct
    <3>3. paid[k] = w.price * allocs[k]
      BY <2>7, <2>9, <3>1, <3>2 DEF CommitAmount
    <3> QED BY <2>3, <2>4, <2>5, <2>9, <3>1, <3>2, <3>3 DEF bid
  <2> QED BY <2>8, <2>9
<1>7. ASSUME NEW k \in Keys
      PROVE  /\ WindowPart(p, w.bids)[k] = IF k \in K THEN held[k] ELSE 0
             /\ FillPart(p, new)[k] = IF k \in K THEN paid[k] ELSE 0
  <2>1. CASE w.bids[k] = None
    <3>1. new[k] = None
      BY <1>2, <2>1 DEF NewFills
    <3> HIDE DEF new, w
    <3> QED BY <1>5, <2>1, <3>1 DEF WindowPart, FillPart, Part
  <2>2. CASE w.bids[k] # None
    <3>1. WindowPart(p, w.bids)[k] = IF w.bids[k].participant = p THEN held[k] ELSE 0
      <4>1. held[k] = w.bids[k].reserve_price * w.bids[k].qty
        BY <1>6, <2>2
      <4> HIDE DEF held, w
      <4> QED BY <2>2, <4>1 DEF WindowPart, Part
    <3>2. FillPart(p, new)[k] = IF w.bids[k].participant = p THEN paid[k] ELSE 0
      <4>1. /\ new[k] = None => paid[k] = 0
            /\ new[k] # None => /\ paid[k] = new[k].price * new[k].qty
                                /\ new[k].participant = w.bids[k].participant
        BY <1>6, <2>2
      <4> HIDE DEF new, paid, w
      <4> QED BY <4>1 DEF FillPart, Part
    <3> HIDE DEF new, paid, held, K, w
    <3> QED BY <1>5, <2>2, <3>1, <3>2
  <2> QED BY <2>1, <2>2
<1>8. \A k \in Keys : WindowPart(p, w.bids)[k] \in Int /\ FillPart(p, new)[k] \in Int
  BY <1>1, <1>3, PartsAreIntegers
<1> HIDE DEF held, paid, K, new, w
<1>9. /\ SumFunctionOnSet(held, K) = SumFunctionOnSet(WindowPart(p, w.bids), Keys)
      /\ SumFunctionOnSet(paid, K) = SumFunctionOnSet(FillPart(p, new), Keys)
  BY <1>5, <1>7, <1>8, KeysAssumption, SumOfSome
<1>10. \A k \in K : held[k] \in 0..I64Max /\ paid[k] \in 0..I64Max /\ paid[k] <= held[k]
  BY <1>5, <1>6
<1> QED BY <1>9, <1>10, HoldsAreSums DEF held, paid, K, new, w

(***************************************************************************)
(* A window whose price the clock has produced settles: every bid in it is *)
(* filled or refused, collateral follows, nothing goes back to the ladder, *)
(* and if the supply is exhausted the auction clears.                      *)
(***************************************************************************)
LEMMA SettleSound ==
  ASSUME NEW s, Sound(s), s.window # None, Produced(s, s.window.price)
  PROVE  /\ Sound(SettleWindow(s)) /\ SettleWindow(s).window = None
         /\ SettleWindow(s).now = s.now /\ SettleWindow(s).limit = s.limit
         /\ Advances(s, SettleWindow(s)) /\ Releases(s, SettleWindow(s))
         /\ SettleWindow(s).status = "Live" => SettleWindow(s).resting = s.resting
<1> DEFINE w == s.window
           allocs == Allocate(w.bids, s.supply_remaining)
           left == Monus(s.supply_remaining, SumFunctionOnSet(allocs, Keys))
           exhausted == s.supply_remaining > 0 /\ left = 0
           new == NewFills(w, allocs)
           fills == AddFills(s.fills, new)
           back == Remainders(w, allocs, exhausted)
           outcomes == WindowOutcomes(s.outcomes, w, allocs)
           resting == [k \in Keys |-> IF back[k] = None THEN s.resting[k] ELSE back[k]]
           committed == [p \in Participants |->
              Settlement(s.committed[p], w.bids, BidsOf(p, w.bids),
                         Cost(w.bids, ReservePrices(w.bids)), Paid(new),
                         Cost(back, LimitPrices(back)))]
           t == SettledState(s)
<1>1. /\ s \in AuctionState /\ Kept(s) /\ Truthful(s) /\ Bounded(s) /\ Fitting(s)
      /\ Ledger(s) /\ FairWindow(s)
      /\ FillsAbove(s) /\ ExhaustionTrue(s) /\ SoldOutEnds(s) /\ s.status = "Live"
  BY DEF Sound, Solid, Kept, FairWindow
<1>2. /\ s.fills \in [Keys -> Fill \cup {None}] /\ s.outcomes \in [Keys -> Outcomes]
      /\ s.resting \in [Keys -> RestingBid \cup {None}] /\ s.committed \in [Participants -> Int]
      /\ s.supply_remaining \in Nat /\ s.now \in Nat /\ s.now \in U64
      /\ s.limit \in [Participants -> Int] /\ w \in OpenWindow
  BY <1>1, StateParts
<1>3. /\ w.bids \in [Keys -> PendingBid \cup {None}] /\ WindowBids(s) = w.bids
      /\ WellFormed(w.bids) /\ w.price \in Int
  BY <1>1, <1>2, WindowWellFormed DEF OpenWindow
<1>4. /\ \A k \in Keys : allocs[k] \in Nat /\ allocs[k] <= Asked(w.bids)[k]
      /\ \A k \in Keys : allocs[k] # Asked(w.bids)[k] => left = 0
      /\ \A k \in Keys : allocs[k] > 0 => s.supply_remaining > 0
  BY <1>2, <1>3, ShortMeansSoldOut
<1>5. left \in Nat /\ left <= s.supply_remaining
  BY <1>2, <1>3, AllocationIsExact, DemandIsAsked DEF Monus, Sells
<1>6. SettleWindow(s) = IF exhausted THEN Clear(t, w.price) ELSE t
  BY DEF SettleWindow, Distribute, SettledState
<1>7. \A k \in Keys : back[k] = None
  <2> TAKE k \in Keys
  <2>1. ~(/\ allocs[k] > 0 /\ ~exhausted
          /\ w.bids[k].resting_limit # None /\ allocs[k] < w.bids[k].qty)
    <3> SUFFICES ASSUME allocs[k] > 0, allocs[k] < w.bids[k].qty PROVE exhausted
      OBVIOUS
    <3>1. w.bids[k] # None
      <4>1. allocs[k] \in Nat /\ allocs[k] <= Asked(w.bids)[k]
        BY <1>4
      <4> HIDE DEF allocs
      <4> QED BY <4>1 DEF Asked
    <3>2. Asked(w.bids)[k] = w.bids[k].qty /\ w.bids[k].qty \in Nat
      BY <1>3, <3>1 DEF Asked, PendingBid
    <3>3. allocs[k] # Asked(w.bids)[k]
      BY <1>4, <3>2
    <3> QED BY <1>4, <3>3
  <2> HIDE DEF allocs, exhausted
  <2> QED BY <2>1 DEF Remainders
<1> HIDE DEF allocs
<1>8. /\ t.status = "Live" /\ t.clearing_price = s.clearing_price /\ t.fills = fills
      /\ t.outcomes = outcomes /\ t.resting = resting /\ t.window = None
      /\ t.supply_remaining = left /\ t.now = s.now /\ t.limit = s.limit
      /\ t.committed = committed /\ t.admitted = s.admitted
  <2> HIDE DEF left, fills, outcomes, resting, committed
  <2>1. t = [s EXCEPT !.window = None, !.supply_remaining = left, !.fills = fills,
                      !.outcomes = outcomes, !.resting = resting, !.committed = committed]
    BY DEF SettledState, Settled, left, fills, outcomes, resting, committed, allocs
  <2> QED BY <1>1, <2>1 DEF AuctionState
<1>9. resting = s.resting
  BY <1>2, <1>7
<1>10. Kept(t) /\ t \in AuctionState
  BY <1>1, SettledKept DEF Kept
<1>11. WindowBids(t) = Nothing
  BY <1>8 DEF WindowBids
<1>12. ASSUME NEW k \in Keys
       PROVE  /\ Told(outcomes[k], None, s.resting[k], fills[k])
              /\ AnswerStands(s.outcomes[k], outcomes[k])
              /\ outcomes[k] = Rejected("SupplyExhausted") => left = 0
              /\ fills[k] # None => Price(s.now) <= fills[k].price /\ w.price <= fills[k].price
  <2> DEFINE bid == w.bids[k]
  <2>1. s.outcomes[k] \in Outcomes /\ Told(s.outcomes[k], bid, s.resting[k], s.fills[k])
    BY <1>1, <1>2, <1>3 DEF Truthful
  <2>2. allocs[k] \in Nat
    BY <1>4
  <2>3. Price(s.now) <= w.price
    BY <1>2, ClockPrice DEF Produced
  <2>4. /\ bid = None => fills[k] = s.fills[k] /\ outcomes[k] = s.outcomes[k]
        /\ bid # None =>
             /\ s.resting[k] = None
             /\ s.outcomes[k].kind \in {"Queued", "Resting"} /\ s.outcomes[k].qty = bid.qty
             /\ allocs[k] <= bid.qty
             /\ allocs[k] = 0 => fills[k] = None /\ outcomes[k] = Rejected("SupplyExhausted")
             /\ allocs[k] # 0 =>
                  /\ outcomes[k] = Filled(allocs[k], w.price) /\ fills[k] # None
                  /\ fills[k] = [participant |-> bid.participant, qty |-> allocs[k],
                                 price |-> w.price]
    <3>1. /\ Kept(s) /\ Truthful(s) /\ s.window # None
          /\ \A j \in Keys : allocs[j] \in Nat /\ allocs[j] <= Asked(s.window.bids)[j]
      BY <1>1, <1>4
    <3>2. bid # None =>
             /\ s.resting[k] = None /\ s.fills[k] = None
             /\ s.outcomes[k].kind \in {"Queued", "Resting"} /\ s.outcomes[k].qty = bid.qty
             /\ allocs[k] <= bid.qty
      BY <3>1, SettledKey
    <3>3. bid # None /\ allocs[k] # 0 =>
                  /\ outcomes[k] = Filled(allocs[k], w.price) /\ fills[k] # None
                  /\ fills[k] = [participant |-> bid.participant, qty |-> allocs[k],
                                 price |-> w.price]
      BY <3>1, SettledKey
    <3>4. allocs[k] = 0 => fills[k] = s.fills[k]
      <4> SUFFICES ASSUME allocs[k] = 0 PROVE fills[k] = s.fills[k]
        OBVIOUS
      <4>1. new[k] = None
        BY DEF NewFills
      <4> HIDE DEF new
      <4> QED BY <4>1 DEF AddFills
    <3>5. bid = None => allocs[k] = 0 /\ outcomes[k] = s.outcomes[k]
      <4> SUFFICES ASSUME bid = None PROVE allocs[k] = 0 /\ outcomes[k] = s.outcomes[k]
        OBVIOUS
      <4>1. allocs[k] <= 0
        BY <3>1 DEF Asked
      <4> QED BY <2>2, <4>1 DEF WindowOutcomes
    <3>6. bid # None /\ allocs[k] = 0 => outcomes[k] = Rejected("SupplyExhausted")
      <4> SUFFICES ASSUME bid # None, allocs[k] = 0
                   PROVE  outcomes[k] = Rejected("SupplyExhausted")
        OBVIOUS
      <4>1. outcomes[k] = Merge(s.outcomes[k], Rejected("SupplyExhausted"))
        BY DEF WindowOutcomes
      <4> QED BY <3>2, <4>1, MergeWaiting DEF HasFill
    <3> HIDE DEF bid, fills, outcomes, w
    <3> QED BY <3>2, <3>3, <3>4, <3>5, <3>6
  <2> HIDE DEF fills, outcomes, left, w
  <2>5. CASE bid = None
    <3>1. fills[k] = s.fills[k] /\ outcomes[k] = s.outcomes[k]
      BY <2>5, <2>4
    <3>2. AnswerStands(s.outcomes[k], outcomes[k])
      BY <2>1, <3>1, SameAnswerStands
    <3>3. outcomes[k] = Rejected("SupplyExhausted") => left = 0
      <4>1. outcomes[k] = Rejected("SupplyExhausted") => s.supply_remaining = 0
        BY <1>1, <3>1 DEF ExhaustionTrue
      <4> QED BY <1>2, <1>5, <4>1
    <3>4. fills[k] # None => Price(s.now) <= fills[k].price /\ w.price <= fills[k].price
      BY <1>1, <3>1 DEF FillsAbove, w
    <3> QED BY <2>1, <2>5, <3>1, <3>2, <3>3, <3>4
  <2>6. CASE bid # None
    <3>1. /\ s.resting[k] = None /\ s.outcomes[k].kind \in {"Queued", "Resting"}
          /\ s.outcomes[k].qty = bid.qty /\ allocs[k] <= bid.qty
      BY <2>6, <2>4
    <3>2. CASE allocs[k] = 0
      <4>1. fills[k] = None /\ outcomes[k] = Rejected("SupplyExhausted")
        BY <2>6, <3>2, <2>4
      <4>2. left = 0
        <5>1. Asked(w.bids)[k] = bid.qty /\ bid.qty # 0
          BY <1>3, <2>6 DEF Asked, WellFormed, Present
        <5> QED BY <1>4, <3>2, <5>1
      <4>3. Told(outcomes[k], None, s.resting[k], fills[k])
        BY <3>1, <4>1 DEF Told, Rejected
      <4>4. AnswerStands(s.outcomes[k], outcomes[k])
        BY <2>1, <3>1, <4>1, StandsByKind DEF Rejected, HasFill
      <4> QED BY <4>1, <4>2, <4>3, <4>4
    <3>3. CASE allocs[k] # 0
      <4>1. /\ outcomes[k] = Filled(allocs[k], w.price) /\ fills[k] # None
            /\ fills[k] = [participant |-> bid.participant, qty |-> allocs[k], price |-> w.price]
        BY <2>6, <3>3, <2>4
      <4>2. fills[k].qty = allocs[k] /\ fills[k].price = w.price
        BY <4>1
      <4>3. Told(outcomes[k], None, s.resting[k], fills[k])
        BY <3>1, <4>1, <4>2 DEF Told, Filled
      <4>4. AnswerStands(s.outcomes[k], outcomes[k])
        <5>1. bid.qty \in Nat
          BY <1>3, <2>6 DEF PendingBid
        <5>2. allocs[k] \in 1..bid.qty
          BY <2>2, <3>1, <3>3, <5>1
        <5> QED BY <2>1, <3>1, <4>1, <5>2, StandsByKind DEF Filled, HasFill
      <4>5. outcomes[k] # Rejected("SupplyExhausted")
        BY <4>1 DEF Filled, Rejected
      <4>6. w.price <= w.price
        BY <1>3
      <4> QED BY <2>3, <4>2, <4>3, <4>4, <4>5, <4>6
    <3> QED BY <3>2, <3>3
  <2> QED BY <2>5, <2>6
<1>13. ASSUME NEW p \in Participants
       PROVE  /\ committed[p] \in I64
              /\ PricesNotNegative =>
                   committed[p] = LadderHold(p, s.resting) + FillsOwed(p, fills)
              /\ FloorNotNegative => committed[p] <= s.committed[p] \/ committed[p] <= 0
  <2> DEFINE K == BidsOf(p, w.bids)
             held == Cost(w.bids, ReservePrices(w.bids))
             paid == Paid(new)
             kept == Cost(back, LimitPrices(back))
  <2>1. K \subseteq Present(w.bids) /\ K \subseteq Keys
    BY DEF BidsOf, Present
  <2>2. \A k \in Keys : kept[k] = 0
    <3> HIDE DEF back
    <3> QED BY <1>7 DEF Cost
  <2>3. \A k \in Keys : held[k] \in Int /\ paid[k] \in Int
    <3>1. \A k \in Keys : allocs[k] \in Nat /\ (w.bids[k] = None => allocs[k] = 0)
      BY <1>4 DEF Asked
    <3>2. new \in [Keys -> Fill \cup {None}]
      BY <1>2, <3>1, AddFillsKeeps
    <3> HIDE DEF new
    <3> QED BY <1>3, <3>2, CostsAreIntegers, AmountsAreIntegers
  <2>4. s.committed[p] \in I64 /\ s.committed[p] \in Int /\ I64Max \in Nat
    BY <1>1, <1>2, WidthsAssumption DEF Bounded
  <2>5. committed[p] = Settlement(s.committed[p], w.bids, K, held, paid, kept)
    OBVIOUS
  <2>6. FloorNotNegative =>
          /\ \A k \in K : held[k] \in 0..I64Max /\ paid[k] \in 0..I64Max /\ paid[k] <= held[k]
          /\ SumFunctionOnSet(held, K) = WindowHold(p, w.bids)
          /\ SumFunctionOnSet(paid, K) = FillsOwed(p, new)
    BY <1>1, <1>4, SettlementTerms DEF Fitting
  <2>7. FloorNotNegative =>
          /\ FillsOwed(p, fills) = FillsOwed(p, s.fills) + FillsOwed(p, new)
          /\ FillsOwed(p, new) <= WindowHold(p, w.bids) /\ FillsOwed(p, new) \in Nat
    BY <1>1, <1>4, FillsWithinReserve DEF Fitting
  <2> HIDE DEF K, held, paid, kept, committed, new, fills, back
  <2>8. committed[p] \in I64
    BY <1>3, <2>1, <2>2, <2>3, <2>4, <2>5, SettlementIsInteger
  <2>9. ASSUME FloorNotNegative PROVE committed[p] <= s.committed[p] \/ committed[p] <= 0
    BY <1>3, <2>1, <2>2, <2>4, <2>5, <2>6, <2>9, SettlementLowers
  <2>10. ASSUME PricesNotNegative
         PROVE  committed[p] = LadderHold(p, s.resting) + FillsOwed(p, fills)
    <3>1. FloorNotNegative /\ Balanced(s) /\ RestsAboveZero(s) /\ Fits(s)
      BY <1>1, <2>10 DEF PricesNotNegative, Ledger, Fitting
    <3>2. s.committed[p] = WindowHold(p, w.bids) + LadderHold(p, s.resting) + FillsOwed(p, s.fills)
      BY <1>3, <3>1 DEF Balanced
    <3>3. /\ WindowHold(p, w.bids) \in Nat /\ LadderHold(p, s.resting) \in Nat
          /\ FillsOwed(p, s.fills) \in Nat
      BY <1>1, <1>3, <3>1, HoldsArePositive
    <3> HIDE DEF w
    <3>4. SumFunctionOnSet(held, K) <= s.committed[p] /\ s.committed[p] <= I64Max
      BY <2>4, <2>6, <3>1, <3>2, <3>3 DEF I64
    <3>5. \A k \in K : held[k] \in Nat /\ paid[k] \in Nat /\ paid[k] <= held[k] /\ kept[k] = 0
      BY <2>1, <2>2, <2>4, <2>6, <3>1
    <3>6. committed[p] = s.committed[p] - WindowHold(p, w.bids) + FillsOwed(p, new)
      BY <1>3, <2>1, <2>4, <2>5, <2>6, <3>1, <3>4, <3>5, SettlementIsExact DEF w
    <3> QED BY <2>7, <3>1, <3>2, <3>3, <3>6
  <2> QED BY <2>8, <2>9, <2>10
<1>14. FloorNotNegative => \A k \in Keys : fills[k] # None => Payable(fills[k].price, fills[k].qty)
  BY <1>1, <1>4, FillsWithinReserve DEF Fitting
<1> HIDE DEF t, fills, outcomes, committed, left, resting, new, back
<1>15. Truthful(t)
  BY <1>8, <1>9, <1>11, <1>12, NothingWaits DEF Truthful
<1>16. Ledger(t)
  <2> SUFFICES ASSUME PricesNotNegative
               PROVE  Balanced(t) /\ RestsAboveZero(t)
    BY DEF Ledger
  <2>1. RestsAboveZero(s) /\ Fits(s)
    BY <1>1 DEF Ledger, Fitting, PricesNotNegative
  <2>2. RestsAboveZero(t)
    BY <1>8, <1>9, <2>1 DEF RestsAboveZero
  <2>3. ASSUME NEW p \in Participants
        PROVE  committed[p] = WindowHold(p, Nothing) + LadderHold(p, s.resting) + FillsOwed(p, fills)
    <3>1. WindowHold(p, Nothing) = 0
      BY NothingHeld, NothingWaits
    <3>2. LadderHold(p, s.resting) \in Nat
      BY <1>1, <2>1, HoldsArePositive
    <3> QED BY <1>13, <3>1, <3>2
  <2> QED BY <1>8, <1>9, <1>11, <2>2, <2>3 DEF Balanced
<1>17. Bounded(t) /\ Fitting(t)
  BY <1>1, <1>8, <1>9, <1>11, <1>13, <1>14, NothingWaits DEF Bounded, Fitting, Fits
<1>18. FairWindow(t) /\ NobodyWaits(t) /\ PriceSeen(t)
  BY <1>8 DEF FairWindow, NobodyWaits, PriceSeen, IsTerminal
<1>19. FillsAbove(t) /\ ExhaustionTrue(t)
  BY <1>8, <1>12 DEF FillsAbove, ExhaustionTrue
<1>20. Solid(t)
  BY <1>10, <1>15, <1>16, <1>17, <1>18, <1>19 DEF Solid
<1>21. Releases(s, t) /\ Shrinks(s, t)
  BY <1>8, <1>9, <1>13 DEF Releases, Shrinks
<1>22. Advances(s, t)
  <2>1. Onward(s, t)
    BY <1>1, <1>2, <1>5, <1>8 DEF Onward, IsTerminal
  <2>2. AnswersKept(s, t)
    BY <1>8, <1>12 DEF AnswersKept
  <2> QED BY <1>21, <2>1, <2>2, ReleasesWithin DEF Advances
<1>23. CASE exhausted
  <2>1. /\ Schedule.floor_price <= w.price /\ Produced(t, w.price)
        /\ ~(t.supply_remaining > 0)
        /\ \A k \in Keys : t.fills[k] # None => w.price <= t.fills[k].price
    BY <1>1, <1>5, <1>8, <1>12, <1>23 DEF FairWindow, Produced
  <2> DEFINE u == Clear(t, w.price)
  <2>2. Sound(u) /\ u.window = None /\ u.now = t.now /\ u.limit = t.limit /\ Advances(t, u)
        /\ Releases(t, u)
    BY <1>3, <1>8, <1>20, <2>1, ClearSound
  <2>3. u \in AuctionState /\ Truthful(u)
    BY <2>2 DEF Sound, Solid, Kept
  <2>4. SettleWindow(s) = u
    BY <1>6, <1>23
  <2>7. u.status # "Live"
    BY <1>10 DEF Clear, AuctionState
  <2> HIDE DEF u
  <2>5. Advances(s, u)
    BY <1>1, <1>10, <1>21, <1>22, <2>2, <2>3, AdvancesCompose
  <2>6. Releases(s, u)
    BY <1>1, <1>10, <1>21, <1>22, <2>2, <2>3, ReleasesCompose DEF Advances
  <2> QED BY <1>8, <2>2, <2>4, <2>5, <2>6, <2>7
<1>24. CASE ~exhausted
  <2>1. SoldOutEnds(t)
    BY <1>1, <1>2, <1>5, <1>8, <1>24 DEF SoldOutEnds
  <2> QED BY <1>6, <1>8, <1>9, <1>20, <1>21, <1>24, <1>22, <2>1 DEF Sound
<1> QED BY <1>23, <1>24

LEMMA FlushSound ==
  ASSUME NEW s, Sound(s), s.window # None => Produced(s, s.window.price)
  PROVE  /\ Sound(FlushWindow(s)) /\ FlushWindow(s).window = None
         /\ FlushWindow(s).now = s.now /\ FlushWindow(s).limit = s.limit
         /\ Advances(s, FlushWindow(s)) /\ Releases(s, FlushWindow(s))
         /\ FlushWindow(s).status = "Live" => FlushWindow(s).resting = s.resting
<1>1. CASE s.window = None
  <2>1. FlushWindow(s) = s
    BY <1>1 DEF FlushWindow
  <2>2. s \in AuctionState /\ s.now <= s.now /\ Shrinks(s, s)
    BY StateParts DEF Sound, Solid, Kept, Shrinks
  <2> QED BY <1>1, <2>1, <2>2, AdvancesIdle
<1>2. CASE s.window # None
  <2>1. FlushWindow(s) = SettleWindow(s)
    BY <1>2 DEF FlushWindow, AcceptsBids, Sound, Solid, FairWindow
  <2> QED BY <1>2, <2>1, SettleSound
<1> QED BY <1>1, <1>2

-----------------------------------------------------------------------------
(* Time. *)

(* The window of an instant: where it lies, and what it costs. *)
LEMMA WindowTiming ==
  ASSUME NEW a \in U64, NEW b \in U64, a <= b
  PROVE  LET index(t) == WindowIndex(BatchWindow, t)
             price(t) == WindowPrice(Schedule, BatchWindow, t)
         IN  /\ index(a) \in Nat /\ index(a) <= index(b)
             /\ index(a) = index(b) => price(a) = price(b)
             /\ index(a) < index(b) => \E t \in 0..b : Price(t) = price(a)
             /\ price(a) \in Int /\ (FloorNotNegative => 0 <= price(a))
             /\ Schedule.floor_price <= price(a) /\ price(a) <= Price(a)
             /\ BatchWindow = 0 => price(a) = Price(a)
<1> DEFINE index(t) == WindowIndex(BatchWindow, t)
           price(t) == WindowPrice(Schedule, BatchWindow, t)
           last == WindowLast(BatchWindow, a)
<1>1. BatchWindow \in U64 /\ BatchWindow \in Nat /\ a \in Nat /\ b \in Nat
  BY AuctionAssumption, WidthsAssumption DEF U64
<1>2. last \in U64 /\ last \in Nat /\ a <= last /\ index(last) = index(a)
  <2>1. last \in U64 /\ a <= last /\ index(last) = index(a)
    BY <1>1, WindowLastIsLast
  <2> QED BY <2>1, WidthsAssumption DEF U64
<1>3. \A x, y \in Nat : x <= y => index(x) <= index(y) /\ index(x) \in Nat /\ index(y) \in Nat
  BY <1>1, DivMonotonic, DivBrackets DEF WindowIndex
<1>4. index(a) \in Nat /\ index(a) <= index(b)
  BY <1>1, <1>3
<1>5. index(a) = index(b) => price(a) = price(b)
  BY DEF WindowIndex, WindowPrice, WindowLast
<1>6. price(a) = Price(last)
  BY DEF WindowPrice, Price
<1>7. index(a) < index(b) => \E t \in 0..b : Price(t) = price(a)
  <2> SUFFICES ASSUME index(a) < index(b) PROVE last \in 0..b
    BY <1>6
  <2>1. ~(b <= last)
    <3>1. b <= last => index(b) <= index(last)
      BY <1>1, <1>2, <1>3
    <3>2. index(a) \in Nat /\ index(b) \in Nat
      BY <1>1, <1>3
    <3> HIDE DEF index, last
    <3> QED BY <1>2, <3>1, <3>2
  <2> HIDE DEF last
  <2> QED BY <1>1, <1>2, <2>1
<1>8. /\ price(a) \in Int /\ (FloorNotNegative => 0 <= price(a))
      /\ Schedule.floor_price <= price(a) /\ price(a) <= Price(a)
  <2>1. a \in 0..last
    BY <1>1, <1>2
  <2> QED BY <1>2, <1>6, <2>1, ClockPrice
<1>9. BatchWindow = 0 => price(a) = Price(a)
  BY DEF WindowPrice, WindowLast, Price
<1> QED BY <1>4, <1>5, <1>7, <1>8, <1>9

(* A part that touches no bid, no fill and no balance. *)
LEMMA MoneyIdle ==
  ASSUME NEW s, NEW t, Bounded(s), Fitting(s), Ledger(s), t.limit = s.limit,
         t.resting = s.resting, WindowBids(t) = WindowBids(s), t.fills = s.fills,
         t.committed = s.committed
  PROVE  Bounded(t) /\ Fitting(t) /\ Ledger(t)
<1>1. Bounded(t)
  BY DEF Bounded
<1>2. Fitting(t)
  BY DEF Fitting, Fits
<1>3. Ledger(t)
  BY DEF Ledger, Balanced, RestsAboveZero
<1> QED BY <1>1, <1>2, <1>3

(* Time passes: whatever the auction owes, it owes still. *)
LEMMA LaterSound ==
  ASSUME NEW s, Sound(s), NEW now \in U64, s.now <= now
  PROVE  LET t == [s EXCEPT !.now = now]
         IN  /\ Sound(t) /\ t.window = s.window /\ t.now = now /\ t.limit = s.limit
             /\ Advances(s, t) /\ Releases(s, t)
<1> DEFINE t == [s EXCEPT !.now = now]
<1>1. s \in AuctionState /\ s.now \in U64 /\ s.admitted \in Nat
  BY StateParts DEF Sound, Solid, Kept
<1>2. /\ t \in AuctionState /\ t.now = now
      /\ t.status = s.status /\ t.supply_remaining = s.supply_remaining
      /\ t.clearing_price = s.clearing_price /\ t.fills = s.fills /\ t.resting = s.resting
      /\ t.window = s.window /\ t.outcomes = s.outcomes /\ t.limit = s.limit
      /\ t.committed = s.committed /\ t.admitted = s.admitted
  BY <1>1 DEF AuctionState
<1> HIDE DEF t
<1>3. Kept(t)
  <2>1. t.admitted >= s.admitted
    BY <1>1, <1>2
  <2> QED BY <1>2, <2>1, BookkeepingKept DEF Sound, Solid
<1>4. WindowBids(t) = WindowBids(s)
  BY <1>2 DEF WindowBids
<1>5. /\ Truthful(t) /\ Bounded(t) /\ Fitting(t) /\ Ledger(t) /\ FairWindow(t) /\ NobodyWaits(t)
      /\ ExhaustionTrue(t) /\ SoldOutEnds(t)
  BY <1>2, <1>4, MoneyIdle DEF Sound, Solid, Truthful, FairWindow, NobodyWaits,
                               ExhaustionTrue, SoldOutEnds, IsTerminal
<1>6. s.now \in Int /\ now \in Int /\ 0 <= s.now
  BY <1>1, WidthsAssumption DEF U64
<1>7. FillsAbove(t)
  <2>1. s.now \in 0..now
    BY <1>6
  <2>2. Price(now) <= Price(s.now) /\ Price(now) \in Int /\ Price(s.now) \in Int
    BY <1>1, <2>1, ClockPrice
  <2>3. \A k \in Keys : s.fills[k] # None => s.fills[k].price \in Int
    BY <1>1, StateParts DEF Fill
  <2> QED BY <1>2, <2>2, <2>3 DEF Sound, Solid, FillsAbove
<1>8. PriceSeen(t)
  <2>1. \A x \in 0..s.now : x \in 0..now
    BY <1>6
  <2> QED BY <1>2, <2>1 DEF Sound, Solid, PriceSeen, Produced
<1>9. Advances(s, t) /\ Releases(s, t)
  BY <1>1, <1>2, AdvancesIdle DEF Shrinks
<1> QED BY <1>2, <1>3, <1>5, <1>7, <1>8, <1>9 DEF Sound, Solid, t

(***************************************************************************)
(* What apply() does before its handler: a window that has elapsed has     *)
(* seen its last price go by, so it settles at a price the clock produced. *)
(***************************************************************************)
LEMMA ArriveSound ==
  ASSUME NEW s, Sound(s), Timed(s), NEW ts \in U64
  PROVE  /\ Sound(Arrive(s, ts)) /\ Timed(Arrive(s, ts)) /\ Advances(s, Arrive(s, ts))
         /\ Arrive(s, ts).limit = s.limit /\ Releases(s, Arrive(s, ts))
<1> DEFINE now == IF ts > s.now THEN ts ELSE s.now
           t == [s EXCEPT !.now = now]
           u == Arrive(s, ts)
<1>1. s \in AuctionState /\ s.now \in U64
  BY StateParts DEF Sound, Solid, Kept
<1>2. now \in U64 /\ s.now <= now
  BY <1>1, WidthsAssumption DEF U64
<1>3. u = IF t.window # None /\ WindowIndex(BatchWindow, t.now) > t.window.index
          THEN FlushWindow(t) ELSE t
  BY DEF Arrive, CloseElapsedWindow
<1> HIDE DEF now
<1>4. Sound(t) /\ t.window = s.window /\ t.now = now /\ t.limit = s.limit /\ Advances(s, t)
      /\ Releases(s, t)
  BY <1>2, LaterSound
<1>5. t \in AuctionState
  BY <1>4 DEF Sound, Solid, Kept
<1> HIDE DEF t, u
<1>6. CASE t.window # None /\ WindowIndex(BatchWindow, t.now) > t.window.index
  <2>1. s.window.index = WindowIndex(BatchWindow, s.now)
        /\ s.window.price = WindowPrice(Schedule, BatchWindow, s.now)
    BY <1>4, <1>6 DEF Timed, Opened
  <2>2. WindowIndex(BatchWindow, s.now) < WindowIndex(BatchWindow, now)
    BY <1>1, <1>2, <1>4, <1>6, <2>1, WindowTypes
  <2>3. Produced(t, t.window.price)
    BY <1>1, <1>2, <1>4, <2>1, <2>2, WindowTiming DEF Produced
  <2>4. u = FlushWindow(t)
    BY <1>3, <1>6
  <2>5. /\ Sound(u) /\ u.window = None /\ u.now = t.now /\ u.limit = t.limit /\ Advances(t, u)
        /\ Releases(t, u)
    BY <1>4, <2>3, <2>4, FlushSound
  <2>6. u \in AuctionState /\ Truthful(u)
    BY <2>5 DEF Sound, Solid, Kept
  <2>7. Advances(s, u)
    BY <1>1, <1>4, <1>5, <2>5, <2>6, AdvancesCompose DEF Sound, Solid, Releases
  <2>8. Releases(s, u)
    BY <1>1, <1>4, <1>5, <2>5, <2>6, ReleasesCompose DEF Sound, Solid, Advances
  <2> QED BY <1>4, <2>5, <2>7, <2>8 DEF u, Timed, Opened
<1>7. CASE ~(t.window # None /\ WindowIndex(BatchWindow, t.now) > t.window.index)
  <2>1. u = t
    BY <1>3, <1>7
  <2>2. Timed(t)
    <3> SUFFICES ASSUME t.window # None
                 PROVE  /\ t.window.index = WindowIndex(BatchWindow, now)
                        /\ t.window.price = WindowPrice(Schedule, BatchWindow, now)
                        /\ BatchWindow > 0
      BY <1>4 DEF Timed, Opened
    <3>1. /\ t.window.index = WindowIndex(BatchWindow, s.now) /\ BatchWindow > 0
          /\ t.window.price = WindowPrice(Schedule, BatchWindow, s.now)
      BY <1>4 DEF Timed, Opened
    <3>2. /\ WindowIndex(BatchWindow, s.now) \in Nat /\ WindowIndex(BatchWindow, now) \in Nat
          /\ WindowIndex(BatchWindow, s.now) <= WindowIndex(BatchWindow, now)
      BY <1>1, <1>2, WindowTiming, WindowTypes
    <3>3. WindowIndex(BatchWindow, s.now) = WindowIndex(BatchWindow, now)
      BY <1>4, <1>7, <3>1, <3>2
    <3> QED BY <1>1, <1>2, <3>1, <3>3, WindowTiming
  <2> QED BY <1>4, <2>1, <2>2 DEF u
<1> QED BY <1>6, <1>7

-----------------------------------------------------------------------------
(* What each handler does. *)

(* The parts of a sound state that most handlers need. *)
LEMMA SoundParts ==
  ASSUME NEW s, Sound(s)
  PROVE  /\ s \in AuctionState /\ Kept(s) /\ Truthful(s) /\ Bounded(s) /\ Fitting(s)
         /\ Ledger(s) /\ FairWindow(s) /\ FillsAbove(s) /\ NobodyWaits(s) /\ ExhaustionTrue(s)
         /\ PriceSeen(s) /\ SoldOutEnds(s)
BY DEF Sound, Solid, Kept

(* A key that was never answered has nothing anywhere. *)
LEMMA UnknownHasNothing ==
  ASSUME NEW s, Truthful(s), NEW k \in Keys, s.outcomes[k] = NoOutcome
  PROVE  WindowBids(s)[k] = None /\ s.resting[k] = None /\ s.fills[k] = None
<1>1. Told(NoOutcome, WindowBids(s)[k], s.resting[k], s.fills[k])
  BY DEF Truthful
<1> QED BY <1>1 DEF Told, NoOutcome, Resting, Filled

(* The first answer a key is given is never a change of answer. *)
LEMMA UnknownYields ==
  ASSUME NEW next
  PROVE  AnswerStands(NoOutcome, next)
BY OutcomeKinds, StandsByKind DEF NoOutcome, HasFill

LEMMA RejectSound ==
  ASSUME NEW s, Sound(s), Timed(s), NEW k \in Keys, s.outcomes[k] = NoOutcome,
         NEW r \in Reasons, r # "SupplyExhausted"
  PROVE  /\ Sound(Reject(s, k, r)) /\ Timed(Reject(s, k, r)) /\ Advances(s, Reject(s, k, r))
<1> DEFINE no == Rejected(r)
           outcomes == [s.outcomes EXCEPT ![k] = no]
           t == Reject(s, k, r)
<1>1. /\ s \in AuctionState /\ Kept(s) /\ Truthful(s) /\ ExhaustionTrue(s)
      /\ s.outcomes \in [Keys -> Outcomes] /\ no \in Outcomes
      /\ s.committed \in [Participants -> Int] /\ s.supply_remaining \in Nat /\ s.now \in Nat
  BY SoundParts, StateParts, OutcomeKinds
<1>2. Merge(NoOutcome, no) = no
  BY MergeWaiting DEF NoOutcome, HasFill
<1>3. Kept(t)
  <2>1. ~HasFill(no)
    BY DEF HasFill, Rejected
  <2> QED BY <1>1, <2>1, SetOutcomeKept DEF Reject
<1>4. t = [s EXCEPT !.outcomes = outcomes]
  BY <1>1, <1>2 DEF Reject, SetOutcome, AuctionState
<1>5. \A j \in Keys : outcomes[j] = IF j = k THEN no ELSE s.outcomes[j]
  BY <1>1
<1> HIDE DEF outcomes
<1>6. /\ t.status = s.status /\ t.supply_remaining = s.supply_remaining
      /\ t.clearing_price = s.clearing_price /\ t.fills = s.fills /\ t.resting = s.resting
      /\ t.window = s.window /\ t.outcomes = outcomes /\ t.limit = s.limit
      /\ t.committed = s.committed /\ t.now = s.now
  BY <1>1, <1>4 DEF AuctionState
<1> HIDE DEF t
<1>7. WindowBids(t) = WindowBids(s)
  BY <1>6 DEF WindowBids
<1>8. Truthful(t)
  <2> SUFFICES ASSUME NEW j \in Keys
               PROVE  Told(outcomes[j], WindowBids(s)[j], s.resting[j], s.fills[j])
    BY <1>6, <1>7 DEF Truthful
  <2>1. CASE j = k
    <3>1. Told(no, None, None, None)
      BY DEF Told, Rejected
    <3> QED BY <1>1, <1>5, <2>1, <3>1, UnknownHasNothing
  <2>2. CASE j # k
    BY <1>1, <1>5, <2>2 DEF Truthful
  <2> QED BY <2>1, <2>2
<1>9. ExhaustionTrue(t)
  BY <1>1, <1>5, <1>6 DEF ExhaustionTrue, Rejected
<1>10. Sound(t)
  BY <1>3, <1>6, <1>7, <1>8, <1>9, MoneyIdle DEF Sound, Solid, FairWindow, FillsAbove,
       NobodyWaits, PriceSeen, Produced, SoldOutEnds, IsTerminal
<1>11. Timed(t)
  BY <1>6 DEF Timed, Opened
<1>12. Advances(s, t)
  <2>1. AnswersKept(s, t)
    <3> SUFFICES ASSUME NEW j \in Keys PROVE AnswerStands(s.outcomes[j], outcomes[j])
      BY <1>6 DEF AnswersKept
    <3>1. AnswerStands(NoOutcome, no)
      BY UnknownYields
    <3> QED BY <1>1, <1>5, <3>1, SameAnswerStands
  <2> QED BY <1>1, <1>6, <2>1 DEF Advances, Onward, WithinLimit, RestsAsBefore, IsTerminal
<1> QED BY <1>10, <1>11, <1>12 DEF t

LEMMA OnOpenSound ==
  ASSUME NEW s, Sound(s), Timed(s)
  PROVE  Sound(OnOpen(s)) /\ Timed(OnOpen(s)) /\ Advances(s, OnOpen(s))
<1>1. s \in AuctionState /\ Kept(s) /\ FairWindow(s) /\ SoldOutEnds(s) /\ s.now <= s.now
  BY SoundParts, StateParts
<1>2. CASE s.status # "Pending"
  BY <1>1, <1>2, AdvancesIdle DEF OnOpen, Shrinks
<1>3. CASE s.status = "Pending"
  <2> DEFINE t == [s EXCEPT !.status = "Live"]
  <2>1. OnOpen(s) = t /\ Kept(t)
    BY <1>1, <1>3, OnOpenKept DEF OnOpen
  <2>2. /\ t.status = "Live" /\ t.supply_remaining = s.supply_remaining
        /\ t.clearing_price = s.clearing_price /\ t.fills = s.fills /\ t.resting = s.resting
        /\ t.window = s.window /\ t.outcomes = s.outcomes /\ t.limit = s.limit
        /\ t.committed = s.committed /\ t.now = s.now
    BY <1>1 DEF AuctionState
  <2> HIDE DEF t
  <2>3. WindowBids(t) = WindowBids(s) /\ s.window = None
    BY <1>1, <1>3, <2>2 DEF WindowBids, FairWindow
  <2>4. Sound(t) /\ Timed(t)
    BY <1>3, <2>1, <2>2, <2>3, MoneyIdle DEF Sound, Solid, Truthful, FairWindow,
         FillsAbove, NobodyWaits, ExhaustionTrue, PriceSeen, SoldOutEnds, IsTerminal, Timed, Opened
  <2>5. Advances(s, t)
    BY <1>1, <1>3, <2>1, <2>2, AdvancesIdle DEF Kept, Shrinks
  <2> QED BY <2>1, <2>4, <2>5
<1> QED BY <1>2, <1>3

LEMMA OnSetCollateralSound ==
  ASSUME NEW s, Sound(s), Timed(s), NEW p \in Participants, NEW limit \in I64
  PROVE  LET t == OnSetCollateral(s, p, limit) IN Sound(t) /\ Timed(t) /\ Advances(s, t)
<1> DEFINE t == OnSetCollateral(s, p, limit)
           limits == [s.limit EXCEPT ![p] = limit]
<1>1. /\ s \in AuctionState /\ Kept(s) /\ s.now <= s.now /\ s.limit \in [Participants -> Int]
      /\ limit \in Int /\ Bounded(s) /\ Fitting(s) /\ Ledger(s)
  BY SoundParts, StateParts, WidthsAssumption DEF I64
<1>2. Kept(t) /\ t \in AuctionState
  BY <1>1, OnSetCollateralKept DEF Kept
<1>3. t = [s EXCEPT !.limit = limits]
  BY DEF OnSetCollateral
<1>4. \A q \in Participants : limits[q] \in I64
  BY <1>1 DEF Bounded
<1> HIDE DEF limits
<1>5. /\ t.status = s.status /\ t.supply_remaining = s.supply_remaining
      /\ t.clearing_price = s.clearing_price /\ t.fills = s.fills /\ t.resting = s.resting
      /\ t.window = s.window /\ t.outcomes = s.outcomes /\ t.limit = limits
      /\ t.committed = s.committed /\ t.now = s.now
  BY <1>1, <1>3 DEF AuctionState
<1> HIDE DEF t
<1>6. WindowBids(t) = WindowBids(s)
  BY <1>5 DEF WindowBids
<1>7. Sound(t) /\ Timed(t)
  <2>1. Bounded(t) /\ Fitting(t) /\ Ledger(t)
    BY <1>1, <1>4, <1>5, <1>6 DEF Bounded, Fitting, Fits, Ledger, Balanced, RestsAboveZero
  <2> QED BY <1>2, <1>5, <1>6, <2>1 DEF Sound, Solid, Truthful, FairWindow, FillsAbove,
       NobodyWaits, ExhaustionTrue, PriceSeen, Produced, SoldOutEnds, IsTerminal, Timed, Opened
<1>8. Advances(s, t)
  BY <1>1, <1>2, <1>5, AdvancesIdle DEF Shrinks
<1> QED BY <1>7, <1>8 DEF t

(* Reserving stays within the ceiling, or below what was owed; and at a    *)
(* price at or above zero nothing saturates.                               *)
LEMMA ReserveStaysWithin ==
  ASSUME NEW s, Bounded(s), NEW p \in Participants, NEW price \in Int,
         NEW qty \in Nat, CanReserve(s, p, price, qty)
  PROVE  LET cost == price * qty
             after == SatI64(s.committed[p] + cost)
         IN  /\ ~Overflows(price, qty) /\ cost \in Int /\ after \in I64 /\ after \in Int
             /\ after <= s.committed[p] \/ after <= s.limit[p]
             /\ 0 <= price => Payable(price, qty) /\ after = s.committed[p] + cost
<1> DEFINE cost == price * qty
           after == SatI64(s.committed[p] + cost)
           room == SatI64(s.limit[p] - s.committed[p])
<1>1. cost \in Int /\ (0 <= price => cost \in Nat)
  <2>1. cost \in Int
    OBVIOUS
  <2>2. 0 <= price => cost \in Nat
    BY MulMonotonic
  <2> QED BY <2>1, <2>2
<1>2. s.committed[p] \in I64 /\ s.limit[p] \in I64 /\ I64Max \in Nat
  BY WidthsAssumption DEF Bounded
<1>3. cost \in I64 /\ qty <= I64Max /\ cost <= room /\ ~Overflows(price, qty)
  BY WidthsAssumption DEF CanReserve, Overflows, Available
<1> HIDE DEF cost
<1>4. /\ s.limit[p] \in Int /\ s.limit[p] <= I64Max
      /\ s.committed[p] \in Int /\ s.committed[p] <= I64Max /\ -I64Max - 1 <= s.committed[p]
  BY <1>2 DEF I64
<1>5. after \in I64 /\ after \in Int
  BY <1>1, <1>4, Saturation
<1>6. CASE 0 <= cost
  <2>1. 0 <= room
    <3>1. room \in Int
      BY <1>4, Saturation
    <3> HIDE DEF room
    <3> QED BY <1>1, <1>3, <1>6, <3>1
  <2>2. room <= s.limit[p] - s.committed[p]
    BY <1>2, <1>4, <2>1 DEF SatI64, AtMost
  <2>3. room \in Int
    BY <1>4, Saturation
  <2> HIDE DEF room
  <2>4. s.committed[p] + cost <= s.limit[p] /\ s.committed[p] + cost \in I64
    BY <1>1, <1>2, <1>3, <1>4, <1>6, <2>2, <2>3 DEF I64
  <2>5. after = s.committed[p] + cost
    BY <1>1, <1>4, <2>4, Saturation
  <2>6. 0 <= price => Payable(price, qty)
    <3>1. cost <= I64Max
      BY <1>2, <1>3 DEF I64
    <3> QED BY <1>3, <3>1 DEF Payable, cost
  <2> QED BY <1>1, <1>3, <1>5, <2>4, <2>5, <2>6 DEF cost
<1>7. CASE ~(0 <= cost)
  <2>1. after <= s.committed[p]
    <3>1. -cost \in Nat /\ s.committed[p] + cost = s.committed[p] - (-cost)
      BY <1>1, <1>4, <1>7
    <3> QED BY <1>2, <3>1, LowerSaturates
  <2>2. ~(0 <= price)
    BY <1>1, <1>7
  <2> QED BY <1>1, <1>3, <1>5, <2>1, <2>2 DEF cost
<1> QED BY <1>6, <1>7

(* One more entry adds its own part, and no other, to a participant's account. *)
LEMMA AddedEntry ==
  ASSUME NEW k \in Keys, NEW cost \in Int,
         NEW before, NEW after, \A j \in Keys : before[j] \in Int,
         \A j \in Keys : after[j] = IF j = k THEN before[j] + cost ELSE before[j]
  PROVE  SumFunctionOnSet(after, Keys) = SumFunctionOnSet(before, Keys) + cost
<1>1. /\ \A j \in Keys : before[j] \in Int /\ after[j] \in Int
      /\ \A j \in Keys : j # k => after[j] = before[j]
  OBVIOUS
<1>2. SumFunctionOnSet(after, Keys) = SumFunctionOnSet(before, Keys) + (after[k] - before[k])
  BY <1>1, KeysAssumption, SumChange
<1>3. after[k] - before[k] = cost
  OBVIOUS
<1> QED BY <1>2, <1>3

(* Bids that join the open window, or open one, at the price of the window now. *)
LEMMA PushParts ==
  ASSUME NEW s \in AuctionState, Opened(s), NEW bids \in [Keys -> PendingBid \cup {None}],
         Present(bids) # {}
  PROVE  LET t == PushPending(s, bids)
         IN  /\ t.window # None /\ WindowBids(t) = t.window.bids
             /\ t.window.index = WindowIndex(BatchWindow, s.now)
             /\ t.window.price = WindowPrice(Schedule, BatchWindow, s.now)
             /\ \A k \in Keys :
                  WindowBids(t)[k] = IF bids[k] = None THEN WindowBids(s)[k] ELSE bids[k]
             /\ Present(t.window.bids) # {}
             /\ t.status = s.status /\ t.supply_remaining = s.supply_remaining
             /\ t.clearing_price = s.clearing_price /\ t.fills = s.fills /\ t.resting = s.resting
             /\ t.outcomes = s.outcomes /\ t.limit = s.limit /\ t.committed = s.committed
             /\ t.now = s.now /\ t \in AuctionState
<1> DEFINE w == IF s.window # None THEN s.window
                ELSE [index |-> WindowIndex(BatchWindow, s.now),
                      price |-> WindowPrice(Schedule, BatchWindow, s.now),
                      bids |-> Nothing]
           all == [k \in Keys |-> IF bids[k] = None THEN w.bids[k] ELSE bids[k]]
           v == [w EXCEPT !.bids = all]
           t == [s EXCEPT !.window = v]
<1>1. PushPending(s, bids) = t
  BY DEF PushPending
<1>2. /\ w \in OpenWindow /\ w.bids = WindowBids(s)
      /\ w.index = WindowIndex(BatchWindow, s.now)
      /\ w.price = WindowPrice(Schedule, BatchWindow, s.now)
  <2>1. CASE s.window # None
    BY <2>1 DEF AuctionState, WindowBids, Opened
  <2>2. CASE s.window = None
    <3>1. Nothing \in [Keys -> PendingBid \cup {None}] /\ s.now \in U64
      BY NothingWaits DEF AuctionState
    <3> QED BY <2>2, <3>1, WindowTypes DEF OpenWindow, WindowBids
  <2> QED BY <2>1, <2>2
<1> HIDE DEF w
<1>3. all \in [Keys -> PendingBid \cup {None}]
  BY <1>2 DEF OpenWindow
<1>4. \A k \in Keys : all[k] = IF bids[k] = None THEN WindowBids(s)[k] ELSE bids[k]
  BY <1>2
<1> HIDE DEF all
<1>5. v \in OpenWindow /\ v.bids = all /\ v.index = w.index /\ v.price = w.price
  BY <1>2, <1>3 DEF OpenWindow
<1>6. v # None
  BY <1>5, NoneAssumption
<1> HIDE DEF v
<1>7. /\ t \in AuctionState /\ t.window = v
      /\ t.status = s.status /\ t.supply_remaining = s.supply_remaining
      /\ t.clearing_price = s.clearing_price /\ t.fills = s.fills /\ t.resting = s.resting
      /\ t.outcomes = s.outcomes /\ t.limit = s.limit /\ t.committed = s.committed
      /\ t.now = s.now
  BY <1>5 DEF AuctionState
<1> HIDE DEF t
<1>8. WindowBids(t) = all
  BY <1>5, <1>6, <1>7 DEF WindowBids
<1>9. Present(all) # {}
  BY <1>4 DEF Present
<1> QED BY <1>1, <1>2, <1>4, <1>5, <1>6, <1>7, <1>8, <1>9

(* A take that is admitted: reserved for, in the window, told so. *)
LEMMA QueuedSound ==
  ASSUME NEW s, Sound(s), Timed(s), s.status = "Live", NEW p \in Participants, NEW k \in Keys,
         s.outcomes[k] = NoOutcome, NEW qty \in Nat, qty # 0,
         CanReserve(s, p, WindowPrice(Schedule, BatchWindow, s.now), qty)
  PROVE  LET t == QueuedState(s, p, k, qty)
         IN  /\ Sound(t) /\ Opened(t) /\ t.limit = s.limit /\ t.now = s.now /\ Advances(s, t)
             /\ t.window # None /\ t.status = "Live" /\ t.resting = s.resting
<1> DEFINE price == WindowPrice(Schedule, BatchWindow, s.now)
           cost == price * qty
           bid == [seq |-> s.admitted, participant |-> p, qty |-> qty, priority |-> price,
                   reserve_price |-> price, resting_limit |-> None]
           bids == OneBid(k, bid)
           committed == [s.committed EXCEPT ![p] = SatI64(s.committed[p] + cost)]
           n == s.admitted + 1
           r == [Reserve(s, p, price, qty) EXCEPT !.admitted = @ + 1]
           u == PushPending(r, bids)
           outcomes == [s.outcomes EXCEPT ![k] = Queued(qty)]
           t == QueuedState(s, p, k, qty)
<1>1. /\ s \in AuctionState /\ Kept(s) /\ Truthful(s) /\ Bounded(s) /\ Fitting(s) /\ Ledger(s)
      /\ FairWindow(s) /\ FillsAbove(s) /\ ExhaustionTrue(s) /\ SoldOutEnds(s)
  BY SoundParts
<1>2. /\ s.fills \in [Keys -> Fill \cup {None}] /\ s.outcomes \in [Keys -> Outcomes]
      /\ s.committed \in [Participants -> Int] /\ s.admitted \in Nat
      /\ s.supply_remaining \in Nat /\ s.now \in Nat /\ s.now \in U64
      /\ WindowBids(s) \in [Keys -> PendingBid \cup {None}]
  BY <1>1, StateParts
<1>3. /\ price \in Int /\ (FloorNotNegative => 0 <= price) /\ Schedule.floor_price <= price /\ price <= Price(s.now)
      /\ Price(s.now) \in Int
  <2>1. s.now <= s.now
    BY <1>2
  <2> QED BY <1>2, <2>1, WindowTiming, ClockPrice
<1> HIDE DEF price
<1>4. /\ cost \in Int /\ SatI64(s.committed[p] + cost) \in I64 /\ SatI64(s.committed[p] + cost) \in Int
      /\ \/ SatI64(s.committed[p] + cost) <= s.committed[p]
         \/ SatI64(s.committed[p] + cost) <= s.limit[p]
      /\ FloorNotNegative =>
           Payable(price, qty) /\ SatI64(s.committed[p] + cost) = s.committed[p] + cost
  BY <1>1, <1>3, ReserveStaysWithin DEF price
<1>5. bid \in PendingBid /\ bid # None
  <2>1. bid \in PendingBid
    BY <1>2, <1>3 DEF PendingBid
  <2> QED BY <2>1, NoneAssumption
<1>6. bid.participant = p /\ bid.qty = qty /\ bid.reserve_price = price
  OBVIOUS
<1> HIDE DEF bid
<1>7. /\ bids \in [Keys -> PendingBid \cup {None}]
      /\ \A j \in Keys : bids[j] = IF j = k THEN bid ELSE None
  BY <1>5 DEF OneBid
<1> HIDE DEF bids
<1>8. Present(bids) # {}
  BY <1>5, <1>7 DEF Present
<1>9. committed \in [Participants -> Int]
  BY <1>2, <1>4
<1>10. /\ r \in AuctionState /\ r.window = s.window /\ r.committed = committed
       /\ r.status = s.status /\ r.supply_remaining = s.supply_remaining
       /\ r.clearing_price = s.clearing_price /\ r.fills = s.fills /\ r.resting = s.resting
       /\ r.outcomes = s.outcomes /\ r.limit = s.limit /\ r.now = s.now
  <2>1. Reserve(s, p, price, qty) = [s EXCEPT !.committed = committed]
    BY <1>4 DEF Reserve
  <2> HIDE DEF committed
  <2>2. r = [s EXCEPT !.committed = committed, !.admitted = n]
    BY <1>1, <2>1 DEF AuctionState
  <2>3. n \in Nat
    BY <1>2
  <2> HIDE DEF r, n
  <2> QED BY <1>1, <1>9, <2>2, <2>3 DEF AuctionState
<1> HIDE DEF r
<1>11. Opened(r)
  BY <1>10 DEF Timed, Opened
<1>12. /\ u.window # None /\ WindowBids(u) = u.window.bids
       /\ u.window.index = WindowIndex(BatchWindow, r.now)
       /\ u.window.price = WindowPrice(Schedule, BatchWindow, r.now)
       /\ \A j \in Keys : WindowBids(u)[j] = IF bids[j] = None THEN WindowBids(r)[j] ELSE bids[j]
       /\ Present(u.window.bids) # {}
       /\ u.status = r.status /\ u.supply_remaining = r.supply_remaining
       /\ u.clearing_price = r.clearing_price /\ u.fills = r.fills /\ u.resting = r.resting
       /\ u.outcomes = r.outcomes /\ u.limit = r.limit /\ u.committed = r.committed
       /\ u.now = r.now /\ u \in AuctionState
  BY <1>7, <1>8, <1>10, <1>11, PushParts
<1>13. WindowBids(r) = WindowBids(s)
  BY <1>10 DEF WindowBids
<1>14. t = SetOutcome(u, k, Queued(qty))
  BY DEF QueuedState, r, bids, bid, price
<1> HIDE DEF u
<1>15. t = [u EXCEPT !.outcomes = outcomes]
  <2>1. Merge(NoOutcome, Queued(qty)) = Queued(qty)
    BY MergeWaiting DEF NoOutcome, HasFill
  <2> QED BY <1>10, <1>12, <1>14, <2>1 DEF SetOutcome, AuctionState
<1>16. \A j \in Keys : outcomes[j] = IF j = k THEN Queued(qty) ELSE s.outcomes[j]
  BY <1>2
<1>17. \A q \in Participants :
         committed[q] = IF q = p THEN SatI64(s.committed[p] + cost) ELSE s.committed[q]
  BY <1>2
<1> HIDE DEF outcomes, committed, t, n
<1>18. /\ t.window = u.window /\ t.status = s.status /\ t.supply_remaining = s.supply_remaining
       /\ t.clearing_price = s.clearing_price /\ t.fills = s.fills /\ t.resting = s.resting
       /\ t.outcomes = outcomes /\ t.limit = s.limit /\ t.committed = committed /\ t.now = s.now
  BY <1>10, <1>12, <1>15 DEF AuctionState
<1>19. /\ WindowBids(t) = t.window.bids /\ t.window # None /\ t.window.price = price
       /\ t.window.index = WindowIndex(BatchWindow, s.now) /\ Present(t.window.bids) # {}
       /\ \A j \in Keys : WindowBids(t)[j] = IF j = k THEN bid ELSE WindowBids(s)[j]
  BY <1>5, <1>7, <1>10, <1>12, <1>13, <1>18 DEF WindowBids, price
<1>20. WindowBids(s)[k] = None /\ s.resting[k] = None /\ s.fills[k] = None
  BY <1>1, UnknownHasNothing
<1>21. Kept(t)
  BY <1>1, QueuedKept DEF t
<1>22. Opened(t)
  BY <1>18, <1>19 DEF Opened, price
<1>23. Truthful(t)
  <2> SUFFICES ASSUME NEW j \in Keys
               PROVE  Told(outcomes[j], WindowBids(t)[j], s.resting[j], s.fills[j])
    BY <1>18 DEF Truthful
  <2>1. CASE j = k
    <3>1. Told(Queued(qty), bid, None, None)
      BY <1>5, <1>6 DEF Told, Queued
    <3> QED BY <1>16, <1>19, <1>20, <2>1, <3>1
  <2>2. CASE j # k
    BY <1>1, <1>16, <1>19, <2>2 DEF Truthful
  <2> QED BY <2>1, <2>2
<1>24. ASSUME PricesNotNegative PROVE Balanced(t)
  <2> SUFFICES ASSUME NEW q \in Participants
               PROVE  committed[q] = WindowHold(q, WindowBids(t)) + LadderHold(q, s.resting)
                                       + FillsOwed(q, s.fills)
    BY <1>18 DEF Balanced
  <2> DEFINE more == IF q = p THEN cost ELSE 0
  <2>1. s.committed[q] = WindowHold(q, WindowBids(s)) + LadderHold(q, s.resting) + FillsOwed(q, s.fills)
    BY <1>1, <1>24 DEF Ledger, Balanced
  <2>2. /\ WindowHold(q, WindowBids(s)) \in Nat /\ LadderHold(q, s.resting) \in Nat
        /\ FillsOwed(q, s.fills) \in Nat
    BY <1>1, <1>24, HoldsArePositive DEF Ledger, Fitting, PricesNotNegative
  <2>3. more \in Int
    BY <1>4
  <2>4. \A j \in Keys : WindowPart(q, WindowBids(s))[j] \in Int
    BY <1>2, PartsAreIntegers
  <2>5. \A j \in Keys : WindowPart(q, WindowBids(t))[j] =
          IF j = k THEN WindowPart(q, WindowBids(s))[j] + more ELSE WindowPart(q, WindowBids(s))[j]
    <3> SUFFICES ASSUME NEW j \in Keys
                 PROVE  WindowPart(q, WindowBids(t))[j] =
                          IF j = k THEN WindowPart(q, WindowBids(s))[j] + more
                          ELSE WindowPart(q, WindowBids(s))[j]
      OBVIOUS
    <3>1. CASE j = k
      <4>1. WindowPart(q, WindowBids(s))[j] = 0
        BY <1>20, <3>1 DEF WindowPart, Part
      <4>2. WindowPart(q, WindowBids(t))[j] = IF p = q THEN price * qty ELSE 0
        BY <1>5, <1>6, <1>19, <3>1 DEF WindowPart, Part
      <4>3. WindowPart(q, WindowBids(t))[j] = more
        BY <4>2
      <4> HIDE DEF more
      <4> QED BY <2>3, <3>1, <4>1, <4>3
    <3>2. CASE j # k
      <4>1. WindowBids(t)[j] = WindowBids(s)[j]
        BY <1>19, <3>2
      <4> QED BY <3>2, <4>1 DEF WindowPart
    <3> QED BY <3>1, <3>2
  <2> HIDE DEF more
  <2>6. WindowHold(q, WindowBids(t)) = WindowHold(q, WindowBids(s)) + more
    BY <2>3, <2>4, <2>5, AddedEntry, HoldsAreSums
  <2>7. committed[q] = s.committed[q] + more
    <3>1. SatI64(s.committed[p] + cost) = s.committed[p] + cost
      BY <1>4, <1>24 DEF PricesNotNegative
    <3>2. s.committed[q] \in Int
      BY <1>2
    <3> HIDE DEF cost
    <3>3. CASE q = p
      BY <1>17, <3>1, <3>3 DEF more
    <3>4. CASE q # p
      BY <1>17, <3>2, <3>4 DEF more
    <3> QED BY <3>3, <3>4
  <2> QED BY <2>1, <2>2, <2>3, <2>6, <2>7
<1>25. \A q \in Participants : /\ committed[q] \in I64
                               /\ committed[q] <= s.committed[q] \/ committed[q] <= s.limit[q]
  <2> TAKE q \in Participants
  <2>1. s.committed[q] \in I64 /\ s.committed[q] \in Int
    BY <1>1, <1>2 DEF Bounded
  <2> HIDE DEF cost
  <2>2. s.committed[q] <= s.committed[q]
    BY <2>1
  <2> QED BY <1>4, <1>17, <2>1, <2>2
<1>26. Bounded(t) /\ Fitting(t) /\ Ledger(t)
  <2>1. Bounded(t)
    BY <1>1, <1>18, <1>25 DEF Bounded
  <2>2. Fitting(t)
    BY <1>1, <1>4, <1>6, <1>18, <1>19 DEF Fitting, Fits
  <2>3. Ledger(t)
    BY <1>1, <1>18, <1>24 DEF Ledger, RestsAboveZero
  <2> QED BY <2>1, <2>2, <2>3
<1>27. FairWindow(t)
  <2> SUFFICES ASSUME NEW j \in Present(t.window.bids)
               PROVE  price <= t.window.bids[j].reserve_price
    BY <1>3, <1>18, <1>19 DEF FairWindow
  <2>1. CASE j = k
    BY <1>3, <1>6, <1>19, <2>1 DEF Present
  <2>2. CASE j # k
    <3>1. t.window.bids[j] = WindowBids(s)[j] /\ t.window.bids[j] # None /\ j \in Keys
      BY <1>19, <2>2 DEF Present
    <3>2. s.window # None /\ s.window.bids = WindowBids(s)
      BY <3>1, NothingWaits DEF WindowBids
    <3>3. s.window.price = price
      BY <3>2 DEF Timed, Opened, price
    <3> QED BY <1>1, <3>1, <3>2, <3>3 DEF FairWindow, Present
  <2> QED BY <2>1, <2>2
<1>28. FillsAbove(t)
  <2> SUFFICES ASSUME NEW j \in Keys, s.fills[j] # None
               PROVE  Price(s.now) <= s.fills[j].price /\ price <= s.fills[j].price
    BY <1>18, <1>19 DEF FillsAbove
  <2>1. Price(s.now) <= s.fills[j].price /\ s.fills[j].price \in Int
    BY <1>1, <1>2 DEF FillsAbove, Fill
  <2> QED BY <1>3, <2>1
<1>29. NobodyWaits(t) /\ PriceSeen(t) /\ SoldOutEnds(t)
  BY <1>1, <1>18 DEF NobodyWaits, PriceSeen, SoldOutEnds, IsTerminal
<1>30. ExhaustionTrue(t)
  BY <1>1, <1>16, <1>18 DEF ExhaustionTrue, Rejected, Queued
<1>31. Advances(s, t)
  <2>1. AnswersKept(s, t)
    BY <1>2, <1>16, <1>18, UnknownYields, SameAnswerStands DEF AnswersKept
  <2>2. Onward(s, t)
    BY <1>2, <1>18 DEF Onward, IsTerminal
  <2>3. WithinLimit(s, t)
    BY <1>18, <1>25 DEF WithinLimit
  <2>4. RestsAsBefore(s, t)
    BY <1>18 DEF RestsAsBefore
  <2> QED BY <2>1, <2>2, <2>3, <2>4 DEF Advances
<1>32. Sound(t)
  BY <1>21, <1>23, <1>26, <1>27, <1>28, <1>29, <1>30 DEF Sound, Solid
<1> QED BY <1>18, <1>19, <1>22, <1>31, <1>32 DEF t

(* A window that settles at once does so at the price of now. *)
LEMMA FlushIfUnbatchedSound ==
  ASSUME NEW s, Sound(s), Opened(s)
  PROVE  LET t == FlushIfUnbatched(s)
         IN  /\ Sound(t) /\ Timed(t) /\ t.now = s.now /\ t.limit = s.limit /\ Advances(s, t)
             /\ t.status = "Live" => t.resting = s.resting
<1> DEFINE t == FlushIfUnbatched(s)
<1>1. s \in AuctionState /\ s.now \in U64 /\ s.now \in Nat /\ s.now <= s.now
  BY SoundParts, StateParts
<1>2. CASE BatchWindow = 0
  <2>1. s.window # None => Produced(s, s.window.price)
    <3>1. WindowPrice(Schedule, BatchWindow, s.now) = Price(s.now)
      BY <1>1, <1>2, WindowTiming
    <3>2. s.now \in 0..s.now
      BY <1>1
    <3> QED BY <3>1, <3>2 DEF Opened, Produced
  <2>2. t = FlushWindow(s)
    BY <1>2 DEF FlushIfUnbatched
  <2>3. /\ Sound(t) /\ t.window = None /\ t.now = s.now /\ t.limit = s.limit /\ Advances(s, t)
        /\ t.status = "Live" => t.resting = s.resting
    BY <2>1, <2>2, FlushSound
  <2> QED BY <2>3 DEF Timed, Opened
<1>3. CASE BatchWindow # 0
  <2>1. BatchWindow > 0
    BY <1>3, AuctionAssumption, WidthsAssumption DEF U64
  <2>2. t = s
    BY <1>3 DEF FlushIfUnbatched
  <2>3. Advances(s, s)
    BY <1>1, AdvancesIdle DEF Shrinks
  <2> QED BY <2>1, <2>2, <2>3 DEF Timed
<1> QED BY <1>2, <1>3

LEMMA AdmitTakeSound ==
  ASSUME NEW s, Sound(s), Timed(s), s.status = "Live", NEW p \in Participants, NEW k \in Keys,
         s.outcomes[k] = NoOutcome, NEW qty \in Nat, qty # 0,
         CanReserve(s, p, WindowPrice(Schedule, BatchWindow, s.now), qty)
  PROVE  LET t == AdmitTake(s, p, k, qty) IN Sound(t) /\ Timed(t) /\ Advances(s, t)
<1> DEFINE u == QueuedState(s, p, k, qty)
           t == FlushIfUnbatched(u)
<1>1. AdmitTake(s, p, k, qty) = t
  BY DEF AdmitTake, QueuedState
<1>2. Sound(u) /\ Opened(u) /\ u.limit = s.limit /\ Advances(s, u) /\ Shrinks(s, u)
  BY QueuedSound DEF Shrinks
<1> HIDE DEF u
<1>3. Sound(t) /\ Timed(t) /\ t.limit = u.limit /\ Advances(u, t)
  BY <1>2, FlushIfUnbatchedSound
<1> HIDE DEF t
<1>4. Advances(s, t)
  BY <1>2, <1>3, SoundParts, AdvancesCompose
<1> QED BY <1>1, <1>3, <1>4

(* A resting bid that is admitted: reserved for at its limit, on the ladder. *)
LEMMA AdmitRestingSound ==
  ASSUME NEW s, Sound(s), Timed(s), s.status = "Live", NEW p \in Participants, NEW k \in Keys,
         s.outcomes[k] = NoOutcome, NEW qty \in Nat, qty # 0,
         NEW limit \in Limits, CanReserve(s, p, limit, qty)
  PROVE  LET t == AdmitResting(s, p, k, qty, limit) IN Sound(t) /\ Timed(t) /\ Advances(s, t)
<1> DEFINE cost == limit * qty
           bid == [seq |-> s.admitted, participant |-> p, qty |-> qty, limit |-> limit]
           committed == [s.committed EXCEPT ![p] = SatI64(s.committed[p] + cost)]
           n == s.admitted + 1
           r == [Reserve(s, p, limit, qty) EXCEPT !.admitted = @ + 1]
           resting == [s.resting EXCEPT ![k] = bid]
           outcomes == [s.outcomes EXCEPT ![k] = Resting(qty)]
           t == AdmitResting(s, p, k, qty, limit)
<1>1. /\ s \in AuctionState /\ Kept(s) /\ Truthful(s) /\ Bounded(s) /\ Fitting(s) /\ Ledger(s)
      /\ FairWindow(s) /\ FillsAbove(s) /\ ExhaustionTrue(s) /\ SoldOutEnds(s)
  BY SoundParts
<1>2. /\ s.fills \in [Keys -> Fill \cup {None}] /\ s.outcomes \in [Keys -> Outcomes]
      /\ s.committed \in [Participants -> Int] /\ s.admitted \in Nat
      /\ s.supply_remaining \in Nat /\ s.now \in Nat
      /\ s.resting \in [Keys -> RestingBid \cup {None}]
  BY <1>1, StateParts
<1>0. limit \in Int /\ (PricesNotNegative => 0 <= limit)
  BY AuctionAssumption, WidthsAssumption DEF I64, PricesNotNegative
<1>3. /\ ~Overflows(limit, qty) /\ cost \in Int
      /\ SatI64(s.committed[p] + cost) \in I64 /\ SatI64(s.committed[p] + cost) \in Int
      /\ \/ SatI64(s.committed[p] + cost) <= s.committed[p]
         \/ SatI64(s.committed[p] + cost) <= s.limit[p]
      /\ PricesNotNegative => SatI64(s.committed[p] + cost) = s.committed[p] + cost
  BY <1>0, <1>1, ReserveStaysWithin
<1>4. bid \in RestingBid /\ bid # None
  <2>1. bid \in RestingBid
    BY <1>0, <1>2 DEF RestingBid
  <2> QED BY <2>1, NoneAssumption
<1>5. bid.participant = p /\ bid.qty = qty /\ bid.limit = limit
  OBVIOUS
<1>6. \A j \in Keys : resting[j] = IF j = k THEN bid ELSE s.resting[j]
  BY <1>2
<1>7. \A j \in Keys : outcomes[j] = IF j = k THEN Resting(qty) ELSE s.outcomes[j]
  BY <1>2
<1>8. \A q \in Participants :
        committed[q] = IF q = p THEN SatI64(s.committed[p] + cost) ELSE s.committed[q]
  BY <1>2
<1>9. t = SetOutcome([r EXCEPT !.resting[k] = bid], k, Resting(qty))
  BY DEF AdmitResting
<1>10. Reserve(s, p, limit, qty) = [s EXCEPT !.committed = committed]
  BY DEF Reserve
<1> HIDE DEF bid, committed, n
<1>11. r = [s EXCEPT !.committed = committed, !.admitted = n]
  BY <1>1, <1>10 DEF AuctionState, n
<1> HIDE DEF r
<1>12. [r EXCEPT !.resting[k] = bid]
         = [s EXCEPT !.committed = committed, !.admitted = n, !.resting = resting]
  BY <1>1, <1>11 DEF AuctionState
<1> HIDE DEF resting
<1>13. t = [s EXCEPT !.committed = committed, !.admitted = n, !.resting = resting,
                     !.outcomes = outcomes]
  <2>1. Merge(NoOutcome, Resting(qty)) = Resting(qty)
    BY MergeWaiting DEF NoOutcome, HasFill
  <2> QED BY <1>1, <1>9, <1>12, <2>1 DEF SetOutcome, AuctionState
<1>14. Kept(t)
  BY <1>0, <1>1, AdmitRestingKept
<1> HIDE DEF outcomes, t
<1>15. /\ t.window = s.window /\ t.status = s.status /\ t.supply_remaining = s.supply_remaining
       /\ t.clearing_price = s.clearing_price /\ t.fills = s.fills /\ t.resting = resting
       /\ t.outcomes = outcomes /\ t.limit = s.limit /\ t.committed = committed /\ t.now = s.now
  BY <1>1, <1>13 DEF AuctionState
<1>16. WindowBids(t) = WindowBids(s)
  BY <1>15 DEF WindowBids
<1>17. WindowBids(s)[k] = None /\ s.resting[k] = None /\ s.fills[k] = None
  BY <1>1, UnknownHasNothing
<1>18. Truthful(t)
  <2> SUFFICES ASSUME NEW j \in Keys
               PROVE  Told(outcomes[j], WindowBids(s)[j], resting[j], s.fills[j])
    BY <1>15, <1>16 DEF Truthful
  <2>1. CASE j = k
    <3>1. Told(Resting(qty), None, bid, None)
      BY <1>4, <1>5 DEF Told, Resting
    <3> QED BY <1>6, <1>7, <1>17, <2>1, <3>1
  <2>2. CASE j # k
    BY <1>1, <1>6, <1>7, <2>2 DEF Truthful
  <2> QED BY <2>1, <2>2
<1>19. ASSUME PricesNotNegative PROVE Balanced(t)
  <2> SUFFICES ASSUME NEW q \in Participants
               PROVE  committed[q] = WindowHold(q, WindowBids(s)) + LadderHold(q, resting)
                                       + FillsOwed(q, s.fills)
    BY <1>15, <1>16 DEF Balanced
  <2> DEFINE more == IF q = p THEN cost ELSE 0
  <2>1. s.committed[q] = WindowHold(q, WindowBids(s)) + LadderHold(q, s.resting) + FillsOwed(q, s.fills)
    BY <1>1, <1>19 DEF Ledger, Balanced
  <2>2. /\ WindowHold(q, WindowBids(s)) \in Nat /\ LadderHold(q, s.resting) \in Nat
        /\ FillsOwed(q, s.fills) \in Nat
    BY <1>1, <1>19, HoldsArePositive DEF Ledger, Fitting, PricesNotNegative
  <2>3. more \in Int
    BY <1>3
  <2>4. \A j \in Keys : LadderPart(q, s.resting)[j] \in Int
    BY <1>2, PartsAreIntegers
  <2>5. \A j \in Keys : LadderPart(q, resting)[j] =
          IF j = k THEN LadderPart(q, s.resting)[j] + more ELSE LadderPart(q, s.resting)[j]
    <3> SUFFICES ASSUME NEW j \in Keys
                 PROVE  LadderPart(q, resting)[j] =
                          IF j = k THEN LadderPart(q, s.resting)[j] + more
                          ELSE LadderPart(q, s.resting)[j]
      OBVIOUS
    <3>1. CASE j = k
      <4>1. LadderPart(q, s.resting)[j] = 0
        BY <1>17, <3>1 DEF LadderPart, Part
      <4>2. LadderPart(q, resting)[j] = IF p = q THEN limit * qty ELSE 0
        BY <1>4, <1>5, <1>6, <3>1 DEF LadderPart, Part
      <4>3. LadderPart(q, resting)[j] = more
        BY <4>2
      <4> HIDE DEF more
      <4> QED BY <2>3, <3>1, <4>1, <4>3
    <3>2. CASE j # k
      <4>1. resting[j] = s.resting[j]
        BY <1>6, <3>2
      <4> QED BY <3>2, <4>1 DEF LadderPart
    <3> QED BY <3>1, <3>2
  <2> HIDE DEF more
  <2>6. LadderHold(q, resting) = LadderHold(q, s.resting) + more
    BY <2>3, <2>4, <2>5, AddedEntry, HoldsAreSums
  <2>7. committed[q] = s.committed[q] + more
    <3>1. SatI64(s.committed[p] + cost) = s.committed[p] + cost
      BY <1>3, <1>19
    <3>2. s.committed[q] \in Int
      BY <1>2
    <3> HIDE DEF cost
    <3>3. CASE q = p
      BY <1>8, <3>1, <3>3 DEF more
    <3>4. CASE q # p
      BY <1>8, <3>2, <3>4 DEF more
    <3> QED BY <3>3, <3>4
  <2> QED BY <2>1, <2>2, <2>3, <2>6, <2>7
<1>20. \A q \in Participants : /\ committed[q] \in I64
                               /\ committed[q] <= s.committed[q] \/ committed[q] <= s.limit[q]
  <2> TAKE q \in Participants
  <2>1. s.committed[q] \in I64 /\ s.committed[q] \in Int
    BY <1>1, <1>2 DEF Bounded
  <2> HIDE DEF cost
  <2>2. s.committed[q] <= s.committed[q]
    BY <2>1
  <2> QED BY <1>3, <1>8, <2>1, <2>2
<1>21. Bounded(t) /\ Fitting(t) /\ Ledger(t)
  <2>1. Bounded(t)
    BY <1>1, <1>15, <1>20 DEF Bounded
  <2>2. Fitting(t)
    BY <1>1, <1>3, <1>5, <1>6, <1>15, <1>16 DEF Fitting, Fits
  <2>3. Ledger(t)
    BY <1>0, <1>1, <1>5, <1>6, <1>15, <1>19 DEF Ledger, RestsAboveZero
  <2> QED BY <2>1, <2>2, <2>3
<1>22. /\ FairWindow(t) /\ FillsAbove(t) /\ NobodyWaits(t) /\ PriceSeen(t) /\ SoldOutEnds(t)
       /\ Timed(t)
  BY <1>1, <1>15 DEF FairWindow, FillsAbove, NobodyWaits, PriceSeen, SoldOutEnds, IsTerminal,
       Timed, Opened
<1>23. ExhaustionTrue(t)
  BY <1>1, <1>7, <1>15 DEF ExhaustionTrue, Rejected, Resting
<1>24. Advances(s, t)
  <2>1. AnswersKept(s, t)
    BY <1>2, <1>7, <1>15, UnknownYields, SameAnswerStands DEF AnswersKept
  <2>2. Onward(s, t)
    BY <1>2, <1>15 DEF Onward, IsTerminal
  <2>3. WithinLimit(s, t)
    BY <1>15, <1>20 DEF WithinLimit
  <2>4. RestsAsBefore(s, t)
    BY <1>6, <1>15 DEF RestsAsBefore
  <2> QED BY <2>1, <2>2, <2>3, <2>4 DEF Advances
<1>25. Sound(t)
  BY <1>14, <1>18, <1>21, <1>22, <1>23 DEF Sound, Solid
<1> QED BY <1>22, <1>24, <1>25 DEF t

(* A withdrawal returns exactly what the bid reserved. *)
LEMMA OnCancelRestingSound ==
  ASSUME NEW s, Sound(s), Timed(s), NEW p \in Participants, NEW k \in Keys
  PROVE  LET t == OnCancelResting(s, p, k) IN Sound(t) /\ Timed(t) /\ Advances(s, t)
<1> DEFINE rest == s.resting[k]
           cost == rest.limit * rest.qty
           resting == [s.resting EXCEPT ![k] = None]
           lowered == SatI64(s.committed[p] - cost)
           committed == [s.committed EXCEPT ![p] = lowered]
           outcomes == [s.outcomes EXCEPT ![k] = Withdrawn]
           t == OnCancelResting(s, p, k)
<1>1. /\ s \in AuctionState /\ Kept(s) /\ Truthful(s) /\ Bounded(s) /\ Fitting(s) /\ Ledger(s)
      /\ FairWindow(s) /\ FillsAbove(s) /\ ExhaustionTrue(s) /\ SoldOutEnds(s) /\ NobodyWaits(s)
  BY SoundParts
<1>2. /\ s.fills \in [Keys -> Fill \cup {None}] /\ s.outcomes \in [Keys -> Outcomes]
      /\ s.committed \in [Participants -> Int] /\ s.supply_remaining \in Nat /\ s.now \in Nat
      /\ s.resting \in [Keys -> RestingBid \cup {None}] /\ s.now <= s.now
  BY <1>1, StateParts
<1>3. CASE ~(rest # None /\ rest.participant = p)
  <2>1. t = s
    BY <1>3 DEF OnCancelResting
  <2>2. Shrinks(s, s)
    BY DEF Shrinks
  <2> QED BY <1>1, <1>2, <2>1, <2>2, AdvancesIdle
<1>4. CASE rest # None /\ rest.participant = p
  <2>1. /\ WindowBids(s)[k] = None /\ s.outcomes[k] = Resting(rest.qty) /\ s.fills[k] = None
    <3>1. Told(s.outcomes[k], WindowBids(s)[k], rest, s.fills[k])
      BY <1>1 DEF Truthful
    <3> QED BY <1>4, <3>1 DEF Told, Resting, Filled
  <2>2. rest.limit \in Int /\ rest.qty \in Nat
    BY <1>2, <1>4 DEF RestingBid
  <2>3. /\ cost \in Int /\ (0 <= rest.limit => cost \in Nat)
        /\ (PricesNotNegative => 0 <= rest.limit)
    <3>1. cost \in Int
      BY <2>2
    <3>2. 0 <= rest.limit => cost \in Nat
      BY <2>2, MulMonotonic
    <3>3. PricesNotNegative => 0 <= rest.limit
      BY <1>1, <1>4 DEF Ledger, RestsAboveZero
    <3> QED BY <3>1, <3>2, <3>3
  <2>4. t = [s EXCEPT !.resting = resting, !.committed = committed, !.outcomes = outcomes]
    <3>1. Merge(s.outcomes[k], Withdrawn) = Withdrawn
      BY <2>1, MergeWaiting DEF Resting, HasFill
    <3>2. t = SetOutcome([s EXCEPT !.resting[k] = None, !.committed[p] = lowered], k, Withdrawn)
      BY <1>1, <1>4 DEF OnCancelResting, AuctionState
    <3>3. [s EXCEPT !.resting[k] = None, !.committed[p] = lowered]
            = [s EXCEPT !.resting = resting, !.committed = committed]
      BY <1>1 DEF AuctionState
    <3> HIDE DEF resting, committed
    <3> QED BY <1>1, <3>1, <3>2, <3>3 DEF SetOutcome, AuctionState
  <2>5. \A j \in Keys : /\ resting[j] = IF j = k THEN None ELSE s.resting[j]
                        /\ outcomes[j] = IF j = k THEN Withdrawn ELSE s.outcomes[j]
    BY <1>2
  <2>6. \A q \in Participants : committed[q] = IF q = p THEN lowered ELSE s.committed[q]
    BY <1>2
  <2>7. Kept(t)
    BY <1>1, OnCancelRestingKept
  <2> HIDE DEF resting, outcomes, committed, lowered, t
  <2>8. /\ t.window = s.window /\ t.status = s.status /\ t.supply_remaining = s.supply_remaining
        /\ t.clearing_price = s.clearing_price /\ t.fills = s.fills /\ t.resting = resting
        /\ t.outcomes = outcomes /\ t.limit = s.limit /\ t.committed = committed /\ t.now = s.now
    BY <1>1, <2>4 DEF AuctionState
  <2>9. WindowBids(t) = WindowBids(s)
    BY <2>8 DEF WindowBids
  <2>10. Truthful(t)
    <3> SUFFICES ASSUME NEW j \in Keys
                 PROVE  Told(outcomes[j], WindowBids(s)[j], resting[j], s.fills[j])
      BY <2>8, <2>9 DEF Truthful
    <3>1. CASE j = k
      <4>1. Told(Withdrawn, None, None, None)
        BY DEF Told, Withdrawn
      <4> QED BY <2>1, <2>5, <3>1, <4>1
    <3>2. CASE j # k
      BY <1>1, <2>5, <3>2 DEF Truthful
    <3> QED BY <3>1, <3>2
  <2>11. ASSUME PricesNotNegative, NEW q \in Participants
         PROVE  /\ committed[q] = WindowHold(q, WindowBids(s)) + LadderHold(q, resting)
                                    + FillsOwed(q, s.fills)
    <3> DEFINE less == IF q = p THEN 0 - cost ELSE 0
    <3>1. s.committed[q] = WindowHold(q, WindowBids(s)) + LadderHold(q, s.resting) + FillsOwed(q, s.fills)
      BY <1>1, <2>11 DEF Ledger, Balanced
    <3>2. /\ WindowHold(q, WindowBids(s)) \in Nat /\ LadderHold(q, s.resting) \in Nat
          /\ FillsOwed(q, s.fills) \in Nat
      BY <1>1, <2>11, HoldsArePositive DEF Ledger, Fitting, PricesNotNegative
    <3>3. less \in Int
      BY <2>3
    <3>4. \A j \in Keys : LadderPart(q, s.resting)[j] \in Int
      BY <1>2, PartsAreIntegers
    <3>5. \A j \in Keys : LadderPart(q, resting)[j] =
            IF j = k THEN LadderPart(q, s.resting)[j] + less ELSE LadderPart(q, s.resting)[j]
      <4> SUFFICES ASSUME NEW j \in Keys
                   PROVE  LadderPart(q, resting)[j] =
                            IF j = k THEN LadderPart(q, s.resting)[j] + less
                            ELSE LadderPart(q, s.resting)[j]
        OBVIOUS
      <4>1. CASE j = k
        <5>1. LadderPart(q, resting)[j] = 0
          BY <2>5, <4>1 DEF LadderPart, Part
        <5>2. LadderPart(q, s.resting)[j] = IF p = q THEN cost ELSE 0
          BY <1>4, <4>1 DEF LadderPart, Part
        <5> HIDE DEF cost
        <5>3. LadderPart(q, s.resting)[j] + less = 0
          BY <2>3, <5>2
        <5> QED BY <4>1, <5>1, <5>3
      <4>2. CASE j # k
        <5>1. resting[j] = s.resting[j]
          BY <2>5, <4>2
        <5> QED BY <4>2, <5>1 DEF LadderPart
      <4> QED BY <4>1, <4>2
    <3> HIDE DEF less
    <3>6. LadderHold(q, resting) = LadderHold(q, s.resting) + less
      BY <3>3, <3>4, <3>5, AddedEntry, HoldsAreSums
    <3>7. LadderHold(q, resting) \in Nat
      <4>1. \A j \in Keys : LadderPart(q, resting)[j] \in Nat
        <5> TAKE j \in Keys
        <5>1. CASE resting[j] = None
          BY <5>1 DEF LadderPart, Part
        <5>2. CASE resting[j] # None
          <6>1. resting[j] = s.resting[j]
            BY <2>5, <5>2
          <6>2. s.resting[j].limit \in Int /\ s.resting[j].qty \in Nat
            BY <1>2, <5>2, <6>1 DEF RestingBid
          <6>3. s.resting[j].limit \in Nat
            BY <1>1, <2>11, <5>2, <6>1, <6>2 DEF Ledger, RestsAboveZero
          <6>4. s.resting[j].limit * s.resting[j].qty \in Nat
            BY <6>2, <6>3
          <6> QED BY <5>2, <6>1, <6>4 DEF LadderPart, Part
        <5> QED BY <5>1, <5>2
      <4> QED BY <4>1, KeysAssumption, SumNat, HoldsAreSums
    <3>8. s.committed[q] \in Int /\ s.committed[q] <= I64Max /\ I64Max \in Nat
      BY <1>1, WidthsAssumption DEF Bounded, I64
    <3>9. committed[q] = s.committed[q] + less
      <4>1. CASE q = p
        <5>1. cost \in Nat /\ less = 0 - cost
          BY <2>3, <2>11, <4>1 DEF less
        <5> HIDE DEF cost
        <5>2. s.committed[q] - cost \in I64
          BY <3>1, <3>2, <3>6, <3>7, <3>8, <5>1 DEF I64
        <5>3. lowered = s.committed[q] - cost
          BY <4>1, <5>1, <3>8, <5>2, Saturation DEF lowered
        <5> QED BY <2>6, <3>8, <4>1, <5>1, <5>3
      <4>2. CASE q # p
        BY <2>6, <3>8, <4>2 DEF less
      <4> QED BY <4>1, <4>2
    <3> QED BY <3>1, <3>2, <3>3, <3>6, <3>9
  <2>12. Bounded(t)
    <3>1. lowered \in I64
      <4>1. s.committed[p] \in Int
        BY <1>2
      <4> HIDE DEF cost
      <4> QED BY <2>3, <4>1, Saturation DEF lowered
    <3> QED BY <1>1, <2>6, <2>8, <3>1 DEF Bounded
  <2>13. Fitting(t)
    BY <1>1, <2>5, <2>8, <2>9 DEF Fitting, Fits
  <2>14. Ledger(t)
    BY <1>1, <2>5, <2>8, <2>9, <2>11 DEF Ledger, Balanced, RestsAboveZero
  <2>15. /\ FairWindow(t) /\ FillsAbove(t) /\ NobodyWaits(t) /\ PriceSeen(t) /\ SoldOutEnds(t)
         /\ Timed(t)
    BY <1>1, <2>5, <2>8, SoundParts DEF FairWindow, FillsAbove, NobodyWaits, PriceSeen, Produced,
         SoldOutEnds, IsTerminal, Timed, Opened
  <2>16. ExhaustionTrue(t)
    BY <1>1, <2>5, <2>8 DEF ExhaustionTrue, Rejected, Withdrawn
  <2>17. Advances(s, t)
    <3>1. AnswersKept(s, t)
      <4> SUFFICES ASSUME NEW j \in Keys PROVE AnswerStands(s.outcomes[j], outcomes[j])
        BY <2>8 DEF AnswersKept
      <4>1. AnswerStands(s.outcomes[k], Withdrawn)
        BY <1>2, <2>1, StandsByKind DEF Resting, Withdrawn, HasFill
      <4> QED BY <1>2, <2>5, <4>1, SameAnswerStands
    <3>2. ~IsTerminal(s)
      BY <1>1, <1>4 DEF NobodyWaits
    <3>3. Onward(s, t)
      BY <1>2, <2>8, <3>2 DEF Onward
    <3>4. WithinLimit(s, t)
      <4> SUFFICES ASSUME NEW q \in Participants
                   PROVE  committed[q] <= s.committed[q] \/ Ends(s, t, q)
        BY <2>8 DEF WithinLimit
      <4>1. CASE q # p
        BY <1>2, <2>6, <4>1
      <4>2. CASE q = p /\ 0 <= rest.limit
        <5>1. s.committed[p] \in I64 /\ cost \in Nat
          BY <1>1, <2>3, <4>2 DEF Bounded
        <5>2. lowered <= s.committed[p]
          BY <5>1, LowerSaturates DEF lowered
        <5> QED BY <2>6, <4>2, <5>2
      <4>3. CASE q = p /\ ~(0 <= rest.limit)
        <5>1. rest.limit < 0
          BY <2>2, <4>3
        <5>2. t.resting[k] = None
          BY <2>5, <2>8
        <5> QED BY <1>4, <4>3, <5>1, <5>2 DEF Ends
      <4> QED BY <4>1, <4>2, <4>3
    <3>5. RestsAsBefore(s, t)
      BY <2>5, <2>8 DEF RestsAsBefore
    <3> QED BY <3>1, <3>3, <3>4, <3>5 DEF Advances
  <2>18. Sound(t)
    BY <2>7, <2>10, <2>12, <2>13, <2>14, <2>15, <2>16 DEF Sound, Solid
  <2> QED BY <2>15, <2>17, <2>18 DEF t
<1> QED BY <1>3, <1>4

(***************************************************************************)
(* Resting bids the clock has reached join the window, where they reserve  *)
(* what they reserved on the ladder; the window costs no more than the     *)
(* clock, so no more than their limits.                                    *)
(***************************************************************************)
TriggeredState(s) ==
  PushPending(DrainTriggered(s, Price(s.now)), TriggeredBids(s, Price(s.now)))

LEMMA TriggerSound ==
  ASSUME NEW s, Sound(s), Timed(s), s.status = "Live"
  PROVE  LET t == TriggeredState(s)
         IN  /\ Sound(t) /\ Opened(t) /\ t.limit = s.limit /\ t.now = s.now /\ Advances(s, t)
             /\ Shrinks(s, t)
<1> DEFINE clock == Price(s.now)
           price == WindowPrice(Schedule, BatchWindow, s.now)
           hit(k) == IsTriggered(s.resting[k], clock)
           bids == TriggeredBids(s, clock)
           resting == [k \in Keys |-> IF hit(k) THEN None ELSE s.resting[k]]
           d == DrainTriggered(s, clock)
           t == PushPending(d, bids)
<1>1. /\ s \in AuctionState /\ Kept(s) /\ Truthful(s) /\ Bounded(s) /\ Fitting(s) /\ Ledger(s)
      /\ FairWindow(s) /\ FillsAbove(s) /\ ExhaustionTrue(s) /\ SoldOutEnds(s)
  BY SoundParts
<1>2. /\ s.fills \in [Keys -> Fill \cup {None}] /\ s.outcomes \in [Keys -> Outcomes]
      /\ s.committed \in [Participants -> Int] /\ s.supply_remaining \in Nat
      /\ s.now \in Nat /\ s.now \in U64 /\ s.now <= s.now
      /\ s.resting \in [Keys -> RestingBid \cup {None}]
      /\ WindowBids(s) \in [Keys -> PendingBid \cup {None}]
  BY <1>1, StateParts
<1>3. /\ price \in Int /\ Schedule.floor_price <= price /\ price <= clock
      /\ clock \in Int /\ (FloorNotNegative => 0 <= clock)
  BY <1>2, WindowTiming, ClockPrice
<1>4. TriggeredState(s) = t
  BY DEF TriggeredState
<1>5. Kept(t)
  BY <1>1, <1>3, TriggerKept
<1>6. /\ resting \in [Keys -> RestingBid \cup {None}]
      /\ \A k \in Keys : resting[k] = IF hit(k) THEN None ELSE s.resting[k]
  BY <1>2
<1>7. ASSUME NEW k \in Keys
      PROVE  /\ ~hit(k) => bids[k] = None
             /\ hit(k) => /\ bids[k] \in PendingBid /\ bids[k] # None /\ s.resting[k] # None
                          /\ bids[k].participant = s.resting[k].participant
                          /\ bids[k].qty = s.resting[k].qty
                          /\ bids[k].reserve_price = s.resting[k].limit
                          /\ clock <= s.resting[k].limit /\ s.resting[k].limit \in Int
  <2> DEFINE b == s.resting[k]
  <2>1. CASE ~hit(k)
    BY <2>1 DEF TriggeredBids
  <2>2. CASE hit(k)
    <3>1. b # None /\ b.limit >= clock
      BY <2>2 DEF IsTriggered
    <3>2. b \in RestingBid
      BY <1>2, <3>1
    <3>3. bids[k] = [seq |-> b.seq, participant |-> b.participant, qty |-> b.qty,
                     priority |-> b.limit, reserve_price |-> b.limit, resting_limit |-> b.limit]
      BY <2>2, <3>1 DEF TriggeredBids
    <3> HIDE DEF b, bids
    <3>4. /\ bids[k] \in PendingBid /\ bids[k].participant = b.participant
          /\ bids[k].qty = b.qty /\ bids[k].reserve_price = b.limit /\ b.limit \in Int
      BY <3>2, <3>3 DEF RestingBid, PendingBid
    <3>5. bids[k] # None
      BY <3>4, NoneAssumption
    <3> QED BY <1>3, <2>2, <3>1, <3>4, <3>5 DEF b
  <2> QED BY <2>1, <2>2
<1>8. bids \in [Keys -> PendingBid \cup {None}]
  BY <1>7 DEF TriggeredBids
<1>9. d = [s EXCEPT !.resting = resting]
  BY DEF DrainTriggered
<1> HIDE DEF bids, resting, d
<1>10. /\ d \in AuctionState /\ d.window = s.window /\ d.committed = s.committed
       /\ d.status = s.status /\ d.supply_remaining = s.supply_remaining
       /\ d.clearing_price = s.clearing_price /\ d.fills = s.fills /\ d.resting = resting
       /\ d.outcomes = s.outcomes /\ d.limit = s.limit /\ d.now = s.now
  BY <1>1, <1>6, <1>9 DEF AuctionState
<1>11. Opened(d) /\ WindowBids(d) = WindowBids(s)
  BY <1>10 DEF Timed, Opened, WindowBids
<1>12. CASE Present(bids) = {}
  <2>1. t = d
    BY <1>12 DEF PushPending
  <2>2. \A k \in Keys : ~hit(k)
    BY <1>7, <1>12 DEF Present
  <2>3. resting = s.resting
    BY <1>2, <1>6, <2>2
  <2>4. d = s
    BY <1>1, <1>9, <2>3 DEF AuctionState
  <2>5. Shrinks(s, s)
    BY DEF Shrinks
  <2> QED BY <1>1, <1>2, <1>4, <2>1, <2>4, <2>5, AdvancesIdle DEF Timed
<1>13. CASE Present(bids) # {}
  <2>1. /\ t.window # None /\ WindowBids(t) = t.window.bids
        /\ t.window.index = WindowIndex(BatchWindow, d.now)
        /\ t.window.price = WindowPrice(Schedule, BatchWindow, d.now)
        /\ \A j \in Keys : WindowBids(t)[j] = IF bids[j] = None THEN WindowBids(d)[j] ELSE bids[j]
        /\ Present(t.window.bids) # {}
        /\ t.status = d.status /\ t.supply_remaining = d.supply_remaining
        /\ t.clearing_price = d.clearing_price /\ t.fills = d.fills /\ t.resting = d.resting
        /\ t.outcomes = d.outcomes /\ t.limit = d.limit /\ t.committed = d.committed
        /\ t.now = d.now /\ t \in AuctionState
    BY <1>8, <1>10, <1>11, <1>13, PushParts
  <2> HIDE DEF t
  <2>2. /\ t.status = s.status /\ t.supply_remaining = s.supply_remaining
        /\ t.clearing_price = s.clearing_price /\ t.fills = s.fills /\ t.resting = resting
        /\ t.outcomes = s.outcomes /\ t.limit = s.limit /\ t.committed = s.committed
        /\ t.now = s.now /\ t.window.price = price
    BY <1>10, <2>1
  <2>3. WindowBids(t) \in [Keys -> PendingBid \cup {None}]
    BY <2>1, StateParts
  <2>4. ASSUME NEW k \in Keys
        PROVE  /\ hit(k) => WindowBids(s)[k] = None /\ WindowBids(t)[k] = bids[k]
                            /\ s.outcomes[k] = Resting(s.resting[k].qty) /\ s.fills[k] = None
               /\ ~hit(k) => WindowBids(t)[k] = WindowBids(s)[k] /\ resting[k] = s.resting[k]
    <3>1. Told(s.outcomes[k], WindowBids(s)[k], s.resting[k], s.fills[k])
      BY <1>1 DEF Truthful
    <3>2. hit(k) => s.resting[k] # None
      BY <1>7
    <3>3. hit(k) => /\ WindowBids(s)[k] = None
                    /\ s.outcomes[k] = Resting(s.resting[k].qty) /\ s.fills[k] = None
      BY <3>1, <3>2 DEF Told, Resting, Filled
    <3> QED BY <1>6, <1>7, <1>11, <2>1, <3>3
  <2>5. Opened(t)
    BY <1>10, <2>1 DEF Opened
  <2>6. Truthful(t)
    <3> SUFFICES ASSUME NEW k \in Keys
                 PROVE  Told(s.outcomes[k], WindowBids(t)[k], resting[k], s.fills[k])
      BY <2>2 DEF Truthful
    <3>1. CASE hit(k)
      <4>1. resting[k] = None /\ WindowBids(t)[k] # None /\ WindowBids(t)[k].qty = s.resting[k].qty
        BY <1>6, <1>7, <2>4, <3>1
      <4>2. s.outcomes[k] = Resting(s.resting[k].qty) /\ s.fills[k] = None
        BY <2>4, <3>1
      <4> QED BY <4>1, <4>2 DEF Told, Resting
    <3>2. CASE ~hit(k)
      BY <1>1, <2>4, <3>2 DEF Truthful
    <3> QED BY <3>1, <3>2
  <2>7. ASSUME PricesNotNegative PROVE Balanced(t)
    <3> SUFFICES ASSUME NEW q \in Participants
                 PROVE  s.committed[q] = WindowHold(q, WindowBids(t)) + LadderHold(q, resting)
                                           + FillsOwed(q, s.fills)
      BY <2>2 DEF Balanced
    <3> DEFINE w0 == WindowPart(q, WindowBids(s))
               w1 == WindowPart(q, WindowBids(t))
               l0 == LadderPart(q, s.resting)
               l1 == LadderPart(q, resting)
               sum == [k \in Keys |-> w0[k] + l0[k]]
    <3>1. s.committed[q] = WindowHold(q, WindowBids(s)) + LadderHold(q, s.resting) + FillsOwed(q, s.fills)
      BY <1>1, <2>7 DEF Ledger, Balanced
    <3>2. \A k \in Keys : w0[k] \in Int /\ w1[k] \in Int /\ l0[k] \in Int /\ l1[k] \in Int
      BY <1>2, <1>6, <2>3, PartsAreIntegers
    <3>3. ASSUME NEW k \in Keys
          PROVE  sum[k] = w1[k] + l1[k]
      <4>1. sum[k] = w0[k] + l0[k] /\ w0[k] \in Int /\ w1[k] \in Int /\ l0[k] \in Int /\ l1[k] \in Int
        BY <3>2
      <4>2. CASE hit(k)
        <5>1. w0[k] = 0 /\ l1[k] = 0
          BY <1>6, <2>4, <4>2 DEF WindowPart, LadderPart, Part
        <5>2. w1[k] = l0[k]
          <6>1. /\ bids[k] # None /\ s.resting[k] # None /\ WindowBids(t)[k] = bids[k]
                /\ bids[k].participant = s.resting[k].participant
                /\ bids[k].qty = s.resting[k].qty
                /\ bids[k].reserve_price = s.resting[k].limit
            BY <1>7, <2>4, <4>2
          <6> QED BY <6>1 DEF WindowPart, LadderPart, Part
        <5> HIDE DEF w0, w1, l0, l1, sum
        <5> QED BY <4>1, <5>1, <5>2
      <4>3. CASE ~hit(k)
        <5>1. WindowBids(t)[k] = WindowBids(s)[k] /\ resting[k] = s.resting[k]
          BY <2>4, <4>3
        <5>2. w1[k] = w0[k] /\ l1[k] = l0[k]
          BY <5>1 DEF WindowPart, LadderPart
        <5> HIDE DEF w0, w1, l0, l1, sum
        <5> QED BY <4>1, <5>2
      <4> QED BY <4>2, <4>3
    <3>4. SumFunctionOnSet(sum, Keys) = SumFunctionOnSet(w0, Keys) + SumFunctionOnSet(l0, Keys)
      <4>1. \A k \in Keys : sum[k] = w0[k] + l0[k]
        OBVIOUS
      <4> HIDE DEF w0, l0, sum
      <4> QED BY <3>2, <4>1, KeysAssumption, SumAdd
    <3>5. SumFunctionOnSet(sum, Keys) = SumFunctionOnSet(w1, Keys) + SumFunctionOnSet(l1, Keys)
      <4> HIDE DEF w0, l0, w1, l1, sum
      <4> QED BY <3>2, <3>3, KeysAssumption, SumAdd
    <3>6. /\ WindowHold(q, WindowBids(s)) = SumFunctionOnSet(w0, Keys)
          /\ WindowHold(q, WindowBids(t)) = SumFunctionOnSet(w1, Keys)
          /\ LadderHold(q, s.resting) = SumFunctionOnSet(l0, Keys)
          /\ LadderHold(q, resting) = SumFunctionOnSet(l1, Keys)
      BY HoldsAreSums
    <3> HIDE DEF w0, l0, w1, l1, sum
    <3> QED BY <3>1, <3>4, <3>5, <3>6
  <2>8. Bounded(t) /\ Fitting(t) /\ Ledger(t)
    <3>1. Bounded(t)
      BY <1>1, <2>2 DEF Bounded
    <3>2. Ledger(t)
      BY <1>1, <1>6, <2>2, <2>7 DEF Ledger, RestsAboveZero
    <3>3. ASSUME FloorNotNegative, NEW k \in Keys
          PROVE  /\ resting[k] # None => ~Overflows(resting[k].limit, resting[k].qty)
                 /\ WindowBids(t)[k] # None =>
                      Payable(WindowBids(t)[k].reserve_price, WindowBids(t)[k].qty)
      <4>1. /\ s.resting[k] # None => ~Overflows(s.resting[k].limit, s.resting[k].qty)
            /\ WindowBids(s)[k] # None =>
                 Payable(WindowBids(s)[k].reserve_price, WindowBids(s)[k].qty)
        BY <1>1, <3>3 DEF Fitting, Fits
      <4>2. CASE hit(k)
        <5> DEFINE limit == s.resting[k].limit
                   qty == s.resting[k].qty
        <5>1. /\ clock <= limit /\ limit \in Int /\ qty \in Nat /\ s.resting[k] # None
              /\ resting[k] = None /\ WindowBids(t)[k] = bids[k]
              /\ bids[k].reserve_price = limit /\ bids[k].qty = qty
          BY <1>2, <1>6, <1>7, <2>4, <4>2 DEF RestingBid
        <5>2. ~Overflows(limit, qty)
          BY <4>1, <5>1
        <5> HIDE DEF limit, qty, clock
        <5>3. 0 <= limit
          BY <1>3, <3>3, <5>1
        <5>4. limit * qty <= I64Max /\ qty <= I64Max
          BY <5>1, <5>2, WidthsAssumption DEF Overflows, I64
        <5> QED BY <5>1, <5>3, <5>4 DEF Payable
      <4>3. CASE ~hit(k)
        BY <2>4, <4>1, <4>3
      <4> QED BY <4>2, <4>3
    <3>4. Fitting(t)
      BY <1>1, <2>2, <3>3 DEF Fitting, Fits
    <3> QED BY <3>1, <3>2, <3>4
  <2>9. FairWindow(t)
    <3> SUFFICES ASSUME NEW k \in Present(t.window.bids)
                 PROVE  price <= t.window.bids[k].reserve_price
      BY <1>3, <2>1, <2>2 DEF FairWindow
    <3>1. k \in Keys /\ t.window.bids[k] = WindowBids(t)[k] /\ WindowBids(t)[k] # None
      BY <2>1 DEF Present
    <3>2. CASE hit(k)
      <4>1. t.window.bids[k].reserve_price = s.resting[k].limit
        BY <1>7, <2>4, <3>1, <3>2
      <4>2. clock <= s.resting[k].limit /\ s.resting[k].limit \in Int
        BY <1>7, <3>1, <3>2
      <4> HIDE DEF price, clock
      <4> QED BY <1>3, <4>1, <4>2
    <3>3. CASE ~hit(k)
      <4>1. t.window.bids[k] = WindowBids(s)[k] /\ WindowBids(s)[k] # None
        BY <2>4, <3>1, <3>3
      <4>2. s.window # None /\ s.window.bids = WindowBids(s)
        BY <3>1, <4>1, NothingWaits DEF WindowBids
      <4>3. s.window.price = price
        BY <4>2 DEF Timed, Opened
      <4> QED BY <1>1, <3>1, <4>1, <4>2, <4>3 DEF FairWindow, Present
    <3> QED BY <3>2, <3>3
  <2>10. FillsAbove(t)
    <3> SUFFICES ASSUME NEW j \in Keys, s.fills[j] # None
                 PROVE  clock <= s.fills[j].price /\ price <= s.fills[j].price
      BY <2>1, <2>2 DEF FillsAbove
    <3>1. clock <= s.fills[j].price /\ s.fills[j].price \in Int
      BY <1>1, <1>2 DEF FillsAbove, Fill
    <3> HIDE DEF price, clock
    <3> QED BY <1>3, <3>1
  <2>11. NobodyWaits(t) /\ PriceSeen(t) /\ SoldOutEnds(t) /\ ExhaustionTrue(t)
    BY <1>1, <2>2 DEF NobodyWaits, PriceSeen, SoldOutEnds, IsTerminal, ExhaustionTrue
  <2>12. Advances(s, t) /\ Shrinks(s, t)
    <3>1. Shrinks(s, t)
      BY <1>6, <2>2 DEF Shrinks
    <3> QED BY <1>1, <1>2, <2>1, <2>2, <3>1, AdvancesIdle
  <2>13. Sound(t)
    BY <1>5, <2>6, <2>8, <2>9, <2>10, <2>11 DEF Sound, Solid
  <2> QED BY <1>4, <2>2, <2>5, <2>12, <2>13
<1> QED BY <1>12, <1>13

(* At the floor the window that is open costs the floor, and so does the rest. *)
LEMMA CloseAtFloorSound ==
  ASSUME NEW s, Sound(s), Timed(s), s.status = "Live", AtFloor(Schedule, s.now)
  PROVE  LET t == CloseAtFloor(s)
         IN  Sound(t) /\ Timed(t) /\ t.limit = s.limit /\ Advances(s, t)
<1> DEFINE floor == Schedule.floor_price
           u == FlushWindow(s)
           t == CloseAtFloor(s)
<1>1. s \in AuctionState /\ s.now \in U64 /\ s.now \in Nat /\ s.now <= s.now /\ s.now \in 0..s.now
  BY SoundParts, StateParts
<1>2. Price(s.now) = floor /\ floor \in Int
  BY <1>1, ClockPrice DEF AtFloor, Price
<1>3. s.window # None => Produced(s, s.window.price)
  <2>1. /\ WindowPrice(Schedule, BatchWindow, s.now) \in Int
        /\ floor <= WindowPrice(Schedule, BatchWindow, s.now)
        /\ WindowPrice(Schedule, BatchWindow, s.now) <= Price(s.now)
    BY <1>1, WindowTiming
  <2>2. WindowPrice(Schedule, BatchWindow, s.now) = Price(s.now)
    BY <1>2, <2>1
  <2> QED BY <1>1, <2>2 DEF Timed, Opened, Produced
<1>4. /\ Sound(u) /\ u.window = None /\ u.now = s.now /\ u.limit = s.limit /\ Advances(s, u)
      /\ Shrinks(s, u)
  BY <1>3, FlushSound DEF Releases
<1>5. t = IF u.status = "Live" THEN Clear(u, floor) ELSE u
  BY DEF CloseAtFloor, AcceptsBids
<1> HIDE DEF u, t
<1>6. CASE u.status # "Live"
  BY <1>4, <1>5, <1>6 DEF Timed, Opened, t
<1>7. CASE u.status = "Live"
  <2>1. Produced(u, floor) /\ floor <= floor /\ Solid(u)
    BY <1>1, <1>2, <1>4 DEF Produced, Sound
  <2>2. \A k \in Keys : u.fills[k] # None => floor <= u.fills[k].price
    BY <1>2, <1>4, <1>7, SoundParts DEF FillsAbove
  <2>3. /\ Sound(t) /\ t.window = None /\ t.now = u.now /\ t.limit = u.limit /\ Advances(u, t)
    BY <1>2, <1>4, <1>5, <1>7, <2>1, <2>2, ClearSound
  <2>4. Advances(s, t)
    BY <1>4, <2>3, SoundParts, AdvancesCompose
  <2> QED BY <1>4, <2>3, <2>4 DEF Timed, Opened, t
<1> QED BY <1>6, <1>7

LEMMA OnTickSound ==
  ASSUME NEW s, Sound(s), Timed(s)
  PROVE  LET t == OnTick(s) IN Sound(t) /\ Timed(t) /\ Advances(s, t)
<1> DEFINE u == TriggeredState(s)
           v == FlushIfUnbatched(u)
           t == OnTick(s)
<1>1. s \in AuctionState /\ s.now <= s.now
  BY SoundParts, StateParts
<1>2. t = IF s.status # "Live" THEN s
          ELSE IF v.status = "Live" /\ AtFloor(Schedule, s.now) THEN CloseAtFloor(v) ELSE v
  BY DEF OnTick, TriggeredState, AcceptsBids
<1>3. CASE s.status # "Live"
  <2>1. Shrinks(s, s)
    BY DEF Shrinks
  <2> QED BY <1>1, <1>2, <1>3, <2>1, AdvancesIdle
<1>4. CASE s.status = "Live"
  <2>1. /\ Sound(u) /\ Opened(u) /\ u.limit = s.limit /\ u.now = s.now /\ Advances(s, u)
        /\ Shrinks(s, u)
    BY <1>4, TriggerSound
  <2> HIDE DEF u
  <2>2. /\ Sound(v) /\ Timed(v) /\ v.now = u.now /\ v.limit = u.limit /\ Advances(u, v)
        /\ v.status = "Live" => v.resting = u.resting
    BY <2>1, FlushIfUnbatchedSound
  <2> HIDE DEF v, t
  <2>3. Advances(s, v)
    BY <2>1, <2>2, SoundParts, AdvancesCompose
  <2>4. CASE ~(v.status = "Live" /\ AtFloor(Schedule, s.now))
    BY <1>2, <1>4, <2>2, <2>3, <2>4 DEF t
  <2>5. CASE v.status = "Live" /\ AtFloor(Schedule, s.now)
    <3>1. t = CloseAtFloor(v)
      BY <1>2, <1>4, <2>5
    <3>2. Sound(t) /\ Timed(t) /\ t.limit = v.limit /\ Advances(v, t)
      BY <2>1, <2>2, <2>5, <3>1, CloseAtFloorSound
    <3>3. Shrinks(s, v)
      BY <2>1, <2>2, <2>5 DEF Shrinks
    <3>4. Advances(s, t)
      BY <2>2, <2>3, <3>2, <3>3, SoundParts, AdvancesCompose
    <3> QED BY <3>2, <3>4 DEF t
  <2> QED BY <2>4, <2>5
<1> QED BY <1>3, <1>4

(* What a balance becomes once the window's reservations are returned. *)
RefundedTo(s, p, b) ==
  /\ b \in Int /\ b \in I64
  /\ FloorNotNegative => b <= s.committed[p]
  /\ PricesNotNegative => b = s.committed[p] - WindowHold(p, WindowBids(s))

(* Cancellation refunds everyone who waits, and keeps what was sold. *)
LEMMA OnCancelSound ==
  ASSUME NEW s, Sound(s), Timed(s)
  PROVE  LET t == OnCancel(s) IN Sound(t) /\ Timed(t) /\ Advances(s, t)
<1> DEFINE no == Rejected("NotLive")
           c == [s EXCEPT !.status = "Cancelled"]
           r == RefundWindow(c, "NotLive")
           outcomes == RejectAll(r.outcomes, s.resting, "NotLive")
           committed == [p \in Participants |->
              Returned(r.committed[p], p, s.resting, LimitPrices(s.resting))]
           t == OnCancel(s)
<1>1. /\ s \in AuctionState /\ Kept(s) /\ Truthful(s) /\ Bounded(s) /\ Fitting(s) /\ Ledger(s)
      /\ FillsAbove(s) /\ ExhaustionTrue(s) /\ SoldOutEnds(s)
  BY SoundParts
<1>2. /\ s.fills \in [Keys -> Fill \cup {None}] /\ s.outcomes \in [Keys -> Outcomes]
      /\ s.committed \in [Participants -> Int] /\ s.supply_remaining \in Nat
      /\ s.now \in Nat /\ s.now <= s.now /\ s.status \in Status
      /\ s.resting \in [Keys -> RestingBid \cup {None}]
      /\ WindowBids(s) \in [Keys -> PendingBid \cup {None}]
  BY <1>1, StateParts
<1>3. CASE IsTerminal(s)
  <2>1. t = s
    BY <1>3 DEF OnCancel
  <2>2. Shrinks(s, s)
    BY DEF Shrinks
  <2> QED BY <1>1, <1>2, <2>1, <2>2, AdvancesIdle
<1>4. CASE ~IsTerminal(s)
  <2>1. t = [r EXCEPT !.outcomes = outcomes, !.resting = Nothing, !.committed = committed]
    BY <1>4 DEF OnCancel
  <2>2. Kept(t)
    BY <1>1, OnCancelKept
  <2>3. /\ c \in AuctionState /\ c.status = "Cancelled"
        /\ c.resting = s.resting /\ c.window = s.window /\ c.fills = s.fills
        /\ c.outcomes = s.outcomes /\ c.supply_remaining = s.supply_remaining
        /\ c.clearing_price = s.clearing_price /\ c.committed = s.committed
        /\ c.limit = s.limit /\ c.now = s.now
    BY <1>1 DEF AuctionState, Status
  <2>4. WindowBids(c) = WindowBids(s)
    BY <2>3 DEF WindowBids
  <2>5. ASSUME NEW p \in Participants, NEW b, s.window # None,
               b = Returned(s.committed[p], p, WindowBids(s), ReservePrices(WindowBids(s)))
        PROVE  RefundedTo(s, p, b)
    <3> DEFINE unit == ReservePrices(WindowBids(s))
               held == TotalFor(p, WindowBids(s), Cost(WindowBids(s), unit))
    <3>1. s.committed[p] \in I64 /\ s.committed[p] \in Int /\ s.committed[p] <= I64Max
      BY <1>1, <1>2 DEF Bounded, I64
    <3>2. \A k \in Keys : Cost(WindowBids(s), unit)[k] \in Int
      BY <1>2, CostsAreIntegers
    <3>3. ASSUME FloorNotNegative
          PROVE  \A k \in Keys : Cost(WindowBids(s), unit)[k] \in Nat
      BY <1>1, <1>2, <3>3, CostsAreNatural DEF Fitting, Fits, Payable
    <3>4. held = WindowHold(p, WindowBids(s))
      BY DEF WindowHold
    <3> HIDE DEF unit, held
    <3>5. b \in Int /\ b \in I64 /\ (FloorNotNegative => b <= s.committed[p])
      BY <2>5, <3>1, <3>2, <3>3, ReturnedIsInteger DEF unit
    <3>6. ASSUME PricesNotNegative PROVE b = s.committed[p] - WindowHold(p, WindowBids(s))
      <4>1. FloorNotNegative
        BY <3>6 DEF PricesNotNegative
      <4>2. /\ WindowHold(p, WindowBids(s)) \in Nat /\ LadderHold(p, s.resting) \in Nat
            /\ FillsOwed(p, s.fills) \in Nat
        BY <1>1, <3>6, <4>1, HoldsArePositive DEF Ledger, Fitting
      <4>3. s.committed[p] = WindowHold(p, WindowBids(s)) + LadderHold(p, s.resting) + FillsOwed(p, s.fills)
        BY <1>1, <3>6 DEF Ledger, Balanced
      <4>4. held <= s.committed[p]
        BY <3>4, <4>2, <4>3
      <4> QED BY <2>5, <3>1, <3>3, <3>4, <4>1, <4>4, ReturnedIsExact DEF unit, held
    <3> QED BY <3>5, <3>6 DEF RefundedTo
  <2> HIDE DEF c
  <2>6. /\ r \in AuctionState /\ r.status = "Cancelled" /\ r.window = None
        /\ r.fills = s.fills /\ r.supply_remaining = s.supply_remaining
        /\ r.clearing_price = s.clearing_price /\ r.limit = s.limit /\ r.now = s.now
        /\ \A k \in Keys : r.outcomes[k] = IF WindowBids(s)[k] = None THEN s.outcomes[k]
                                           ELSE Merge(s.outcomes[k], no)
        /\ \A p \in Participants : RefundedTo(s, p, r.committed[p])
    <3>1. CASE s.window = None
      <4>1. r = c
        BY <2>3, <3>1 DEF RefundWindow
      <4>2. \A k \in Keys : WindowBids(s)[k] = None
        BY <3>1, NothingWaits DEF WindowBids
      <4>3. \A p \in Participants : RefundedTo(s, p, s.committed[p])
        <5> TAKE p \in Participants
        <5>1. WindowHold(p, WindowBids(s)) = 0
          BY <4>2, NothingHeld
        <5>2. s.committed[p] \in I64 /\ s.committed[p] \in Int
          BY <1>1, <1>2 DEF Bounded
        <5> QED BY <5>1, <5>2 DEF RefundedTo
      <4> HIDE DEF r
      <4> QED BY <1>2, <2>3, <3>1, <4>1, <4>2, <4>3
    <3>2. CASE s.window # None
      <4> DEFINE ro == RejectAll(c.outcomes, c.window.bids, "NotLive")
                 rc == [p \in Participants |->
                    Returned(c.committed[p], p, c.window.bids, ReservePrices(c.window.bids))]
      <4>1. r = [c EXCEPT !.window = None, !.outcomes = ro, !.committed = rc]
        BY <2>3, <3>2 DEF RefundWindow
      <4>2. c.window.bids = WindowBids(s)
        BY <2>3, <3>2 DEF WindowBids
      <4>3. \A k \in Keys : ro[k] = IF WindowBids(s)[k] = None THEN s.outcomes[k]
                                    ELSE Merge(s.outcomes[k], no)
        BY <2>3, <4>2 DEF RejectAll
      <4>4. \A p \in Participants : RefundedTo(s, p, rc[p])
        BY <2>3, <2>5, <3>2, <4>2
      <4>5. ro \in [Keys -> Outcomes]
        <5>1. "NotLive" \in Reasons
          BY DEF Reasons
        <5> QED BY <1>2, <2>3, <5>1, RejectAllKeeps
      <4>6. rc \in [Participants -> Int]
        BY <4>4 DEF RefundedTo
      <4> HIDE DEF ro, rc, r
      <4>7. /\ r \in AuctionState /\ r.status = "Cancelled" /\ r.window = None
            /\ r.fills = c.fills /\ r.supply_remaining = c.supply_remaining
            /\ r.clearing_price = c.clearing_price /\ r.limit = c.limit /\ r.now = c.now
            /\ r.outcomes = ro /\ r.committed = rc
        BY <2>3, <4>1, <4>5, <4>6 DEF AuctionState
      <4> QED BY <2>3, <4>3, <4>4, <4>7
    <3> QED BY <3>1, <3>2
  <2> HIDE DEF r
  <2>7. ASSUME NEW k \in Keys
        PROVE  /\ Told(outcomes[k], None, None, s.fills[k])
               /\ AnswerStands(s.outcomes[k], outcomes[k])
               /\ outcomes[k] = s.outcomes[k] \/ outcomes[k] = no
    <3> DEFINE o == s.outcomes[k]
    <3>1. outcomes[k] = IF s.resting[k] = None THEN r.outcomes[k] ELSE Merge(r.outcomes[k], no)
      BY DEF RejectAll
    <3> HIDE DEF outcomes
    <3>2. o \in Outcomes /\ Told(o, WindowBids(s)[k], s.resting[k], s.fills[k])
      BY <1>1, <1>2 DEF Truthful
    <3>3. CASE WindowBids(s)[k] = None /\ s.resting[k] = None
      <4>1. outcomes[k] = o
        BY <2>6, <3>1, <3>3
      <4>2. Told(o, None, None, s.fills[k])
        BY <3>2, <3>3
      <4> QED BY <3>2, <4>1, <4>2, SameAnswerStands
    <3>4. CASE WindowBids(s)[k] # None \/ s.resting[k] # None
      <4>1. o.kind \in {"Queued", "Resting"}
        BY <3>2, <3>4 DEF Told, Resting
      <4>2. s.fills[k] = None
        BY <3>2, <4>1 DEF Told, Filled
      <4>3. Merge(o, no) = no /\ Merge(no, no) = no
        BY <4>1, MergeWaiting DEF HasFill, Rejected
      <4>4. outcomes[k] = no
        BY <2>6, <3>1, <3>4, <4>3
      <4>5. Told(no, None, None, None)
        BY DEF Told, Rejected
      <4>6. AnswerStands(o, no)
        BY <3>2, <4>1, StandsByKind DEF Rejected, HasFill
      <4> QED BY <4>2, <4>4, <4>5, <4>6
    <3> QED BY <3>3, <3>4
  <2>8. ASSUME NEW p \in Participants
        PROVE  /\ committed[p] \in I64 /\ committed[p] \in Int
               /\ PricesNotNegative => committed[p] = FillsOwed(p, s.fills)
               /\ FloorNotNegative =>
                    \/ committed[p] <= s.committed[p]
                    \/ \E k \in Keys : s.resting[k] # None /\ s.resting[k].participant = p
                                          /\ s.resting[k].limit < 0
    <3> DEFINE b == r.committed[p]
               unit == LimitPrices(s.resting)
    <3>1. RefundedTo(s, p, b) /\ s.committed[p] \in Int /\ s.committed[p] <= I64Max
      BY <1>1, <1>2, <2>6 DEF Bounded, I64
    <3>2. b \in Int /\ b \in I64 /\ b <= I64Max /\ I64Max \in Nat
      BY <3>1, WidthsAssumption DEF RefundedTo, I64
    <3>3. committed[p] = Returned(b, p, s.resting, unit)
      OBVIOUS
    <3>4. \A k \in Keys : Cost(s.resting, unit)[k] \in Int
      BY <1>2, CostsAreIntegers
    <3> HIDE DEF b, unit, committed
    <3>5. committed[p] \in Int /\ committed[p] \in I64
      BY <3>2, <3>3, <3>4, ReturnedIsInteger
    <3>6. ASSUME FloorNotNegative,
                 ~\E k \in Keys : s.resting[k] # None /\ s.resting[k].participant = p
                                     /\ s.resting[k].limit < 0
          PROVE  committed[p] <= s.committed[p]
      <4>1. \A k \in Keys : s.resting[k] # None /\ s.resting[k].participant = p
                              => 0 <= Cost(s.resting, unit)[k]
        <5> SUFFICES ASSUME NEW k \in Keys, s.resting[k] # None, s.resting[k].participant = p
                     PROVE  0 <= Cost(s.resting, unit)[k]
          OBVIOUS
        <5>1. s.resting[k].limit \in Int
          BY <1>2 DEF RestingBid
        <5>2. 0 <= s.resting[k].limit
          BY <3>6, <5>1
        <5>3. Cost(s.resting, unit)[k] \in Nat
          BY <1>2, <5>2, CostsAreNatural DEF unit
        <5> QED BY <5>3
      <4>2. committed[p] <= b
        BY <3>2, <3>3, <3>4, <4>1, ReturnedIsInteger
      <4>3. b <= s.committed[p]
        BY <3>1, <3>6 DEF RefundedTo
      <4> QED BY <3>1, <3>2, <3>5, <4>2, <4>3
    <3>7. ASSUME PricesNotNegative PROVE committed[p] = FillsOwed(p, s.fills)
      <4>1. Balanced(s) /\ RestsAboveZero(s) /\ Fits(s)
        BY <1>1, <3>7 DEF Ledger, Fitting, PricesNotNegative
      <4>2. /\ WindowHold(p, WindowBids(s)) \in Nat /\ LadderHold(p, s.resting) \in Nat
            /\ FillsOwed(p, s.fills) \in Nat
        BY <1>1, <4>1, HoldsArePositive
      <4>3. /\ s.committed[p] = WindowHold(p, WindowBids(s)) + LadderHold(p, s.resting)
                                   + FillsOwed(p, s.fills)
            /\ b = s.committed[p] - WindowHold(p, WindowBids(s))
        BY <3>1, <3>7, <4>1 DEF Balanced, RefundedTo
      <4>4. /\ \A k \in Keys : Cost(s.resting, unit)[k] \in Nat
            /\ TotalFor(p, s.resting, Cost(s.resting, unit)) = LadderHold(p, s.resting)
        BY <1>2, <4>1, CostsAreNatural DEF unit, RestsAboveZero, LadderHold
      <4>5. LadderHold(p, s.resting) <= b
        BY <4>2, <4>3
      <4>6. committed[p] = b - LadderHold(p, s.resting)
        BY <3>2, <3>3, <4>4, <4>5, ReturnedIsExact
      <4> QED BY <4>2, <4>3, <4>6
    <3> QED BY <3>5, <3>6, <3>7
  <2> HIDE DEF outcomes, committed, t
  <2>9. /\ t.status = "Cancelled" /\ t.window = None /\ t.fills = s.fills
        /\ t.supply_remaining = s.supply_remaining /\ t.clearing_price = s.clearing_price
        /\ t.limit = s.limit /\ t.now = s.now /\ t.outcomes = outcomes /\ t.resting = Nothing
        /\ t.committed = committed
    BY <2>1, <2>6 DEF AuctionState
  <2>10. WindowBids(t) = Nothing
    BY <2>9 DEF WindowBids
  <2>11. Truthful(t)
    BY <2>7, <2>9, <2>10, NothingWaits DEF Truthful
  <2>12. Ledger(t)
    <3> SUFFICES ASSUME PricesNotNegative, NEW p \in Participants
                 PROVE  committed[p] = WindowHold(p, Nothing) + LadderHold(p, Nothing)
                                         + FillsOwed(p, s.fills)
      BY <2>9, <2>10, NothingWaits DEF Ledger, Balanced, RestsAboveZero
    <3>1. WindowHold(p, Nothing) = 0 /\ LadderHold(p, Nothing) = 0
      BY NothingHeld, NothingWaits
    <3> QED BY <2>8, <3>1
  <2>13. Bounded(t) /\ Fitting(t)
    BY <1>1, <2>8, <2>9, <2>10, NothingWaits DEF Bounded, Fitting, Fits
  <2>14. s.status \in {"Pending", "Live"}
    BY <1>2, <1>4 DEF Status, IsTerminal
  <2>15. /\ FairWindow(t) /\ FillsAbove(t) /\ NobodyWaits(t) /\ PriceSeen(t) /\ SoldOutEnds(t)
         /\ Timed(t)
    BY <1>1, <2>9, <2>14, NothingWaits DEF FairWindow, FillsAbove, NobodyWaits, PriceSeen,
         SoldOutEnds, Timed, Opened
  <2>16. ExhaustionTrue(t)
    BY <1>1, <2>7, <2>9 DEF ExhaustionTrue, Rejected
  <2>17. Advances(s, t)
    <3>1. AnswersKept(s, t)
      BY <2>7, <2>9 DEF AnswersKept
    <3>2. Onward(s, t)
      BY <1>2, <1>4, <2>9 DEF Onward
    <3>3. WithinLimit(s, t)
      BY <2>8, <2>9, NothingWaits DEF WithinLimit, Ends
    <3>4. RestsAsBefore(s, t)
      BY <2>9, NothingWaits DEF RestsAsBefore
    <3> QED BY <3>1, <3>2, <3>3, <3>4 DEF Advances
  <2>18. Sound(t)
    BY <2>2, <2>11, <2>12, <2>13, <2>15, <2>16 DEF Sound, Solid
  <2> QED BY <2>15, <2>17, <2>18 DEF t
<1> QED BY <1>3, <1>4

-----------------------------------------------------------------------------
(* The commands. *)

LEMMA NewAuctionSound == Sound(NewAuction) /\ Timed(NewAuction)
<1> DEFINE s == NewAuction
<1>1. Kept(s)
  BY NewAuctionKept
<1>2. /\ s.status = "Pending" /\ s.window = None /\ s.fills = Nothing /\ s.resting = Nothing
      /\ s.supply_remaining = TotalSupply
      /\ \A k \in Keys : s.outcomes[k] = NoOutcome
      /\ \A p \in Participants : s.limit[p] = 0 /\ s.committed[p] = 0
  BY DEF NewAuction
<1> HIDE DEF s
<1>3. WindowBids(s) = Nothing /\ \A k \in Keys : Nothing[k] = None
  BY <1>2, NothingWaits DEF WindowBids
<1>4. Truthful(s)
  BY <1>2, <1>3 DEF Truthful, Told, NoOutcome
<1>5. Balanced(s)
  <2> SUFFICES ASSUME NEW p \in Participants
               PROVE  0 = WindowHold(p, Nothing) + LadderHold(p, Nothing) + FillsOwed(p, Nothing)
    BY <1>2, <1>3 DEF Balanced
  <2>1. WindowHold(p, Nothing) = 0 /\ LadderHold(p, Nothing) = 0 /\ FillsOwed(p, Nothing) = 0
    BY <1>3, NothingHeld
  <2> QED BY <2>1
<1>6. Bounded(s) /\ Fitting(s) /\ Ledger(s)
  <2>1. 0 \in I64
    BY WidthsAssumption DEF I64
  <2> QED BY <1>2, <1>3, <1>5, <2>1 DEF Bounded, Fitting, Fits, Ledger, RestsAboveZero
<1>7. /\ FairWindow(s) /\ FillsAbove(s) /\ NobodyWaits(s) /\ PriceSeen(s) /\ SoldOutEnds(s)
      /\ Timed(s)
  <2>1. ~(TotalSupply > 0 /\ TotalSupply = 0)
    OBVIOUS
  <2> QED BY <1>2, <1>3, <2>1 DEF FairWindow, FillsAbove, NobodyWaits, PriceSeen, SoldOutEnds,
            IsTerminal, Timed, Opened
<1>8. ExhaustionTrue(s)
  BY <1>2 DEF ExhaustionTrue, NoOutcome, Rejected
<1> QED BY <1>1, <1>4, <1>6, <1>7, <1>8 DEF Sound, Solid, s

(* A retry leaves everything where it is. *)
LEMMA RetryAdvances ==
  ASSUME NEW s, Sound(s)
  PROVE  Advances(s, s)
<1>1. s \in AuctionState
  BY SoundParts
<1>2. s.now <= s.now /\ Shrinks(s, s)
  BY <1>1, StateParts DEF Shrinks
<1> QED BY <1>1, <1>2, AdvancesIdle

(* What on_bid does, given what an admitted bid does. *)
LEMMA OnBidSound ==
  ASSUME NEW s, Sound(s), Timed(s), NEW k \in Keys, NEW refusal \in Reasons \cup {""}, NEW admit,
         refusal # "SupplyExhausted",
         s.outcomes[k] = NoOutcome /\ refusal = "" =>
           Sound(admit) /\ Timed(admit) /\ Advances(s, admit)
  PROVE  LET t == OnBid(s, k, refusal, admit) IN Sound(t) /\ Timed(t) /\ Advances(s, t)
<1>1. Advances(s, s)
  BY RetryAdvances
<1>2. CASE s.outcomes[k] # NoOutcome
  BY <1>1, <1>2 DEF OnBid
<1>3. CASE s.outcomes[k] = NoOutcome /\ refusal # ""
  BY <1>3, RejectSound DEF OnBid
<1>4. CASE s.outcomes[k] = NoOutcome /\ refusal = ""
  BY <1>4 DEF OnBid
<1> QED BY <1>2, <1>3, <1>4

(* The early returns of on_bid, and what an admitted bid has passed. *)
LEMMA RefusalParts ==
  ASSUME NEW s, NEW p, NEW qty, NEW offClock, NEW reason \in {"PriceMoved", "LimitAboveClock"},
         NEW price
  PROVE  LET refusal == BidRefusal(s, p, qty, offClock, reason, price)
         IN  /\ refusal \in Reasons \cup {""} /\ refusal # "SupplyExhausted"
             /\ refusal = "" => qty # 0 /\ s.status = "Live" /\ CanReserve(s, p, price, qty)
BY DEF BidRefusal, Reasons, AcceptsBids

(* A take and a resting bid, admitted or refused. *)
LEMMA TakeSound ==
  ASSUME NEW s, Sound(s), Timed(s), NEW p \in Participants, NEW k \in Keys, NEW qty \in Nat,
         NEW expected
  PROVE  LET t == OnBid(s, k, TakeRefusal(s, p, qty, expected), AdmitTake(s, p, k, qty))
         IN  Sound(t) /\ Timed(t) /\ Advances(s, t)
<1> DEFINE refusal == TakeRefusal(s, p, qty, expected)
           admit == AdmitTake(s, p, k, qty)
<1>1. /\ refusal \in Reasons \cup {""} /\ refusal # "SupplyExhausted"
      /\ refusal = "" => /\ qty # 0 /\ s.status = "Live"
                         /\ CanReserve(s, p, WindowPrice(Schedule, BatchWindow, s.now), qty)
  BY RefusalParts DEF TakeRefusal
<1> HIDE DEF refusal
<1>2. s.outcomes[k] = NoOutcome /\ refusal = "" =>
        Sound(admit) /\ Timed(admit) /\ Advances(s, admit)
  BY <1>1, AdmitTakeSound
<1> HIDE DEF admit
<1>3. LET t == OnBid(s, k, refusal, admit) IN Sound(t) /\ Timed(t) /\ Advances(s, t)
  BY <1>1, <1>2, OnBidSound
<1> QED BY <1>3 DEF refusal, admit

LEMMA RestingSound ==
  ASSUME NEW s, Sound(s), Timed(s), NEW p \in Participants, NEW k \in Keys, NEW qty \in Nat,
         NEW limit \in Limits
  PROVE  LET t == OnBid(s, k, RestingRefusal(s, p, qty, limit), AdmitResting(s, p, k, qty, limit))
         IN  Sound(t) /\ Timed(t) /\ Advances(s, t)
<1> DEFINE refusal == RestingRefusal(s, p, qty, limit)
           admit == AdmitResting(s, p, k, qty, limit)
<1>1. /\ refusal \in Reasons \cup {""} /\ refusal # "SupplyExhausted"
      /\ refusal = "" => qty # 0 /\ s.status = "Live" /\ CanReserve(s, p, limit, qty)
  BY RefusalParts DEF RestingRefusal
<1> HIDE DEF refusal
<1>2. s.outcomes[k] = NoOutcome /\ refusal = "" =>
        Sound(admit) /\ Timed(admit) /\ Advances(s, admit)
  BY <1>1, AdmitRestingSound
<1> HIDE DEF admit
<1>3. LET t == OnBid(s, k, refusal, admit) IN Sound(t) /\ Timed(t) /\ Advances(s, t)
  BY <1>1, <1>2, OnBidSound
<1> QED BY <1>3 DEF refusal, admit

(* Every command keeps the auction sound, and only moves it on. *)
LEMMA NextSound ==
  Sound(auction) /\ Timed(auction) /\ [Next]_auction =>
    Sound(auction') /\ Timed(auction') /\ Advances(auction, auction')
<1> SUFFICES ASSUME Sound(auction), Timed(auction), [Next]_auction
             PROVE  Sound(auction') /\ Timed(auction') /\ Advances(auction, auction')
  OBVIOUS
<1>1. CASE UNCHANGED auction
  <2>1. auction \in AuctionState /\ auction.now <= auction.now
    BY SoundParts, StateParts
  <2>2. Shrinks(auction, auction)
    BY DEF Shrinks
  <2> QED BY <1>1, <2>1, <2>2, AdvancesIdle
<1>2. CASE Next
  <2>1. PICK ts \in Timestamps :
          \/ Open(ts)
          \/ Tick(ts)
          \/ Cancel(ts)
          \/ \E p \in Participants :
               \/ \E limit \in Collaterals : SetCollateral(ts, p, limit)
               \/ \E k \in Keys :
                    \/ \E qty \in Quantities, expected \in Expected :
                         SubmitTake(ts, p, k, qty, expected)
                    \/ \E qty \in Quantities, limit \in Limits :
                         SubmitResting(ts, p, k, qty, limit)
                    \/ CancelResting(ts, p, k)
    BY <1>2 DEF Next
  <2> DEFINE s == Arrive(auction, ts)
             t == auction'
  <2>2. Sound(s) /\ Timed(s) /\ Advances(auction, s) /\ Releases(auction, s)
    BY AuctionAssumption, ArriveSound
  <2> SUFFICES Sound(t) /\ Timed(t) /\ Advances(s, t)
    <3>1. /\ auction \in AuctionState /\ s \in AuctionState /\ Truthful(auction)
          /\ Shrinks(auction, s)
      BY <2>2, SoundParts DEF Releases
    <3> HIDE DEF s, t
    <3>2. Sound(t) => t \in AuctionState /\ Truthful(t)
      BY SoundParts
    <3>3. Sound(t) /\ Advances(s, t) => Advances(auction, t)
      BY <2>2, <3>1, <3>2, AdvancesCompose
    <3> QED BY <3>3 DEF t
  <2>3. CASE Open(ts)
    BY <2>2, <2>3, OnOpenSound DEF Open
  <2>4. CASE Tick(ts)
    BY <2>2, <2>4, OnTickSound DEF Tick
  <2>5. CASE Cancel(ts)
    BY <2>2, <2>5, OnCancelSound DEF Cancel
  <2>6. ASSUME NEW p \in Participants, NEW limit \in Collaterals, SetCollateral(ts, p, limit)
        PROVE  Sound(t) /\ Timed(t) /\ Advances(s, t)
    <3>1. limit \in I64
      BY AuctionAssumption
    <3> QED BY <2>2, <2>6, <3>1, OnSetCollateralSound DEF SetCollateral
  <2>7. ASSUME NEW p \in Participants, NEW k \in Keys, NEW qty \in Quantities,
               NEW expected \in Expected, SubmitTake(ts, p, k, qty, expected)
        PROVE  Sound(t) /\ Timed(t) /\ Advances(s, t)
    <3>1. qty \in Nat
      BY AuctionAssumption, WidthsAssumption DEF U64
    <3> QED BY <2>2, <2>7, <3>1, TakeSound DEF SubmitTake
  <2>8. ASSUME NEW p \in Participants, NEW k \in Keys, NEW qty \in Quantities,
               NEW limit \in Limits, SubmitResting(ts, p, k, qty, limit)
        PROVE  Sound(t) /\ Timed(t) /\ Advances(s, t)
    <3>1. qty \in Nat
      BY AuctionAssumption, WidthsAssumption DEF U64
    <3> QED BY <2>2, <2>8, <3>1, RestingSound DEF SubmitResting
  <2>9. ASSUME NEW p \in Participants, NEW k \in Keys, CancelResting(ts, p, k)
        PROVE  Sound(t) /\ Timed(t) /\ Advances(s, t)
    BY <2>2, <2>9, OnCancelRestingSound DEF CancelResting
  <2> QED BY <2>1, <2>3, <2>4, <2>5, <2>6, <2>7, <2>8, <2>9
<1> QED BY <1>1, <1>2

-----------------------------------------------------------------------------
(***************************************************************************)
(* The inductive invariant of the auction's promises holds in every        *)
(* reachable state.                                                        *)
(***************************************************************************)
THEOREM AlwaysSafe == Spec => []SafetyInv
<1>1. Init => SafetyInv
  BY NewAuctionSound DEF Init, SafetyInv
<1>2. SafetyInv /\ [Next]_auction => SafetyInv'
  BY NextSound DEF SafetyInv
<1> QED BY <1>1, <1>2, PTL DEF Spec

(* The clearing price is one the clock produced (I3), and the floor when   *)
(* units are left unsold.                                                  *)
THEOREM PriceIsProduced == Spec => []ClearingPriceProduced
<1>1. SafetyInv => ClearingPriceProduced
  BY DEF SafetyInv, Sound, Solid, PriceSeen, Produced, ClearingPriceProduced
<1> QED BY <1>1, AlwaysSafe, PTL

(* The idempotency record tells the truth (I7): a retry is answered with   *)
(* what really became of the bid, whatever order the commands came in.     *)
THEOREM OutcomesTellWhere == Spec => []OutcomeTellsWhere
<1>1. SafetyInv => OutcomeTellsWhere
  <2> SUFFICES ASSUME Truthful(auction), NEW k \in Keys
               PROVE  LET o == auction.outcomes[k]
                          fill == auction.fills[k]
                      IN  /\ o.kind # "FilledThenCancelled"
                          /\ InWindow(k) => ~OnLadder(k) /\ o.kind \in {"Queued", "Resting"}
                                            /\ o.qty = auction.window.bids[k].qty
                          /\ OnLadder(k) => o = Resting(auction.resting[k].qty)
                          /\ o.kind = "Queued" => InWindow(k)
                          /\ o.kind = "Resting" => InWindow(k) \/ OnLadder(k)
                          /\ IF fill = None THEN o.kind # "Filled"
                             ELSE o = Filled(fill.qty, fill.price)
    BY DEF SafetyInv, Sound, Solid, OutcomeTellsWhere
  <2>1. Told(auction.outcomes[k], WindowBids(auction)[k], auction.resting[k], auction.fills[k])
    BY DEF Truthful
  <2>2. /\ InWindow(k) <=> WindowBids(auction)[k] # None
        /\ InWindow(k) => WindowBids(auction)[k] = auction.window.bids[k]
    BY NothingWaits DEF InWindow, WindowBids
  <2>3. OnLadder(k) <=> auction.resting[k] # None
    BY DEF OnLadder
  <2> QED BY <2>1, <2>2, <2>3 DEF Told
<1> QED BY <1>1, AlwaysSafe, PTL

LEMMA SafeLedger == PricesNotNegative /\ SafetyInv => LedgerBalanced
<1> SUFFICES ASSUME Balanced(auction), NEW p \in Participants
             PROVE  auction.committed[p] =
                      (IF auction.window = None THEN 0 ELSE WindowHold(p, auction.window.bids))
                        + LadderHold(p, auction.resting) + FillsOwed(p, auction.fills)
  BY DEF SafetyInv, Sound, Solid, Ledger, LedgerBalanced
<1>1. WindowHold(p, Nothing) = 0
  BY NothingHeld, NothingWaits
<1> QED BY <1>1 DEF Balanced, WindowBids

(* The collateral ledger balances (I9): nothing is leaked and nothing is   *)
(* given back twice, and no balance saturates, as long as neither the      *)
(* floor nor any limit is below zero.                                      *)
THEOREM LedgerAlwaysBalances ==
  ASSUME PricesNotNegative
  PROVE  Spec => []LedgerBalanced
<1>1. SafetyInv => LedgerBalanced
  BY SafeLedger
<1> QED BY <1>1, AlwaysSafe, PTL

(* No amount is clamped, for every i64::MAX and for limits of either sign: *)
(* the checked product at admission is enough for every later release and  *)
(* every later charge, as long as the clock stays at or above zero.        *)
THEOREM AmountsAlwaysFit ==
  ASSUME FloorNotNegative
  PROVE  Spec => []AmountsFit
<1>1. SafetyInv => AmountsFit
  <2> SUFFICES ASSUME Sound(auction), NEW k \in Keys
               PROVE  /\ OnLadder(k) => ~Overflows(auction.resting[k].limit, auction.resting[k].qty)
                      /\ InWindow(k) => ~Overflows(auction.window.bids[k].reserve_price,
                                                   auction.window.bids[k].qty)
                      /\ auction.fills[k] # None =>
                           /\ ~Overflows(auction.fills[k].price, auction.fills[k].qty)
                           /\ ~Overflows(SatI64(auction.fills[k].price - Schedule.floor_price),
                                         auction.fills[k].qty)
    BY DEF SafetyInv, AmountsFit
  <2> DEFINE s == auction
  <2>1. Fits(s) /\ s \in AuctionState
    BY SoundParts DEF Fitting
  <2>2. s.fills \in [Keys -> Fill \cup {None}] /\ WindowBids(s) \in [Keys -> PendingBid \cup {None}]
    BY <2>1, StateParts
  <2>3. OnLadder(k) => ~Overflows(s.resting[k].limit, s.resting[k].qty)
    BY <2>1 DEF OnLadder, Fits
  <2>4. InWindow(k) => ~Overflows(s.window.bids[k].reserve_price, s.window.bids[k].qty)
    <3> SUFFICES ASSUME InWindow(k)
                 PROVE  ~Overflows(s.window.bids[k].reserve_price, s.window.bids[k].qty)
      OBVIOUS
    <3> DEFINE b == WindowBids(s)[k]
    <3>1. s.window.bids[k] = b /\ b # None
      BY DEF InWindow, WindowBids
    <3>2. b.reserve_price \in Int /\ b.qty \in Nat
      BY <2>2, <3>1 DEF PendingBid
    <3>3. Payable(b.reserve_price, b.qty)
      BY <2>1, <3>1 DEF Fits
    <3> HIDE DEF b
    <3> QED BY <3>1, <3>2, <3>3, PayableProduct
  <2>5. ASSUME s.fills[k] # None
        PROVE  /\ ~Overflows(s.fills[k].price, s.fills[k].qty)
               /\ ~Overflows(SatI64(s.fills[k].price - Schedule.floor_price), s.fills[k].qty)
    <3> DEFINE price == s.fills[k].price
               qty == s.fills[k].qty
               floor == Schedule.floor_price
    <3>1. price \in Int /\ qty \in Nat
      BY <2>2, <2>5 DEF Fill
    <3>2. Payable(price, qty)
      BY <2>1, <2>5 DEF Fits
    <3>3. floor \in Int /\ 0 <= floor /\ floor <= price
      BY <2>5, FillsAboveFloor DEF FloorNotNegative, Sound
    <3> HIDE DEF price, qty, floor
    <3> DEFINE fall == SatI64(price - floor)
    <3>4. 0 <= fall /\ fall <= price /\ fall \in Int /\ qty <= qty
      BY <3>1, <3>3, WidthsAssumption DEF SatI64, AtMost
    <3> HIDE DEF fall
    <3>5. Payable(fall, qty)
      BY <3>1, <3>2, <3>4, CheaperIsPayable
    <3>6. ~Overflows(price, qty) /\ ~Overflows(fall, qty)
      BY <3>1, <3>2, <3>4, <3>5, PayableProduct
    <3> QED BY <3>6 DEF price, qty, floor, fall
  <2> QED BY <2>3, <2>4, <2>5
<1> QED BY <1>1, AlwaysSafe, PTL

(* An open window is the one the auction is in, and nobody in it fills     *)
(* above the price they reserved at.                                       *)
THEOREM WindowAlwaysCurrent == Spec => []WindowIsCurrent
<1>1. SafetyInv => WindowIsCurrent
  BY DEF SafetyInv, Sound, Solid, FairWindow, Timed, Opened, WindowIsCurrent, AcceptsBids
<1> QED BY <1>1, AlwaysSafe, PTL

(* Ends are clean (I10): nobody is left waiting, selling out clears, and   *)
(* no bid is refused for exhausted supply while a unit is left.            *)
THEOREM EndsAreSettled == Spec => []EndIsSettled
<1>1. SafetyInv => EndIsSettled
  <2> SUFFICES ASSUME Sound(auction) PROVE EndIsSettled
    BY DEF SafetyInv
  <2>1. Truthful(auction) /\ NobodyWaits(auction) /\ SoldOutEnds(auction) /\ ExhaustionTrue(auction)
    BY SoundParts
  <2>2. ASSUME IsTerminal(auction), NEW k \in Keys
        PROVE  auction.outcomes[k].kind \notin {"Queued", "Resting"}
    <3>1. WindowBids(auction)[k] = None /\ auction.resting[k] = None
      BY <2>1, <2>2, NothingWaits DEF NobodyWaits, WindowBids
    <3>2. Told(auction.outcomes[k], None, None, auction.fills[k])
      BY <2>1, <3>1 DEF Truthful
    <3> QED BY <3>2 DEF Told
  <2> QED BY <2>1, <2>2 DEF EndIsSettled, SoldOutEnds, ExhaustionTrue
<1> QED BY <1>1, AlwaysSafe, PTL

(* No command undoes time, a sale, the end of the auction or what the end  *)
(* decided.                                                                *)
THEOREM LifeCycleHolds == Spec => LifeCycle
<1>1. SafetyInv /\ [Next]_auction =>
        [/\ auction'.now >= auction.now
         /\ auction'.supply_remaining <= auction.supply_remaining
         /\ auction.status # "Pending" => auction'.status # "Pending"
         /\ IsTerminal(auction) =>
              /\ auction'.status = auction.status
              /\ auction'.fills = auction.fills
              /\ auction'.committed = auction.committed
              /\ auction'.clearing_price = auction.clearing_price]_auction
  <2> SUFFICES ASSUME SafetyInv, [Next]_auction
               PROVE  /\ auction'.now >= auction.now
                      /\ auction'.supply_remaining <= auction.supply_remaining
                      /\ auction.status # "Pending" => auction'.status # "Pending"
                      /\ IsTerminal(auction) =>
                           /\ auction'.status = auction.status
                           /\ auction'.fills = auction.fills
                           /\ auction'.committed = auction.committed
                           /\ auction'.clearing_price = auction.clearing_price
    OBVIOUS
  <2>1. Onward(auction, auction') /\ Sound(auction) /\ Sound(auction')
    BY NextSound DEF SafetyInv, Advances
  <2>2. auction.now \in Nat /\ auction'.now \in Nat
    BY <2>1, SoundParts, StateParts
  <2> QED BY <2>1, <2>2 DEF Onward
<1> QED BY <1>1, AlwaysSafe, PTL DEF Spec, LifeCycle

(* An answer is never taken back (I7), by any command.                     *)
THEOREM AnswersAlwaysStand == Spec => AnswersStand
<1>1. SafetyInv /\ [Next]_auction =>
        [\A k \in Keys : AnswerStands(auction.outcomes[k], auction'.outcomes[k])]_auction
  BY NextSound DEF SafetyInv, Advances, AnswersKept
<1> QED BY <1>1, AlwaysSafe, PTL DEF Spec, AnswersStand

(* What remains of I9 when limits may be negative: only the end of a bid   *)
(* held below zero takes a participant's debt above the ceiling.           *)
THEOREM OverrunsAreNegativeHolds ==
  ASSUME FloorNotNegative
  PROVE  Spec => OnlyNegativeHoldsOverrun
<1>1. SafetyInv /\ [Next]_auction =>
        [\A p \in Participants :
           /\ auction'.committed[p] > auction.committed[p]
           /\ auction'.committed[p] > auction'.limit[p] /\ auction'.committed[p] > 0
           => HeldBelowZero(auction, p) \ HeldBelowZero(auction', p) # {}]_auction
  <2> SUFFICES ASSUME SafetyInv, [Next]_auction, NEW p \in Participants,
                      auction'.committed[p] > auction.committed[p],
                      auction'.committed[p] > auction'.limit[p], auction'.committed[p] > 0
               PROVE  HeldBelowZero(auction, p) \ HeldBelowZero(auction', p) # {}
    OBVIOUS
  <2> DEFINE s == auction
             t == auction'
  <2>1. WithinLimit(s, t) /\ Sound(s) /\ Sound(t)
    BY NextSound DEF SafetyInv, Advances
  <2>2. /\ s.committed \in [Participants -> Int] /\ t.committed \in [Participants -> Int]
        /\ t.limit \in [Participants -> Int]
    BY <2>1, SoundParts, StateParts
  <2>3. Ends(s, t, p)
    <3>1. \/ t.committed[p] <= s.committed[p] \/ t.committed[p] <= t.limit[p]
          \/ t.committed[p] <= 0 \/ Ends(s, t, p)
      BY <2>1 DEF WithinLimit
    <3>2. s.committed[p] \in Int /\ t.committed[p] \in Int /\ t.limit[p] \in Int
      BY <2>2
    <3> QED BY <3>1, <3>2
  <2>4. PICK k \in Keys :
          /\ s.resting[k] # None /\ s.resting[k].participant = p /\ s.resting[k].limit < 0
          /\ t.resting[k] = None
    BY <2>3 DEF Ends
  <2>5. k \in HeldBelowZero(s, p)
    BY <2>4 DEF HeldBelowZero
  <2>6. k \notin HeldBelowZero(t, p)
    <3> SUFFICES ASSUME t.window # None, t.window.bids[k] # None, t.window.bids[k].reserve_price < 0
                 PROVE  FALSE
      BY <2>4 DEF HeldBelowZero
    <3>1. WindowBids(t)[k] = t.window.bids[k]
      BY DEF WindowBids
    <3>2. Fits(t) /\ t \in AuctionState
      BY <2>1, SoundParts DEF Fitting
    <3>3. 0 <= t.window.bids[k].reserve_price
      BY <3>1, <3>2 DEF Fits, Payable
    <3>4. t.window.bids[k].reserve_price \in Int
      <4>1. WindowBids(t)[k] \in PendingBid \cup {None}
        BY <3>2, StateParts
      <4> QED BY <3>1, <4>1 DEF PendingBid
    <3> QED BY <3>3, <3>4
  <2> QED BY <2>5, <2>6
<1> QED BY <1>1, AlwaysSafe, PTL DEF Spec, OnlyNegativeHoldsOverrun
=============================================================================
