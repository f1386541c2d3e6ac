----------------------------- MODULE CoreTheorems -----------------------------
(***************************************************************************)
(* Facts about the pure functions of auction-core that every proof about   *)
(* the auction rests on.                                                   *)
(*                                                                         *)
(* First, sums of integers over finite sets, as the community module       *)
(* Functions defines them (SumFunctionOnSet), and the induction principles *)
(* they rest on.  The library's induction theorems take a predicate as a   *)
(* parameter; here the predicate is the set of its witnesses, and each     *)
(* principle is proved from a minimal counterexample.                      *)
(*                                                                         *)
(* Then the price clock and its windows, for every schedule and every      *)
(* integer width.                                                          *)
(*                                                                         *)
(* Then what a window's allocation adds up to, for every set of bids and   *)
(* every supply: no bid gets more than it asks for, and together they get  *)
(* the smaller of supply and demand.  So a bid that goes partly short      *)
(* means that the supply is exhausted.                                     *)
(***************************************************************************)
EXTENDS PriceSchedule, Matching, FiniteSetTheorems, WellFoundedInduction, TLAPS

-----------------------------------------------------------------------------
(* Induction. *)

(* A set that contains 0 and is closed under successor contains Nat. *)
LEMMA NatSetInduction ==
  ASSUME NEW G, 0 \in G, \A n \in Nat : n \in G => n + 1 \in G
  PROVE  Nat \subseteq G
<1>1. SUFFICES ASSUME ~(Nat \subseteq G) PROVE FALSE
  OBVIOUS
<1> DEFINE Bad == Nat \ G
           R == OpToRel(<, Nat)
<1>2. Bad \subseteq Nat /\ Bad # {}
  BY <1>1
<1>3. IsWellFoundedOn(R, Nat)
  BY NatLessThanWellFounded
<1>4. \A m, k \in Nat : m < k => <<m, k>> \in R
  BY Zenon DEF OpToRel
<1> HIDE DEF R
<1>5. PICK n \in Bad : \A m \in Bad : <<m, n>> \notin R
  <2> HIDE DEF Bad
  <2> QED BY <1>2, <1>3, WFMin
<1>6. n \in Nat /\ n # 0 /\ n - 1 \in Nat /\ n - 1 < n /\ (n - 1) + 1 = n
  BY <1>5
<1>7. n - 1 \in G
  BY <1>4, <1>5, <1>6
<1> QED BY <1>5, <1>6, <1>7

(* Of the subsets of a finite set that are not in G, one has all its       *)
(* proper subsets in G.                                                    *)
LEMMA MinimalSubset ==
  ASSUME NEW S, IsFiniteSet(S), NEW G, S \notin G
  PROVE  \E T \in SUBSET S : T \notin G /\ \A U \in SUBSET T : U # T => U \in G
<1> DEFINE Bad == {T \in SUBSET S : T \notin G}
<1>1. Bad \subseteq FiniteSubsetsOf(S) /\ Bad # {}
  BY FS_Subset DEF FiniteSubsetsOf
<1>2. PICK T \in Bad : \A U \in Bad : <<U, T>> \notin StrictSubsetOrdering(S)
  <2> HIDE DEF Bad
  <2> QED BY <1>1, WFMin, FS_StrictSubsetOrderingWellFounded
<1>3. ASSUME NEW U \in SUBSET T, U # T PROVE U \in G
  <2>1. U \in SUBSET S /\ T \in SUBSET S
    BY <1>2
  <2>2. <<U, T>> \in StrictSubsetOrdering(S)
    BY <1>3, <2>1 DEF StrictSubsetOrdering
  <2> QED BY <1>2, <2>1, <2>2
<1> QED BY <1>2, <1>3

(* Induction on finite sets, one element at a time. *)
LEMMA SubsetInduction ==
  ASSUME NEW S, IsFiniteSet(S), NEW G,
         {} \in G,
         \A T \in SUBSET S : \A x \in S \ T : T \in G => T \cup {x} \in G
  PROVE  S \in G
<1>1. SUFFICES ASSUME S \notin G PROVE FALSE
  OBVIOUS
<1>2. PICK T \in SUBSET S : T \notin G /\ \A U \in SUBSET T : U # T => U \in G
  BY <1>1, MinimalSubset
<1>3. PICK x \in T : TRUE
  BY <1>2
<1>4. T \ {x} \in SUBSET S /\ x \in S \ (T \ {x}) /\ (T \ {x}) \cup {x} = T
  BY <1>3
<1>5. T \ {x} \in G
  BY <1>2, <1>3
<1> QED BY <1>2, <1>4, <1>5

-----------------------------------------------------------------------------
(* The recursion behind SumFunctionOnSet. *)

Chosen(s) == CHOOSE x \in s : TRUE

(* g is the running sum of f over the sets of D. *)
RunningSum(g, f, D) ==
  g = [s \in D |-> IF s = {} THEN 0 ELSE f[Chosen(s)] + g[s \ {Chosen(s)}]]

TheRunningSum(f, S) == CHOOSE g : RunningSum(g, f, SUBSET S)

(* SumFunctionOnSet is defined by choosing a running sum. *)
LEMMA SumIsRunningSum ==
  ASSUME NEW S, NEW f
  PROVE  SumFunctionOnSet(f, S) = TheRunningSum(f, S)[S]
BY DEF SumFunctionOnSet, FoldFunctionOnSet, MapThenFoldSet, TheRunningSum, RunningSum, Chosen

(* The chosen element leaves a smaller subset. *)
LEMMA ChosenLeaves ==
  ASSUME NEW S, IsFiniteSet(S), NEW s \in SUBSET S
  PROVE  /\ Cardinality(s) \in Nat /\ (Cardinality(s) = 0 <=> s = {})
         /\ s # {} => /\ Chosen(s) \in s
                      /\ s \ {Chosen(s)} \in SUBSET S
                      /\ Cardinality(s \ {Chosen(s)}) = Cardinality(s) - 1
<1>1. IsFiniteSet(s) /\ Cardinality(s) \in Nat /\ (Cardinality(s) = 0 <=> s = {})
  BY FS_Subset, FS_CardinalityType, FS_EmptySet
<1>2. s # {} => Chosen(s) \in s
  BY DEF Chosen
<1>3. s # {} => Cardinality(s \ {Chosen(s)}) = Cardinality(s) - 1
  BY <1>1, <1>2, FS_RemoveElement
<1> QED BY <1>1, <1>2, <1>3

(* A running sum over the subsets of a finite set exists. *)
LEMMA RunningSumExists ==
  ASSUME NEW S, IsFiniteSet(S), NEW f
  PROVE  RunningSum(TheRunningSum(f, S), f, SUBSET S)
<1> DEFINE D(n) == {s \in SUBSET S : Cardinality(s) <= n}
           G == {n \in Nat : \E g : RunningSum(g, f, D(n))}
<1>1. 0 \in G
  <2>1. \A s \in D(0) : s = {}
    <3> TAKE s \in D(0)
    <3>1. s \in SUBSET S /\ Cardinality(s) <= 0
      OBVIOUS
    <3>2. Cardinality(s) \in Nat /\ (Cardinality(s) = 0 <=> s = {})
      BY <3>1, ChosenLeaves
    <3> QED BY <3>1, <3>2
  <2>2. RunningSum([s \in D(0) |-> 0], f, D(0))
    <3> HIDE DEF D
    <3> QED BY <2>1 DEF RunningSum
  <2> QED BY <2>2
<1>2. ASSUME NEW n \in Nat, n \in G PROVE n + 1 \in G
  <2>1. PICK g : RunningSum(g, f, D(n))
    BY <1>2
  <2>2. \A s \in D(n) : s \in D(n+1)
    <3> TAKE s \in D(n)
    <3>1. s \in SUBSET S /\ Cardinality(s) <= n
      OBVIOUS
    <3>2. Cardinality(s) \in Nat
      BY <3>1, ChosenLeaves
    <3> QED BY <3>1, <3>2
  <2>3. \A s \in D(n+1) : s # {} => s \ {Chosen(s)} \in D(n)
    <3> TAKE s \in D(n+1)
    <3> QED BY ChosenLeaves
  <2>4. {} \in D(n)
    BY FS_EmptySet
  <2> DEFINE h == [s \in D(n+1) |-> IF s \in D(n) THEN g[s]
                                    ELSE f[Chosen(s)] + g[s \ {Chosen(s)}]]
             h1 == [s \in D(n+1) |-> IF s = {} THEN 0 ELSE f[Chosen(s)] + h[s \ {Chosen(s)}]]
  <2> HIDE DEF D
  <2>5. \A s \in D(n) : g[s] = IF s = {} THEN 0 ELSE f[Chosen(s)] + g[s \ {Chosen(s)}]
    BY <2>1 DEF RunningSum
  <2>6. \A s \in D(n+1) : h[s] = IF s = {} THEN 0 ELSE f[Chosen(s)] + h[s \ {Chosen(s)}]
    BY <2>2, <2>3, <2>4, <2>5
  <2>7. h = h1
    BY <2>6
  <2>8. RunningSum(h, f, D(n+1))
    BY <2>7 DEF RunningSum
  <2> QED BY <2>8
<1>3. Cardinality(S) \in G
  <2> HIDE DEF G
  <2> QED BY <1>1, <1>2, NatSetInduction, FS_CardinalityType
<1>4. D(Cardinality(S)) = SUBSET S
  <2>1. \A s \in SUBSET S : Cardinality(s) <= Cardinality(S)
    BY FS_Subset
  <2> QED BY <2>1
<1>5. \E g : RunningSum(g, f, SUBSET S)
  BY <1>3, <1>4
<1> QED BY <1>5 DEF TheRunningSum

(* Running sums of functions that agree are the same. *)
LEMMA RunningSumUnique ==
  ASSUME NEW S, IsFiniteSet(S), NEW T, T \subseteq S,
         NEW f, NEW e, \A x \in T : e[x] = f[x]
  PROVE  TheRunningSum(f, S)[T] = TheRunningSum(e, T)[T]
<1> DEFINE g == TheRunningSum(f, S)
           h == TheRunningSum(e, T)
           G == {U \in SUBSET T : g[U] = h[U]}
<1>1. SUFFICES ASSUME T \notin G PROVE FALSE
  OBVIOUS
<1>2. IsFiniteSet(T) /\ RunningSum(g, f, SUBSET S) /\ RunningSum(h, e, SUBSET T)
  BY FS_Subset, RunningSumExists
<1> HIDE DEF g, h
<1>3. PICK U \in SUBSET T : U \notin G /\ \A V \in SUBSET U : V # U => V \in G
  <2> HIDE DEF G
  <2> QED BY <1>1, <1>2, MinimalSubset
<1>4. /\ g[U] = IF U = {} THEN 0 ELSE f[Chosen(U)] + g[U \ {Chosen(U)}]
      /\ h[U] = IF U = {} THEN 0 ELSE e[Chosen(U)] + h[U \ {Chosen(U)}]
  <2>1. U \in SUBSET S /\ U \in SUBSET T
    OBVIOUS
  <2> QED BY <1>2, <2>1 DEF RunningSum
<1>5. CASE U = {}
  BY <1>3, <1>4, <1>5
<1>6. CASE U # {}
  <2>1. Chosen(U) \in U /\ U \ {Chosen(U)} \in SUBSET U /\ U \ {Chosen(U)} # U
    BY <1>2, <1>6, ChosenLeaves
  <2>2. U \ {Chosen(U)} \in G
    BY <1>3, <2>1
  <2> QED BY <1>3, <1>4, <1>6, <2>1, <2>2
<1> QED BY <1>5, <1>6

-----------------------------------------------------------------------------
(* Sums. *)

(* The empty sum, and the sum taken apart at the chosen element. *)
LEMMA SumChosen ==
  ASSUME NEW S, IsFiniteSet(S), NEW f
  PROVE  SumFunctionOnSet(f, S) =
           IF S = {} THEN 0
           ELSE f[Chosen(S)] + SumFunctionOnSet(f, S \ {Chosen(S)})
<1> DEFINE T == S \ {Chosen(S)}
           g == TheRunningSum(f, S)
<1>1. RunningSum(g, f, SUBSET S)
  BY RunningSumExists
<1>2. g[S] = IF S = {} THEN 0 ELSE f[Chosen(S)] + g[T]
  <2> HIDE DEF g
  <2> QED BY <1>1 DEF RunningSum
<1>3. g[T] = TheRunningSum(f, T)[T]
  BY RunningSumUnique
<1> QED BY <1>2, <1>3, SumIsRunningSum

(* Only the values on the set matter. *)
LEMMA SumSame ==
  ASSUME NEW S, IsFiniteSet(S), NEW f, NEW e, \A x \in S : e[x] = f[x]
  PROVE  SumFunctionOnSet(f, S) = SumFunctionOnSet(e, S)
BY RunningSumUnique, SumIsRunningSum

(* A sum of integers is an integer. *)
LEMMA SumInt ==
  ASSUME NEW S, IsFiniteSet(S), NEW f, \A x \in S : f[x] \in Int
  PROVE  SumFunctionOnSet(f, S) \in Int
<1> DEFINE G == {T \in SUBSET S : SumFunctionOnSet(f, T) \in Int}
<1>1. SUFFICES ASSUME S \notin G PROVE FALSE
  OBVIOUS
<1>2. PICK T \in SUBSET S : T \notin G /\ \A U \in SUBSET T : U # T => U \in G
  <2> HIDE DEF G
  <2> QED BY <1>1, MinimalSubset
<1>3. IsFiniteSet(T)
  BY FS_Subset
<1>4. T # {} => Chosen(T) \in T /\ T \ {Chosen(T)} \in SUBSET T /\ T \ {Chosen(T)} # T
  BY <1>3, ChosenLeaves
<1>5. SumFunctionOnSet(f, T) = IF T = {} THEN 0
                               ELSE f[Chosen(T)] + SumFunctionOnSet(f, T \ {Chosen(T)})
  BY <1>3, SumChosen
<1>6. T # {} => SumFunctionOnSet(f, T \ {Chosen(T)}) \in Int /\ f[Chosen(T)] \in Int
  BY <1>2, <1>4
<1>7. SumFunctionOnSet(f, T) \in Int
  BY <1>5, <1>6
<1> QED BY <1>2, <1>7

(* Any element can be taken out first. *)
LEMMA SumRemove ==
  ASSUME NEW S, IsFiniteSet(S), NEW f, \A x \in S : f[x] \in Int, NEW x \in S
  PROVE  SumFunctionOnSet(f, S) = f[x] + SumFunctionOnSet(f, S \ {x})
<1> DEFINE Sum(T) == SumFunctionOnSet(f, T)
           G == {T \in SUBSET S : \A y \in T : Sum(T) = f[y] + Sum(T \ {y})}
<1>1. SUFFICES ASSUME S \notin G PROVE FALSE
  OBVIOUS
<1>2. PICK T \in SUBSET S : T \notin G /\ \A U \in SUBSET T : U # T => U \in G
  <2> HIDE DEF G
  <2> QED BY <1>1, MinimalSubset
<1>3. PICK y \in T : Sum(T) # f[y] + Sum(T \ {y})
  BY <1>2
<1> DEFINE c == Chosen(T)
<1>4. IsFiniteSet(T) /\ c \in T
  BY <1>3, FS_Subset, ChosenLeaves
<1>5. Sum(T) = f[c] + Sum(T \ {c})
  BY <1>3, <1>4, SumChosen
<1> HIDE DEF c, Sum
<1>6. c # y
  BY <1>3, <1>5
<1>7. Sum(T \ {c}) = f[y] + Sum((T \ {c}) \ {y})
  <2>1. T \ {c} \in G
    BY <1>2, <1>4
  <2> QED BY <2>1, <1>6
<1>8. Sum(T \ {y}) = f[c] + Sum((T \ {y}) \ {c})
  <2>1. T \ {y} \in G
    BY <1>2, <1>3
  <2> QED BY <2>1, <1>4, <1>6
<1>9. (T \ {c}) \ {y} = (T \ {y}) \ {c}
  OBVIOUS
<1>10. Sum((T \ {y}) \ {c}) \in Int /\ f[c] \in Int /\ f[y] \in Int
  <2>1. IsFiniteSet((T \ {y}) \ {c}) /\ \A z \in (T \ {y}) \ {c} : f[z] \in Int
    BY <1>4, FS_Subset
  <2>2. Sum((T \ {y}) \ {c}) \in Int
    BY <2>1, SumInt DEF Sum
  <2> QED BY <2>2, <1>4
<1>11. Sum(T) = f[c] + (f[y] + Sum((T \ {y}) \ {c}))
  BY <1>5, <1>7, <1>9
<1>12. Sum(T) = f[y] + (f[c] + Sum((T \ {y}) \ {c}))
  BY <1>10, <1>11
<1> QED BY <1>3, <1>8, <1>12

(* The empty sum, and a sum with one element more. *)
LEMMA SumEmpty == \A f : SumFunctionOnSet(f, {}) = 0
BY SumChosen, FS_EmptySet

LEMMA SumInsert ==
  ASSUME NEW S, IsFiniteSet(S), NEW x, x \notin S, NEW f, \A y \in S \cup {x} : f[y] \in Int
  PROVE  SumFunctionOnSet(f, S \cup {x}) = f[x] + SumFunctionOnSet(f, S)
<1>1. IsFiniteSet(S \cup {x}) /\ (S \cup {x}) \ {x} = S
  BY FS_AddElement
<1> QED BY <1>1, SumRemove

(* Sums add up pointwise. *)
LEMMA SumAdd ==
  ASSUME NEW S, IsFiniteSet(S), NEW f, NEW g, NEW h,
         \A x \in S : f[x] \in Int /\ g[x] \in Int /\ h[x] = f[x] + g[x]
  PROVE  SumFunctionOnSet(h, S) = SumFunctionOnSet(f, S) + SumFunctionOnSet(g, S)
<1> DEFINE Sum(e, T) == SumFunctionOnSet(e, T)
           G == {T \in SUBSET S : Sum(h, T) = Sum(f, T) + Sum(g, T)}
<1>1. {} \in G
  BY SumEmpty
<1>2. ASSUME NEW T \in SUBSET S, NEW x \in S \ T, T \in G PROVE T \cup {x} \in G
  <2>1. IsFiniteSet(T)
    BY FS_Subset
  <2>2. \A y \in T \cup {x} : f[y] \in Int /\ g[y] \in Int /\ h[y] \in Int
    OBVIOUS
  <2>3. /\ Sum(f, T \cup {x}) = f[x] + Sum(f, T)
        /\ Sum(g, T \cup {x}) = g[x] + Sum(g, T)
        /\ Sum(h, T \cup {x}) = h[x] + Sum(h, T)
    BY <2>1, <2>2, SumInsert
  <2>4. Sum(f, T) \in Int /\ Sum(g, T) \in Int
    BY <2>1, <2>2, SumInt
  <2>5. Sum(h, T) = Sum(f, T) + Sum(g, T) /\ h[x] = f[x] + g[x] /\ f[x] \in Int /\ g[x] \in Int
    BY <1>2
  <2> HIDE DEF Sum
  <2>6. Sum(h, T \cup {x}) = Sum(f, T \cup {x}) + Sum(g, T \cup {x})
    BY <2>3, <2>4, <2>5
  <2> QED BY <2>6
<1>3. S \in G
  <2> HIDE DEF G
  <2> QED BY <1>1, <1>2, SubsetInduction
<1> QED BY <1>3

(* Sums are monotonic. *)
LEMMA SumMonotonic ==
  ASSUME NEW S, IsFiniteSet(S), NEW f, NEW g,
         \A x \in S : f[x] \in Int /\ g[x] \in Int /\ f[x] <= g[x]
  PROVE  SumFunctionOnSet(f, S) <= SumFunctionOnSet(g, S)
<1> DEFINE Sum(e, T) == SumFunctionOnSet(e, T)
           G == {T \in SUBSET S : Sum(f, T) <= Sum(g, T)}
<1>1. {} \in G
  BY SumEmpty
<1>2. ASSUME NEW T \in SUBSET S, NEW x \in S \ T, T \in G PROVE T \cup {x} \in G
  <2>1. IsFiniteSet(T)
    BY FS_Subset
  <2>2. \A y \in T \cup {x} : f[y] \in Int /\ g[y] \in Int
    OBVIOUS
  <2>3. /\ Sum(f, T \cup {x}) = f[x] + Sum(f, T)
        /\ Sum(g, T \cup {x}) = g[x] + Sum(g, T)
    BY <2>1, <2>2, SumInsert
  <2>4. Sum(f, T) \in Int /\ Sum(g, T) \in Int
    BY <2>1, <2>2, SumInt
  <2>5. Sum(f, T) <= Sum(g, T) /\ f[x] \in Int /\ g[x] \in Int /\ f[x] <= g[x]
    BY <1>2
  <2> HIDE DEF Sum
  <2>6. Sum(f, T \cup {x}) <= Sum(g, T \cup {x})
    BY <2>3, <2>4, <2>5
  <2> QED BY <2>6
<1>3. S \in G
  <2> HIDE DEF G
  <2> QED BY <1>1, <1>2, SubsetInduction
<1> QED BY <1>3

(* A sum of zeros is zero. *)
LEMMA SumZero ==
  ASSUME NEW S, IsFiniteSet(S), NEW f, \A x \in S : f[x] = 0
  PROVE  SumFunctionOnSet(f, S) = 0
<1>1. SumFunctionOnSet(f, S) = SumFunctionOnSet(f, S) + SumFunctionOnSet(f, S)
  <2>1. \A x \in S : f[x] \in Int /\ f[x] = f[x] + f[x]
    OBVIOUS
  <2> QED BY <2>1, SumAdd
<1>2. SumFunctionOnSet(f, S) \in Int
  BY SumInt
<1>3. \A n \in Int : n = n + n => n = 0
  OBVIOUS
<1> QED BY <1>1, <1>2, <1>3

(* A sum of natural numbers is one. *)
LEMMA SumNat ==
  ASSUME NEW S, IsFiniteSet(S), NEW f, \A x \in S : f[x] \in Nat
  PROVE  SumFunctionOnSet(f, S) \in Nat
<1> DEFINE z == [x \in S |-> 0]
<1>1. \A x \in S : z[x] \in Int /\ f[x] \in Int /\ z[x] <= f[x] /\ z[x] = 0
  OBVIOUS
<1> HIDE DEF z
<1>2. SumFunctionOnSet(z, S) = 0
  BY <1>1, SumZero
<1>3. SumFunctionOnSet(z, S) <= SumFunctionOnSet(f, S)
  BY <1>1, SumMonotonic
<1>4. SumFunctionOnSet(f, S) \in Int
  BY <1>1, SumInt
<1> QED BY <1>2, <1>3, <1>4

(* The sum over two disjoint sets. *)
LEMMA SumUnion ==
  ASSUME NEW S, IsFiniteSet(S), NEW U, IsFiniteSet(U), S \cap U = {},
         NEW f, \A x \in S \cup U : f[x] \in Int
  PROVE  SumFunctionOnSet(f, S \cup U) = SumFunctionOnSet(f, S) + SumFunctionOnSet(f, U)
<1> DEFINE Sum(T) == SumFunctionOnSet(f, T)
           G == {T \in SUBSET S : Sum(T \cup U) = Sum(T) + Sum(U)}
<1>0. Sum(U) \in Int
  BY SumInt
<1>1. {} \in G
  <2>1. {} \cup U = U /\ Sum({}) = 0
    BY SumEmpty
  <2> QED BY <1>0, <2>1
<1>2. ASSUME NEW T \in SUBSET S, NEW x \in S \ T, T \in G PROVE T \cup {x} \in G
  <2>1. IsFiniteSet(T) /\ IsFiniteSet(T \cup U)
    BY FS_Subset, FS_Union
  <2>2. /\ \A y \in T \cup {x} : f[y] \in Int
        /\ \A y \in (T \cup U) \cup {x} : f[y] \in Int
        /\ x \notin T \cup U
    OBVIOUS
  <2>3. /\ Sum(T \cup {x}) = f[x] + Sum(T)
        /\ Sum((T \cup U) \cup {x}) = f[x] + Sum(T \cup U)
    BY <2>1, <2>2, SumInsert
  <2>4. Sum(T) \in Int /\ f[x] \in Int
    BY <2>1, <2>2, SumInt
  <2>5. Sum(T \cup U) = Sum(T) + Sum(U)
    BY <1>2
  <2>6. (T \cup {x}) \cup U = (T \cup U) \cup {x}
    OBVIOUS
  <2> HIDE DEF Sum
  <2>7. \A a, b, c \in Int : a + (b + c) = (a + b) + c
    OBVIOUS
  <2>8. Sum((T \cup U) \cup {x}) = f[x] + (Sum(T) + Sum(U))
    BY <2>3, <2>5
  <2>9. Sum((T \cup U) \cup {x}) = (f[x] + Sum(T)) + Sum(U)
    BY <1>0, <2>4, <2>7, <2>8
  <2>10. Sum((T \cup {x}) \cup U) = Sum(T \cup {x}) + Sum(U)
    BY <2>3, <2>6, <2>9
  <2> QED BY <2>10
<1>3. S \in G
  <2> HIDE DEF G
  <2> QED BY <1>1, <1>2, SubsetInduction
<1> QED BY <1>3

(* A sum of natural numbers grows with its set. *)
LEMMA SumSubset ==
  ASSUME NEW S, IsFiniteSet(S), NEW T, T \subseteq S, NEW f, \A x \in S : f[x] \in Nat
  PROVE  /\ SumFunctionOnSet(f, T) \in Nat /\ SumFunctionOnSet(f, S) \in Nat
         /\ SumFunctionOnSet(f, T) <= SumFunctionOnSet(f, S)
<1>1. IsFiniteSet(T) /\ IsFiniteSet(S \ T) /\ T \cap (S \ T) = {} /\ T \cup (S \ T) = S
  BY FS_Subset
<1>2. \A x \in T \cup (S \ T) : f[x] \in Int
  OBVIOUS
<1>3. SumFunctionOnSet(f, T \cup (S \ T)) = SumFunctionOnSet(f, T) + SumFunctionOnSet(f, S \ T)
  BY <1>1, <1>2, SumUnion
<1>4. /\ SumFunctionOnSet(f, T) \in Nat /\ SumFunctionOnSet(f, S \ T) \in Nat
      /\ SumFunctionOnSet(f, S) \in Nat
  BY <1>1, SumNat
<1>5. \A a, b \in Nat : a <= a + b
  OBVIOUS
<1>6. SumFunctionOnSet(f, S) = SumFunctionOnSet(f, T) + SumFunctionOnSet(f, S \ T)
  BY <1>1, <1>3
<1> QED BY <1>4, <1>5, <1>6

(* Counting: a sum of ones over part of a set. *)
LEMMA SumCounts ==
  ASSUME NEW S, IsFiniteSet(S), NEW T, T \subseteq S, NEW f,
         \A x \in S : f[x] = IF x \in T THEN 1 ELSE 0
  PROVE  SumFunctionOnSet(f, S) = Cardinality(T)
<1> DEFINE G == {U \in SUBSET S : SumFunctionOnSet(f, U) = Cardinality(U \cap T)}
<1>1. {} \in G
  <2>1. {} \cap T = {}
    OBVIOUS
  <2> QED BY <2>1, SumEmpty, FS_EmptySet
<1>2. ASSUME NEW U \in SUBSET S, NEW x \in S \ U, U \in G PROVE U \cup {x} \in G
  <2>1. IsFiniteSet(U) /\ IsFiniteSet(U \cap T)
    BY FS_Subset
  <2>2. \A y \in U \cup {x} : f[y] \in Int
    OBVIOUS
  <2>3. SumFunctionOnSet(f, U \cup {x}) = f[x] + SumFunctionOnSet(f, U)
    BY <2>1, <2>2, SumInsert
  <2>4. /\ x \in T => (U \cup {x}) \cap T = (U \cap T) \cup {x}
        /\ x \notin T => (U \cup {x}) \cap T = U \cap T
        /\ x \notin U \cap T
    OBVIOUS
  <2>5. Cardinality((U \cap T) \cup {x}) = Cardinality(U \cap T) + 1
    BY <2>1, <2>4, FS_AddElement
  <2>6. SumFunctionOnSet(f, U) = Cardinality(U \cap T) /\ Cardinality(U \cap T) \in Nat
    BY <1>2, <2>1, FS_CardinalityType
  <2>7. SumFunctionOnSet(f, U \cup {x}) = Cardinality((U \cup {x}) \cap T)
    BY <2>3, <2>4, <2>5, <2>6
  <2> QED BY <2>7
<1>3. S \in G
  <2> HIDE DEF G
  <2> QED BY <1>1, <1>2, SubsetInduction
<1>4. S \cap T = T
  OBVIOUS
<1> QED BY <1>3, <1>4

(* Scaling. *)
LEMMA SumScale ==
  ASSUME NEW S, IsFiniteSet(S), NEW c \in Int, NEW f, NEW g,
         \A x \in S : f[x] \in Int /\ g[x] = f[x] * c
  PROVE  SumFunctionOnSet(g, S) = SumFunctionOnSet(f, S) * c
<1> DEFINE Sum(e, T) == SumFunctionOnSet(e, T)
           G == {T \in SUBSET S : Sum(g, T) = Sum(f, T) * c}
<1>1. {} \in G
  BY SumEmpty
<1>2. ASSUME NEW T \in SUBSET S, NEW x \in S \ T, T \in G PROVE T \cup {x} \in G
  <2>1. IsFiniteSet(T)
    BY FS_Subset
  <2>2. \A y \in T \cup {x} : f[y] \in Int /\ g[y] \in Int
    OBVIOUS
  <2>3. /\ Sum(f, T \cup {x}) = f[x] + Sum(f, T)
        /\ Sum(g, T \cup {x}) = g[x] + Sum(g, T)
    BY <2>1, <2>2, SumInsert
  <2>4. Sum(f, T) \in Int /\ f[x] \in Int /\ g[x] = f[x] * c /\ Sum(g, T) = Sum(f, T) * c
    BY <1>2, <2>1, <2>2, SumInt
  <2> HIDE DEF Sum
  <2>5. (f[x] + Sum(f, T)) * c = f[x] * c + Sum(f, T) * c
    BY <2>4
  <2>6. Sum(g, T \cup {x}) = Sum(f, T \cup {x}) * c
    BY <2>3, <2>4, <2>5
  <2> QED BY <2>6
<1>3. S \in G
  <2> HIDE DEF G
  <2> QED BY <1>1, <1>2, SubsetInduction
<1> QED BY <1>3

-----------------------------------------------------------------------------
(* Arithmetic. *)

(* Integer division brackets the dividend. *)
LEMMA DivBrackets ==
  ASSUME NEW a \in Nat, NEW d \in Nat, d > 0
  PROVE  /\ a \div d \in Nat
         /\ (a \div d) * d <= a
         /\ a < (a \div d) * d + d
OBVIOUS

(* Multiplication by a natural number is monotonic. *)
LEMMA MulMonotonic ==
  ASSUME NEW a \in Nat, NEW b \in Nat, NEW d \in Nat, a <= b
  PROVE  a * d <= b * d /\ a * d \in Nat /\ b * d \in Nat
OBVIOUS

(* A quotient reaches c exactly when the dividend reaches c * d. *)
LEMMA DivReaches ==
  ASSUME NEW a \in Nat, NEW d \in Nat, d > 0, NEW c \in Nat
  PROVE  (a \div d >= c) <=> (a >= c * d)
<1> DEFINE q == a \div d
<1>1. q \in Nat /\ q * d <= a /\ a < q * d + d
  BY DivBrackets
<1> HIDE DEF q
<1>2. q >= c => q * d >= c * d
  BY <1>1, MulMonotonic
<1>3. q < c => (q + 1) * d <= c * d
  BY <1>1, MulMonotonic
<1>4. (q + 1) * d = q * d + d /\ c * d \in Nat /\ q * d \in Nat
  BY <1>1
<1> QED BY <1>1, <1>2, <1>3, <1>4 DEF q

(* Division by d is monotonic. *)
LEMMA DivMonotonic ==
  ASSUME NEW a \in Nat, NEW b \in Nat, NEW d \in Nat, d > 0, a <= b
  PROVE  a \div d <= b \div d
<1>1. (b \div d >= a \div d) <=> (b >= (a \div d) * d)
  BY DivReaches, DivBrackets
<1> QED BY <1>1, DivBrackets

(* ceil_div: n times d reaches m exactly when n reaches the ceiling. *)
LEMMA CeilDivReaches ==
  ASSUME NEW m \in Nat, NEW d \in Nat, d > 0, NEW n \in Nat
  PROVE  CeilDiv(m, d) \in Nat /\ ((n * d >= m) <=> (n >= CeilDiv(m, d)))
<1> DEFINE c == (m + d - 1) \div d
<1>0. m + d - 1 \in Nat
  OBVIOUS
<1>1. c \in Nat /\ c * d <= m + d - 1 /\ m + d - 1 < c * d + d
  BY <1>0, DivBrackets
<1> HIDE DEF c
<1>2. n >= c => n * d >= c * d
  BY <1>1, MulMonotonic
<1>3. n < c => (n + 1) * d <= c * d
  BY <1>1, MulMonotonic
<1>4. (n + 1) * d = n * d + d /\ c * d \in Nat /\ n * d \in Nat
  BY <1>1
<1>5. (n * d >= m) <=> (n >= c)
  BY <1>1, <1>2, <1>3, <1>4
<1> QED BY <1>1, <1>5 DEF c, CeilDiv

-----------------------------------------------------------------------------
(* The fall of a clock. *)

(* How far the price of this kind has fallen, before i64 saturation. *)
Fallen(kind, elapsed) ==
  IF kind.kind = "Stepped" THEN (elapsed \div kind.step_duration) * kind.step_size
  ELSE (elapsed * kind.rate_per_sec) \div NanosPerSec

(* Saturation caps the fall at I64Max and changes nothing else. *)
LEMMA DropIsFallen ==
  ASSUME NEW kind \in ScheduleKind, ~JumpsToFloor(kind), NEW e \in U64
  PROVE  /\ Fallen(kind, e) \in Nat
         /\ Drop(kind, e) = AtMost(Fallen(kind, e), I64Max)
         /\ Drop(kind, e) \in 0..I64Max
<1> USE WidthsAssumption
<1>1. CASE kind.kind = "Stepped"
  <2> DEFINE n == e \div kind.step_duration
             z == kind.step_size
  <2>1. z \in 0..I64Max /\ kind.step_duration \in Nat /\ kind.step_duration > 0 /\ e \in Nat
    BY <1>1 DEF ScheduleKind, JumpsToFloor, U64
  <2>2. n \in Nat
    BY <2>1, DivBrackets
  <2> HIDE DEF n, z
  <2>3. n * z \in Nat /\ I64Max * z \in Nat
    BY <2>1, <2>2
  <2>4. (z >= 1 /\ n > I64Max) => (n * z > I64Max /\ I64Max * z >= I64Max)
    BY <2>1, <2>2, MulMonotonic
  <2>5. z = 0 => n * z = 0 /\ I64Max * z = 0
    BY <2>1, <2>2
  <2>6. SaturatingDrop(n, z) = AtMost(n * z, I64Max) /\ SaturatingDrop(n, z) \in 0..I64Max
    BY <2>1, <2>2, <2>3, <2>4, <2>5 DEF SaturatingDrop, AtMost
  <2>7. Fallen(kind, e) = n * z /\ Drop(kind, e) = SaturatingDrop(n, z)
    BY <1>1 DEF Fallen, Drop, n, z
  <2> QED BY <2>3, <2>6, <2>7
<1>2. CASE kind.kind # "Stepped"
  <2>1. kind.rate_per_sec \in Nat /\ e \in Nat
    BY <1>2 DEF ScheduleKind, U64
  <2>2. e * kind.rate_per_sec \in Nat
    BY <2>1
  <2>3. Fallen(kind, e) \in Nat
    BY <1>2, <2>2, DivBrackets DEF Fallen
  <2>4. Drop(kind, e) = AtMost(Fallen(kind, e), I64Max)
    BY <1>2 DEF Fallen, Drop
  <2> QED BY <2>3, <2>4 DEF AtMost
<1> QED BY <1>1, <1>2

(* A clock that has run longer has fallen at least as far. *)
LEMMA FallenMonotonic ==
  ASSUME NEW kind \in ScheduleKind, ~JumpsToFloor(kind),
         NEW e \in U64, NEW f \in U64, e <= f
  PROVE  Fallen(kind, e) <= Fallen(kind, f)
<1> USE WidthsAssumption
<1>0. e \in Nat /\ f \in Nat
  BY DEF U64
<1>1. CASE kind.kind = "Stepped"
  <2>1. kind.step_size \in Nat /\ kind.step_duration \in Nat /\ kind.step_duration > 0
    BY <1>1 DEF ScheduleKind, JumpsToFloor, U64
  <2>2. e \div kind.step_duration <= f \div kind.step_duration
    BY <2>1, <1>0, DivMonotonic
  <2>3. e \div kind.step_duration \in Nat /\ f \div kind.step_duration \in Nat
    BY <2>1, <1>0, DivBrackets
  <2> QED BY <1>1, <2>1, <2>2, <2>3, MulMonotonic DEF Fallen
<1>2. CASE kind.kind # "Stepped"
  <2>1. kind.rate_per_sec \in Nat
    BY <1>2 DEF ScheduleKind
  <2>2. /\ e * kind.rate_per_sec <= f * kind.rate_per_sec
        /\ e * kind.rate_per_sec \in Nat /\ f * kind.rate_per_sec \in Nat
    BY <2>1, <1>0, MulMonotonic
  <2> QED BY <1>2, <2>2, DivMonotonic DEF Fallen
<1> QED BY <1>1, <1>2

(* The price is an integer between the floor and the start (I3). *)
LEMMA PriceInBounds ==
  ASSUME NEW s, IsSchedule(s), NEW e \in U64
  PROVE  PriceAt(s, e) \in Int /\ s.floor_price <= PriceAt(s, e) /\ PriceAt(s, e) <= s.start_price
<1>1. CASE JumpsToFloor(s.kind)
  BY <1>1 DEF PriceAt, IsSchedule, I64
<1>2. CASE ~JumpsToFloor(s.kind)
  BY <1>2, DropIsFallen, WidthsAssumption DEF PriceAt, IsSchedule, I64, ClampTo, AtMost, SatI64
<1> QED BY <1>1, <1>2

(* The clock only descends. *)
LEMMA PriceMonotonic ==
  ASSUME NEW s, IsSchedule(s), NEW e \in U64, NEW f \in U64, e <= f
  PROVE  PriceAt(s, f) <= PriceAt(s, e)
<1>1. CASE JumpsToFloor(s.kind)
  BY <1>1 DEF PriceAt, IsSchedule, I64
<1>2. CASE ~JumpsToFloor(s.kind)
  <2>1. Drop(s.kind, e) <= Drop(s.kind, f)
    BY <1>2, DropIsFallen, FallenMonotonic, WidthsAssumption DEF AtMost, IsSchedule
  <2>2. Drop(s.kind, e) \in Int /\ Drop(s.kind, f) \in Int
    BY <1>2, DropIsFallen DEF IsSchedule
  <2> QED BY <1>2, <2>1, <2>2, WidthsAssumption DEF PriceAt, IsSchedule, I64, ClampTo, AtMost, SatI64
<1> QED BY <1>1, <1>2

-----------------------------------------------------------------------------
(* time_to_reach. *)

(* Prices of the schedule are at most I64Max apart, so that no difference  *)
(* of two of them saturates.                                               *)
NarrowRange(s) == s.start_price - s.floor_price <= I64Max

(* Between floor and start, the target is met once the fall reaches it. *)
LEMMA MetWhenFallen ==
  ASSUME NEW s, IsSchedule(s), ~JumpsToFloor(s.kind), NarrowRange(s),
         NEW e \in U64, NEW target \in Int,
         s.floor_price <= target, target <= s.start_price
  PROVE  PriceAt(s, e) <= target <=> Fallen(s.kind, e) >= s.start_price - target
<1>1. /\ Fallen(s.kind, e) \in Nat
      /\ Drop(s.kind, e) = AtMost(Fallen(s.kind, e), I64Max)
      /\ Drop(s.kind, e) \in 0..I64Max
  BY DropIsFallen DEF IsSchedule
<1> QED BY <1>1, WidthsAssumption
        DEF PriceAt, IsSchedule, I64, ClampTo, AtMost, SatI64, NarrowRange

(* The instant time_to_reach computes is where the fall reaches `drop`. *)
LEMMA FallenAtTimeToDrop ==
  ASSUME NEW kind \in ScheduleKind, ~JumpsToFloor(kind), Rate(kind) # 0,
         NEW e \in U64, NEW drop \in Nat, TimeToDrop(kind, drop) # U64Max
  PROVE  e >= TimeToDrop(kind, drop) <=> Fallen(kind, e) >= drop
<1> USE WidthsAssumption
<1>0. e \in Nat
  BY DEF U64
<1>1. CASE kind.kind = "Stepped"
  <2> DEFINE d == kind.step_duration
             z == kind.step_size
             c == CeilDiv(drop, z)
             n == e \div d
  <2>1. z \in Nat /\ z > 0 /\ d \in Nat /\ d > 0
    BY <1>1 DEF ScheduleKind, JumpsToFloor, U64, Rate
  <2>2. c \in Nat /\ n \in Nat
    BY <2>1, <1>0, CeilDivReaches, DivBrackets
  <2>3. (n * z >= drop <=> n >= c) /\ (n >= c <=> e >= c * d)
    BY <2>1, <2>2, <1>0, CeilDivReaches, DivReaches
  <2>4. TimeToDrop(kind, drop) = SatU64(SatU64(c) * d)
    BY <1>1, <2>1 DEF TimeToDrop
  <2>5. Fallen(kind, e) = n * z
    BY <1>1 DEF Fallen
  <2> HIDE DEF c, n, d, z
  <2>6. U64Max * d >= U64Max
    BY <2>1
  <2>7. c * d \in Nat
    BY <2>1, <2>2
  <2>8. TimeToDrop(kind, drop) = c * d
    BY <2>1, <2>2, <2>4, <2>6, <2>7 DEF SatU64, AtMost
  <2> QED BY <2>3, <2>5, <2>8
<1>2. CASE kind.kind # "Stepped"
  <2> DEFINE r == kind.rate_per_sec
             c == CeilDiv(drop * NanosPerSec, r)
  <2>1. r \in Nat /\ r > 0 /\ drop * NanosPerSec \in Nat /\ e * r \in Nat
    BY <1>0, <1>2 DEF ScheduleKind, Rate
  <2>2. c \in Nat /\ (e * r >= drop * NanosPerSec <=> e >= c)
    BY <2>1, <1>0, CeilDivReaches
  <2>3. (e * r) \div NanosPerSec >= drop <=> e * r >= drop * NanosPerSec
    BY <2>1, DivReaches
  <2>4. TimeToDrop(kind, drop) = SatU64(c) /\ Fallen(kind, e) = (e * r) \div NanosPerSec
    BY <1>2 DEF TimeToDrop, Fallen
  <2> HIDE DEF c, r
  <2>5. TimeToDrop(kind, drop) = c
    BY <2>2, <2>4 DEF SatU64, AtMost
  <2> QED BY <2>2, <2>3, <2>4, <2>5
<1> QED BY <1>1, <1>2

(* A clock that does not move has not fallen. *)
LEMMA NoRateNoFall ==
  ASSUME NEW kind \in ScheduleKind, ~JumpsToFloor(kind), Rate(kind) = 0, NEW e \in U64
  PROVE  Fallen(kind, e) = 0
<1>0. e \in Nat
  BY DEF U64
<1>1. CASE kind.kind = "Stepped"
  <2>1. e \div kind.step_duration \in Nat
    BY <1>0, <1>1, DivBrackets DEF ScheduleKind, JumpsToFloor, U64
  <2> QED BY <1>1, <2>1 DEF Fallen, Rate
<1>2. CASE kind.kind # "Stepped"
  BY <1>0, <1>2, WidthsAssumption DEF Fallen, Rate
<1> QED BY <1>1, <1>2

(* time_to_reach is the earliest instant, at every instant. *)
LEMMA TimeToReachCorrect ==
  ASSUME NEW s, IsSchedule(s), ~JumpsToFloor(s.kind), NarrowRange(s),
         NEW e \in U64, NEW target \in Int
  PROVE  IF TimeToReach(s, target) = {} THEN PriceAt(s, e) > target
         ELSE \A t \in TimeToReach(s, target) \ {U64Max} : e >= t <=> PriceAt(s, e) <= target
<1>0. e \in Nat /\ s.start_price \in Int /\ s.floor_price \in Int /\ s.kind \in ScheduleKind
  BY DEF U64, IsSchedule, I64
<1>1. CASE target > s.start_price
  BY <1>0, <1>1, PriceInBounds DEF TimeToReach
<1>2. CASE target < s.floor_price
  BY <1>0, <1>2, PriceInBounds DEF TimeToReach, IsSchedule
<1>3. CASE s.floor_price <= target /\ target <= s.start_price
  <2> DEFINE drop == s.start_price - target
  <2>1. drop \in Nat /\ SatI64(drop) = drop
    BY <1>0, <1>3, WidthsAssumption DEF SatI64, AtMost, NarrowRange
  <2>2. PriceAt(s, e) <= target <=> Fallen(s.kind, e) >= drop
    BY <1>0, <1>3, MetWhenFallen
  <2>3. PriceAt(s, e) \in Int
    BY PriceInBounds
  <2>4. CASE Rate(s.kind) = 0
    <3>1. TimeToReach(s, target) = (IF drop = 0 THEN {0} ELSE {})
      BY <1>0, <1>3, <2>1, <2>4 DEF TimeToReach
    <3>2. Fallen(s.kind, e) = 0
      BY <1>0, <2>4, NoRateNoFall
    <3> QED BY <1>0, <2>1, <2>2, <2>3, <3>1, <3>2
  <2>5. CASE Rate(s.kind) # 0
    <3>1. TimeToReach(s, target) = {TimeToDrop(s.kind, drop)}
      BY <1>0, <1>3, <2>1, <2>5 DEF TimeToReach
    <3>2. TimeToDrop(s.kind, drop) # U64Max =>
            (e >= TimeToDrop(s.kind, drop) <=> Fallen(s.kind, e) >= drop)
      BY <1>0, <2>1, <2>5, FallenAtTimeToDrop
    <3> QED BY <2>2, <3>1, <3>2
  <2> QED BY <2>4, <2>5
<1> QED BY <1>0, <1>1, <1>2, <1>3

-----------------------------------------------------------------------------
(* Windows. *)

(* A window's last instant is in the window, and no earlier than any other. *)
LEMMA WindowLastIsLast ==
  ASSUME NEW w \in U64, NEW e \in U64, NEW t \in U64,
         WindowIndex(w, t) = WindowIndex(w, e)
  PROVE  /\ WindowLast(w, e) \in U64
         /\ t <= WindowLast(w, e)
         /\ WindowIndex(w, WindowLast(w, e)) = WindowIndex(w, e)
<1> USE WidthsAssumption
<1>0. w \in Nat /\ e \in Nat /\ t \in Nat
  BY DEF U64
<1>1. CASE w = 0
  BY <1>0, <1>1 DEF WindowLast, WindowIndex
<1>2. CASE w > 0
  <2> DEFINE q == e \div w
  <2>1. q \in Nat /\ q * w <= e /\ e < q * w + w /\ q = t \div w /\ q * w \in Nat
    BY <1>0, <1>2, DivBrackets DEF WindowIndex
  <2>2. t < q * w + w
    BY <1>0, <1>2, <2>1, DivBrackets
  <2> HIDE DEF q
  <2>3. WindowLast(w, e) = AtMost(q * w + (w - 1), U64Max)
    BY <1>0, <1>2, <2>1 DEF WindowLast, WindowIndex, SatU64, AtMost, U64, q
  <2> DEFINE last == WindowLast(w, e)
  <2>4. last \in Nat /\ last >= e /\ last < q * w + w /\ last <= U64Max /\ t <= last
    BY <1>0, <1>2, <2>1, <2>2, <2>3 DEF AtMost, U64
  <2> HIDE DEF last
  <2>5. last \div w >= q
    BY <1>0, <1>2, <2>1, <2>4, DivReaches
  <2>6. (q + 1) * w = q * w + w /\ ~(last \div w >= q + 1)
    BY <1>0, <1>2, <2>1, <2>4, DivReaches
  <2>7. last \div w = q
    BY <1>0, <1>2, <2>1, <2>4, <2>5, <2>6, DivBrackets
  <2> QED BY <1>2, <2>4, <2>7 DEF last, WindowIndex, U64, q
<1> QED BY <1>0, <1>1, <1>2

-----------------------------------------------------------------------------
(* Matching. *)

(* Bids as flush_window finds them: nonzero quantities, one seq each. *)
WellFormed(bids) ==
  /\ \A k \in Present(bids) :
       bids[k].qty \in Nat \ {0} /\ bids[k].priority \in Int /\ bids[k].seq \in Nat
  /\ \A j, k \in Present(bids) : j # k => bids[j].seq # bids[k].seq

Asked(bids) == [k \in Keys |-> IF bids[k] = None THEN 0 ELSE bids[k].qty]

-----------------------------------------------------------------------------
(* Ranks. *)

(* A finite nonempty set has an element with the greatest value of v. *)
LEMMA Greatest ==
  ASSUME NEW S, IsFiniteSet(S), S # {}, NEW v, \A x \in S : v[x] \in Int
  PROVE  \E m \in S : \A x \in S : v[x] <= v[m]
<1> DEFINE G == {T \in SUBSET S : T # {} => \E m \in T : \A x \in T : v[x] <= v[m]}
<1>1. {} \in G
  OBVIOUS
<1>2. ASSUME NEW T \in SUBSET S, NEW y \in S \ T, T \in G PROVE T \cup {y} \in G
  <2>1. CASE T = {}
    BY <2>1
  <2>2. CASE T # {}
    <3>1. PICK m \in T : \A x \in T : v[x] <= v[m]
      BY <1>2, <2>2
    <3>2. CASE v[y] <= v[m]
      BY <3>1, <3>2
    <3>3. CASE ~(v[y] <= v[m])
      <4>1. \A x \in T \cup {y} : v[x] <= v[y]
        BY <3>1, <3>3
      <4> QED BY <4>1
    <3> QED BY <3>2, <3>3
  <2> QED BY <2>1, <2>2
<1>3. S \in G
  <2> HIDE DEF G
  <2> QED BY <1>1, <1>2, SubsetInduction
<1> QED BY <1>3

(* ... and one with the least. *)
LEMMA Least ==
  ASSUME NEW S, IsFiniteSet(S), S # {}, NEW v, \A x \in S : v[x] \in Int
  PROVE  \E m \in S : \A x \in S : v[m] <= v[x]
<1> DEFINE w == [x \in S |-> -v[x]]
<1>1. \A x \in S : w[x] \in Int /\ w[x] = -v[x]
  OBVIOUS
<1> HIDE DEF w
<1>2. PICK m \in S : \A x \in S : w[x] <= w[m]
  BY <1>1, Greatest
<1> QED BY <1>1, <1>2

(* Of the elements of S, exactly n have fewer than n before them. *)
LEMMA FirstOnes ==
  ASSUME NEW S, IsFiniteSet(S), NEW v, \A x \in S : v[x] \in Int,
         \A x, y \in S : x # y => v[x] # v[y],
         NEW n \in Nat, n <= Cardinality(S)
  PROVE  Cardinality({x \in S : Cardinality({y \in S : v[y] < v[x]}) < n}) = n
<1> DEFINE Before(x) == {y \in S : v[y] < v[x]}
           T == {x \in S : Cardinality(Before(x)) < n}
<1>1. \A x : IsFiniteSet(Before(x)) /\ Cardinality(Before(x)) \in Nat
  BY FS_Subset, FS_CardinalityType
<1>2. IsFiniteSet(T) /\ Cardinality(T) \in Nat
  BY FS_Subset, FS_CardinalityType
<1>3. Cardinality(T) <= n
  <2>1. CASE T = {}
    <3> HIDE DEF T
    <3> QED BY <2>1, FS_EmptySet
  <2>2. CASE T # {}
    <3>1. PICK m \in T : \A x \in T : v[x] <= v[m]
      BY <1>2, <2>2, Greatest
    <3>2. T \subseteq Before(m) \cup {m}
      BY <3>1
    <3>3. m \notin Before(m) /\ Cardinality(Before(m)) < n
      BY <3>1
    <3> HIDE DEF T, Before
    <3>4. /\ IsFiniteSet(Before(m) \cup {m})
          /\ Cardinality(Before(m) \cup {m}) = Cardinality(Before(m)) + 1
      BY <1>1, <3>3, FS_AddElement
    <3>5. Cardinality(T) <= Cardinality(Before(m) \cup {m})
      BY <3>2, <3>4, FS_Subset
    <3> QED BY <1>1, <1>2, <3>3, <3>4, <3>5
  <2> QED BY <2>1, <2>2
<1>4. n <= Cardinality(T)
  <2>1. CASE T = S
    BY <2>1
  <2>2. CASE T # S
    <3>1. IsFiniteSet(S \ T) /\ S \ T # {}
      BY <2>2, FS_Subset
    <3>2. PICK m \in S \ T : \A x \in S \ T : v[m] <= v[x]
      <4> HIDE DEF T
      <4> QED BY <3>1, Least
    <3>3. Before(m) \subseteq T
      BY <3>2
    <3>4. ~(Cardinality(Before(m)) < n)
      BY <3>2
    <3> HIDE DEF T, Before
    <3>5. Cardinality(Before(m)) <= Cardinality(T)
      BY <1>2, <3>3, FS_Subset
    <3> QED BY <1>1, <1>2, <3>4, <3>5
  <2> QED BY <2>1, <2>2
<1>5. Cardinality(T) = n
  BY <1>2, <1>3, <1>4
<1> QED BY <1>5

-----------------------------------------------------------------------------
(* One level. *)

(* Demand is the sum of what is asked. *)
LEMMA DemandIsAsked ==
  ASSUME NEW bids, WellFormed(bids), NEW K, K \subseteq Present(bids)
  PROVE  /\ IsFiniteSet(K)
         /\ \A k \in K : Asked(bids)[k] = bids[k].qty /\ Asked(bids)[k] \in Nat
         /\ Demand(bids, K) = SumFunctionOnSet(Asked(bids), K)
         /\ Demand(bids, K) \in Nat
         /\ K # {} => Demand(bids, K) > 0
<1>1. K \subseteq Keys /\ IsFiniteSet(K)
  BY KeysAssumption, FS_Subset DEF Present
<1> DEFINE q == [k \in K |-> bids[k].qty]
           a == Asked(bids)
<1>2. \A k \in K : /\ q[k] = bids[k].qty /\ a[k] = bids[k].qty
                   /\ a[k] \in Nat /\ a[k] > 0
  BY <1>1 DEF Asked, Present, WellFormed
<1>3. Demand(bids, K) = SumFunctionOnSet(q, K)
  BY DEF Demand
<1> HIDE DEF q, a
<1>4. SumFunctionOnSet(q, K) = SumFunctionOnSet(a, K)
  BY <1>1, <1>2, SumSame
<1>5. SumFunctionOnSet(a, K) \in Nat
  BY <1>1, <1>2, SumNat
<1>6. ASSUME NEW k \in K PROVE SumFunctionOnSet(a, K) > 0
  <2>1. SumFunctionOnSet(a, K) = a[k] + SumFunctionOnSet(a, K \ {k})
    <3>1. \A x \in K : a[x] \in Int
      BY <1>2
    <3> QED BY <1>1, <3>1, SumRemove
  <2>2. SumFunctionOnSet(a, K \ {k}) \in Nat
    BY <1>1, <1>2, FS_Subset, SumNat
  <2>3. \A i, j \in Nat : i > 0 => i + j > 0
    OBVIOUS
  <2> QED BY <1>2, <2>1, <2>2, <2>3
<1>7. Demand(bids, K) \in Nat /\ (K # {} => Demand(bids, K) > 0)
  BY <1>3, <1>4, <1>5, <1>6
<1> QED BY <1>1, <1>2, <1>3, <1>4, <1>7 DEF a

(* A floored share: r * q is at least d shares and less than d more. *)
LEMMA FlooredShare ==
  ASSUME NEW r \in Nat, NEW q \in Nat, q > 0, NEW d \in Nat, r < d
  PROVE  /\ (r * q) \div d \in Nat
         /\ (r * q) \div d < q
         /\ ((r * q) \div d) * d <= q * r
         /\ q * r <= ((r * q) \div d) * d + (d - 1)
<1> DEFINE f == (r * q) \div d
<1>1. r * q \in Nat /\ d > 0 /\ r * q = q * r
  OBVIOUS
<1>2. f \in Nat /\ f * d <= r * q /\ r * q < f * d + d /\ f * d \in Nat
  BY <1>1
<1>3. r * q < d * q
  OBVIOUS
<1> HIDE DEF f
<1>4. f >= q => f * d >= q * d
  BY <1>1, <1>2
<1>5. q * d = d * q /\ q * d \in Nat
  OBVIOUS
<1>6. f < q
  BY <1>1, <1>2, <1>3, <1>4, <1>5
<1>7. q * r <= f * d + (d - 1)
  BY <1>1, <1>2
<1> QED BY <1>1, <1>2, <1>6, <1>7 DEF f

(* The floored shares of a level leave less than one unit per bid over. *)
LEMMA SharesLeaveRemainder ==
  ASSUME NEW bids, WellFormed(bids), NEW K, K \subseteq Present(bids),
         NEW r \in Nat, r < Demand(bids, K),
         NEW sh, \A k \in K : sh[k] = (r * bids[k].qty) \div Demand(bids, K)
  PROVE  /\ \A k \in K : sh[k] \in Nat /\ sh[k] < bids[k].qty
         /\ SumFunctionOnSet(sh, K) \in Nat
         /\ SumFunctionOnSet(sh, K) <= r
         /\ r - SumFunctionOnSet(sh, K) <= Cardinality(K)
<1> DEFINE d == Demand(bids, K)
           q == Asked(bids)
           s == SumFunctionOnSet(sh, K)
           n == Cardinality(K)
           shd == [k \in K |-> sh[k] * d]
           qr == [k \in K |-> q[k] * r]
           ones == [k \in K |-> 1]
           slack == [k \in K |-> ones[k] * (d - 1)]
           top == [k \in K |-> shd[k] + slack[k]]
<1>1. /\ IsFiniteSet(K) /\ d \in Nat /\ d = SumFunctionOnSet(q, K)
      /\ \A k \in K : q[k] = bids[k].qty /\ q[k] \in Nat
  BY DemandIsAsked
<1>2. \A k \in K : q[k] > 0
  BY <1>1 DEF WellFormed
<1>3. r < d /\ d - 1 \in Int /\ n \in Nat
  BY <1>1, FS_CardinalityType
<1> HIDE DEF d, q, n
<1>4. \A k \in K : /\ sh[k] \in Nat /\ sh[k] < q[k]
                   /\ sh[k] * d <= q[k] * r
                   /\ q[k] * r <= sh[k] * d + (d - 1)
  <2> TAKE k \in K
  <2>1. sh[k] = (r * q[k]) \div d
    BY <1>1 DEF d
  <2> QED BY <1>1, <1>2, <1>3, <2>1, FlooredShare
<1>5. s \in Nat
  BY <1>1, <1>4, SumNat
<1> HIDE DEF s
<1>6. SumFunctionOnSet(shd, K) = s * d
  <2>1. \A k \in K : sh[k] \in Int /\ shd[k] = sh[k] * d
    BY <1>4
  <2> HIDE DEF shd
  <2> QED BY <1>1, <2>1, SumScale DEF s
<1>7. SumFunctionOnSet(qr, K) = d * r
  <2>1. \A k \in K : q[k] \in Int /\ qr[k] = q[k] * r
    BY <1>1
  <2> HIDE DEF qr
  <2> QED BY <1>1, <2>1, SumScale
<1>8. SumFunctionOnSet(slack, K) = n * (d - 1)
  <2>1. \A k \in K : ones[k] = (IF k \in K THEN 1 ELSE 0) /\ ones[k] \in Int
    OBVIOUS
  <2>2. \A k \in K : slack[k] = ones[k] * (d - 1)
    OBVIOUS
  <2> HIDE DEF ones, slack
  <2>3. SumFunctionOnSet(ones, K) = n
    BY <1>1, <2>1, SumCounts DEF n
  <2> QED BY <1>1, <1>3, <2>1, <2>2, <2>3, SumScale
<1>9. SumFunctionOnSet(top, K) = s * d + n * (d - 1)
  <2>1. \A k \in K : shd[k] \in Int /\ slack[k] \in Int /\ top[k] = shd[k] + slack[k]
    BY <1>1, <1>3, <1>4
  <2> HIDE DEF shd, slack, top
  <2>2. SumFunctionOnSet(top, K) = SumFunctionOnSet(shd, K) + SumFunctionOnSet(slack, K)
    BY <1>1, <2>1, SumAdd
  <2> QED BY <1>6, <1>8, <2>2
<1>10. s * d <= d * r
  <2>1. \A k \in K : shd[k] \in Int /\ qr[k] \in Int /\ shd[k] <= qr[k]
    BY <1>1, <1>4
  <2> HIDE DEF shd, qr
  <2>2. SumFunctionOnSet(shd, K) <= SumFunctionOnSet(qr, K)
    BY <1>1, <2>1, SumMonotonic
  <2> QED BY <1>6, <1>7, <2>2
<1>11. d * r <= s * d + n * (d - 1)
  <2>1. \A k \in K : qr[k] \in Int /\ top[k] \in Int /\ qr[k] <= top[k]
    BY <1>1, <1>3, <1>4
  <2> HIDE DEF top, qr
  <2>2. SumFunctionOnSet(qr, K) <= SumFunctionOnSet(top, K)
    BY <1>1, <2>1, SumMonotonic
  <2> QED BY <1>7, <1>9, <2>2
<1>12. s <= r
  <2>1. s > r => s * d > r * d
    BY <1>1, <1>3, <1>5
  <2>2. r * d = d * r /\ r * d \in Nat /\ s * d \in Nat
    BY <1>1, <1>5
  <2> QED BY <1>5, <1>10, <2>1, <2>2
<1>13. r - s <= n
  <2>1. n * (d - 1) <= n * d /\ (s + n) * d = s * d + n * d
    BY <1>1, <1>3, <1>5
  <2>2. d * r <= (s + n) * d
    BY <1>1, <1>3, <1>5, <1>11, <2>1
  <2>3. r > s + n => r * d > (s + n) * d
    BY <1>1, <1>3, <1>5
  <2>4. r * d = d * r /\ r * d \in Nat /\ (s + n) * d \in Nat /\ s + n \in Nat
    BY <1>1, <1>3, <1>5
  <2>5. ~(r > s + n)
    BY <2>2, <2>3, <2>4
  <2> QED BY <1>3, <1>5, <2>5
<1> QED BY <1>1, <1>4, <1>5, <1>12, <1>13 DEF s, n

(* All bids of a level see the same level. *)
LEMMA SameLevel ==
  ASSUME NEW bids, NEW k \in Present(bids), NEW j \in Level(bids, k)
  PROVE  /\ j \in Present(bids)
         /\ Level(bids, j) = Level(bids, k) /\ Above(bids, j) = Above(bids, k)
BY DEF Level, Above

(* At the margin, a level shares out exactly what is left for it. *)
LEMMA MarginalLevel ==
  ASSUME NEW bids, WellFormed(bids), NEW c \in Present(bids),
         NEW r \in Nat, r < Demand(bids, Level(bids, c)),
         NEW p, \A k \in Level(bids, c) : p[k] = ProRata(bids, r, k)
  PROVE  /\ SumFunctionOnSet(p, Level(bids, c)) = r
         /\ \A k \in Level(bids, c) : p[k] \in Nat /\ p[k] <= bids[k].qty
<1> DEFINE K == Level(bids, c)
           sh == [k \in K |-> Share(bids, r, k)]
           seq == [k \in K |-> bids[k].seq]
           s == SumFunctionOnSet(sh, K)
           left == r - s
           First == {k \in K : Cardinality({j \in K : seq[j] < seq[k]}) < left}
           bonus == [k \in K |-> IF k \in First THEN 1 ELSE 0]
<1>1. K \subseteq Present(bids) /\ IsFiniteSet(K)
  BY DemandIsAsked DEF Level
<1>2. \A k \in K : Level(bids, k) = K
  BY SameLevel
<1>3. \A k \in K : sh[k] = (r * bids[k].qty) \div Demand(bids, K) /\ sh[k] = Share(bids, r, k)
  BY <1>2 DEF Share
<1>4. \A k \in K : bids[k].qty \in Nat
  BY <1>1 DEF WellFormed
<1> HIDE DEF K, sh
<1>5. /\ \A k \in K : sh[k] \in Nat /\ sh[k] < bids[k].qty
      /\ s \in Nat /\ s <= r /\ r - s <= Cardinality(K)
  <2>1. r < Demand(bids, K)
    BY DEF K
  <2> QED BY <1>1, <1>3, <2>1, SharesLeaveRemainder
<1>6. left \in Nat /\ left <= Cardinality(K)
  BY <1>5
<1>7. ASSUME NEW k \in K PROVE p[k] = sh[k] + bonus[k]
  <2>1. Unsaturated(bids, r, {k}) = {k}
    BY <1>3, <1>5 DEF Unsaturated
  <2>2. Ahead(bids, k) = {j \in K : seq[j] < seq[k]}
    BY <1>2 DEF Ahead
  <2>3. Unsaturated(bids, r, Ahead(bids, k)) = Ahead(bids, k)
    BY <1>3, <1>5, <2>2 DEF Unsaturated
  <2>4. RoundingRemainder(bids, r, Level(bids, k)) = left
    <3> DEFINE again == [j \in K |-> Share(bids, r, j)]
    <3>1. RoundingRemainder(bids, r, Level(bids, k)) = r - SumFunctionOnSet(again, K)
      BY <1>2 DEF RoundingRemainder
    <3>2. again = sh
      BY DEF sh
    <3> QED BY <3>1, <3>2
  <2>5. p[k] = ProRata(bids, r, k)
    BY DEF K
  <2>6. k \in Unsaturated(bids, r, {k})
    BY <2>1
  <2> HIDE DEF s
  <2>7. p[k] = sh[k] + (IF Cardinality(Ahead(bids, k)) < left THEN 1 ELSE 0)
    BY <1>3, <2>3, <2>4, <2>5, <2>6 DEF ProRata
  <2> QED BY <2>2, <2>7
<1>8. Cardinality(First) = left
  <2>1. \A k \in K : seq[k] = bids[k].seq /\ seq[k] \in Int
    BY <1>1 DEF WellFormed
  <2>2. \A j, k \in K : j # k => seq[j] # seq[k]
    BY <1>1 DEF WellFormed
  <2> HIDE DEF seq, left
  <2> QED BY <1>1, <1>6, <2>1, <2>2, FirstOnes
<1> HIDE DEF s, First, left
<1>9. SumFunctionOnSet(bonus, K) = left
  <2>1. First \subseteq K
    BY DEF First
  <2>2. \A k \in K : bonus[k] = IF k \in First THEN 1 ELSE 0
    OBVIOUS
  <2> HIDE DEF bonus
  <2> QED BY <1>1, <1>8, <2>1, <2>2, SumCounts
<1>10. SumFunctionOnSet(p, K) = s + left
  <2>1. \A k \in K : sh[k] \in Int /\ bonus[k] \in Int /\ p[k] = sh[k] + bonus[k]
    BY <1>5, <1>7
  <2> HIDE DEF bonus
  <2>2. SumFunctionOnSet(p, K) = SumFunctionOnSet(sh, K) + SumFunctionOnSet(bonus, K)
    BY <1>1, <2>1, SumAdd
  <2> QED BY <1>9, <2>2 DEF s
<1>11. SumFunctionOnSet(p, K) = r
  BY <1>5, <1>10 DEF left
<1>12. \A k \in K : p[k] \in Nat /\ p[k] <= bids[k].qty
  BY <1>4, <1>5, <1>7
<1> QED BY <1>11, <1>12 DEF K

-----------------------------------------------------------------------------
(* The whole window. *)

UpTo(bids, k) == Above(bids, k) \cup Level(bids, k)

(* Demand grows with the bids counted, *)
LEMMA DemandGrows ==
  ASSUME NEW bids, WellFormed(bids), NEW L, L \subseteq Present(bids), NEW K, K \subseteq L
  PROVE  Demand(bids, K) <= Demand(bids, L)
<1> DEFINE a == Asked(bids)
<1>1. /\ IsFiniteSet(L) /\ \A k \in L : a[k] \in Nat
      /\ Demand(bids, K) = SumFunctionOnSet(a, K)
      /\ Demand(bids, L) = SumFunctionOnSet(a, L)
  BY DemandIsAsked
<1> HIDE DEF a
<1>2. SumFunctionOnSet(a, K) <= SumFunctionOnSet(a, L)
  BY <1>1, SumSubset
<1> QED BY <1>1, <1>2

(* and splits at a level. *)
LEMMA DemandUpTo ==
  ASSUME NEW bids, WellFormed(bids), NEW k \in Present(bids)
  PROVE  /\ Above(bids, k) \subseteq Present(bids) /\ Level(bids, k) \subseteq Present(bids)
         /\ Demand(bids, Above(bids, k)) \in Nat
         /\ Demand(bids, Level(bids, k)) \in Nat /\ Demand(bids, Level(bids, k)) > 0
         /\ Demand(bids, UpTo(bids, k))
              = Demand(bids, Above(bids, k)) + Demand(bids, Level(bids, k))
<1> DEFINE a == Asked(bids)
           A == Above(bids, k)
           L == Level(bids, k)
<1>1. /\ A \subseteq Present(bids) /\ L \subseteq Present(bids) /\ k \in L
      /\ A \cup L \subseteq Present(bids) /\ UpTo(bids, k) = A \cup L
  BY DEF Above, Level, UpTo
<1>2. A \cap L = {}
  BY DEF Above, Level, WellFormed
<1> HIDE DEF A, L
<1>3. /\ IsFiniteSet(A) /\ IsFiniteSet(L) /\ \A j \in A \cup L : a[j] \in Int
      /\ Demand(bids, A) = SumFunctionOnSet(a, A) /\ Demand(bids, L) = SumFunctionOnSet(a, L)
      /\ Demand(bids, A \cup L) = SumFunctionOnSet(a, A \cup L)
      /\ Demand(bids, A) \in Nat /\ Demand(bids, L) \in Nat /\ Demand(bids, L) > 0
  <2>1. \A j \in A \cup L : a[j] \in Nat
    BY <1>1, DemandIsAsked
  <2> QED BY <1>1, <2>1, DemandIsAsked
<1> HIDE DEF a
<1>4. SumFunctionOnSet(a, A \cup L) = SumFunctionOnSet(a, A) + SumFunctionOnSet(a, L)
  BY <1>2, <1>3, SumUnion
<1>5. Demand(bids, UpTo(bids, k)) = Demand(bids, A) + Demand(bids, L)
  BY <1>1, <1>3, <1>4
<1> QED BY <1>1, <1>3, <1>5 DEF A, L

(* A level is filled when everything down to it fits. *)
LEMMA LevelFits ==
  ASSUME NEW bids, WellFormed(bids), NEW supply \in Nat, NEW k \in Present(bids),
         Demand(bids, UpTo(bids, k)) <= supply
  PROVE  Allocation(bids, supply, k) = bids[k].qty
<1> DEFINE a == Demand(bids, Above(bids, k))
           l == Demand(bids, Level(bids, k))
<1>1. a \in Nat /\ l \in Nat /\ a + l <= supply
  BY DemandUpTo
<1>2. Allocation(bids, supply, k) = IF l <= Monus(supply, a) THEN bids[k].qty
                                    ELSE ProRata(bids, Monus(supply, a), k)
  BY DEF Allocation
<1> HIDE DEF a, l
<1>3. l <= Monus(supply, a)
  BY <1>1 DEF Monus
<1> QED BY <1>2, <1>3

(* Below the margin there is nothing left. *)
LEMMA BelowMargin ==
  ASSUME NEW bids, WellFormed(bids), NEW supply \in Nat, NEW k \in Present(bids),
         Demand(bids, Above(bids, k)) >= supply
  PROVE  Allocation(bids, supply, k) = 0
<1> DEFINE L == Level(bids, k)
           p == [j \in L |-> ProRata(bids, 0, j)]
<1>1. /\ Demand(bids, Above(bids, k)) \in Nat /\ Demand(bids, L) \in Nat /\ Demand(bids, L) > 0
      /\ L \subseteq Present(bids) /\ k \in L
  BY DemandUpTo DEF Level
<1>2. Monus(supply, Demand(bids, Above(bids, k))) = 0
  BY <1>1 DEF Monus
<1>3. Allocation(bids, supply, k) = p[k]
  BY <1>1, <1>2 DEF Allocation
<1>4. \A j \in L : p[j] = ProRata(bids, 0, j)
  OBVIOUS
<1> HIDE DEF p
<1>5. SumFunctionOnSet(p, L) = 0 /\ \A j \in L : p[j] \in Nat
  <2>1. 0 < Demand(bids, L)
    BY <1>1
  <2> QED BY <1>4, <2>1, MarginalLevel
<1>6. p[k] <= SumFunctionOnSet(p, L)
  <2>1. IsFiniteSet(L) /\ \A j \in L : p[j] \in Int
    BY <1>1, <1>5, DemandIsAsked
  <2>2. SumFunctionOnSet(p, L) = p[k] + SumFunctionOnSet(p, L \ {k})
    BY <1>1, <2>1, SumRemove
  <2>3. SumFunctionOnSet(p, L \ {k}) \in Nat
    BY <1>5, <2>1, FS_Subset, SumNat
  <2>4. \A i, j \in Nat : i <= i + j
    OBVIOUS
  <2> QED BY <1>1, <1>5, <2>2, <2>3, <2>4
<1> QED BY <1>1, <1>3, <1>5, <1>6

(* When demand exceeds supply, one level is at the margin. *)
LEMMA MarginExists ==
  ASSUME NEW bids, WellFormed(bids), NEW supply \in Nat,
         Demand(bids, Present(bids)) > supply
  PROVE  \E c \in Present(bids) :
           /\ Demand(bids, UpTo(bids, c)) > supply
           /\ Demand(bids, Above(bids, c)) <= supply
           /\ \A j \in Above(bids, c) : Demand(bids, UpTo(bids, j)) <= supply
<1> DEFINE P == Present(bids)
           v == [k \in P |-> bids[k].priority]
           Short == {k \in P : Demand(bids, UpTo(bids, k)) > supply}
<1>1. \A k \in P : v[k] = bids[k].priority /\ v[k] \in Int
  BY DEF WellFormed
<1>2. IsFiniteSet(P) /\ Demand(bids, P) \in Nat
  BY DemandIsAsked
<1>3. \A k \in P : Above(bids, k) = {j \in P : v[j] > v[k]}
                   /\ UpTo(bids, k) = {j \in P : v[j] >= v[k]}
  <2> TAKE k \in P
  <2>1. Above(bids, k) = {j \in P : v[j] > v[k]} /\ Level(bids, k) = {j \in P : v[j] = v[k]}
    BY DEF Above, Level
  <2> HIDE DEF v, P
  <2> QED BY <1>1, <2>1 DEF UpTo
<1>4. \A k \in P : Demand(bids, UpTo(bids, k)) \in Nat /\ Demand(bids, Above(bids, k)) \in Nat
  <2> TAKE k \in P
  <2>1. UpTo(bids, k) \subseteq P /\ Above(bids, k) \subseteq P
    BY <1>3
  <2> QED BY <2>1, DemandIsAsked
<1>5. P # {}
  <2>1. P = {} => Demand(bids, P) = 0
    <3>1. Demand(bids, P) = SumFunctionOnSet(Asked(bids), P)
      BY DemandIsAsked
    <3> HIDE DEF P
    <3> QED BY <3>1, SumEmpty
  <2> HIDE DEF P
  <2> QED BY <1>2, <2>1 DEF P
<1> HIDE DEF v
<1>6. Short # {}
  <2>1. PICK m \in P : \A x \in P : v[m] <= v[x]
    <3> HIDE DEF P
    <3> QED BY <1>1, <1>2, <1>5, Least
  <2>2. UpTo(bids, m) = P
    BY <1>1, <1>3, <2>1
  <2> QED BY <2>1, <2>2
<1>7. PICK c \in Short : \A x \in Short : v[x] <= v[c]
  <2>1. IsFiniteSet(Short) /\ \A x \in Short : v[x] \in Int
    BY <1>1, <1>2, FS_Subset
  <2> HIDE DEF Short
  <2> QED BY <1>6, <2>1, Greatest
<1>8. c \in P /\ Demand(bids, UpTo(bids, c)) > supply
  BY <1>7
<1>9. ASSUME NEW j \in Above(bids, c) PROVE j \in P /\ Demand(bids, UpTo(bids, j)) <= supply
  <2>1. j \in P /\ v[j] > v[c]
    BY <1>3, <1>8
  <2>2. j \notin Short
    BY <1>1, <1>7, <1>8, <2>1
  <2> QED BY <1>4, <2>1, <2>2
<1>10. Demand(bids, Above(bids, c)) <= supply
  <2>1. CASE Above(bids, c) = {}
    <3>1. Demand(bids, {}) = SumFunctionOnSet(Asked(bids), {})
      <4>1. {} \subseteq Present(bids)
        OBVIOUS
      <4> QED BY <4>1, DemandIsAsked
    <3> QED BY <2>1, <3>1, SumEmpty
  <2>2. CASE Above(bids, c) # {}
    <3> DEFINE A == Above(bids, c)
    <3>1. IsFiniteSet(A) /\ A \subseteq P /\ \A x \in A : v[x] \in Int
      BY <1>1, <1>2, <1>3, <1>8, FS_Subset
    <3>2. PICK m \in A : \A x \in A : v[m] <= v[x]
      <4> HIDE DEF A
      <4> QED BY <2>2, <3>1, Least DEF A
    <3>3. A \subseteq UpTo(bids, m) /\ UpTo(bids, m) \subseteq P /\ m \in P
      BY <1>1, <1>3, <3>1, <3>2
    <3>4. Demand(bids, A) <= Demand(bids, UpTo(bids, m))
      BY <3>3, DemandGrows
    <3>5. Demand(bids, UpTo(bids, m)) <= supply
      BY <1>9, <3>2
    <3> QED BY <1>4, <1>8, <3>3, <3>4, <3>5
  <2> QED BY <2>1, <2>2
<1> QED BY <1>8, <1>9, <1>10

Sells(bids, supply) ==
  IF Demand(bids, Present(bids)) <= supply THEN Demand(bids, Present(bids)) ELSE supply

(***************************************************************************)
(* What flush_window hands out: nobody gets more than they asked for, the  *)
(* window sells the smaller of supply and demand (I1: never oversold, and  *)
(* nothing withheld), and if demand fits everybody is filled.              *)
(***************************************************************************)
THEOREM AllocationIsExact ==
  ASSUME NEW bids, WellFormed(bids), NEW supply \in Nat
  PROVE  LET a == Allocate(bids, supply)
         IN  /\ \A k \in Keys : a[k] \in Nat /\ a[k] <= Asked(bids)[k]
             /\ SumFunctionOnSet(a, Keys) = Sells(bids, supply)
             /\ Demand(bids, Present(bids)) <= supply => a = Asked(bids)
<1> DEFINE a == Allocate(bids, supply)
           q == Asked(bids)
           P == Present(bids)
           N == Keys \ P
<1>1. /\ P \subseteq Keys /\ IsFiniteSet(P) /\ IsFiniteSet(N) /\ P \cap N = {} /\ P \cup N = Keys
      /\ Demand(bids, P) \in Nat /\ Demand(bids, P) = SumFunctionOnSet(q, P)
      /\ \A k \in P : q[k] = bids[k].qty /\ q[k] \in Nat
  BY KeysAssumption, FS_Subset, DemandIsAsked DEF Present
<1>2. /\ \A k \in N : a[k] = 0 /\ q[k] = 0
      /\ \A k \in P : a[k] = Allocation(bids, supply, k)
  BY DEF Allocate, Asked, Present
<1>3. \A k \in P : UpTo(bids, k) \subseteq P /\ Demand(bids, UpTo(bids, k)) \in Nat
  <2> TAKE k \in P
  <2>1. UpTo(bids, k) \subseteq P
    BY DEF UpTo, Above, Level
  <2> QED BY <2>1, DemandIsAsked
<1>4. ASSUME \A k \in P : a[k] \in Nat
      PROVE  SumFunctionOnSet(a, Keys) = SumFunctionOnSet(a, P)
  <2> HIDE DEF a, q, P, N
  <2>1. \A k \in P \cup N : a[k] \in Int
    BY <1>2, <1>4
  <2>2. SumFunctionOnSet(a, P \cup N) = SumFunctionOnSet(a, P) + SumFunctionOnSet(a, N)
    BY <1>1, <2>1, SumUnion
  <2>3. SumFunctionOnSet(a, N) = 0 /\ SumFunctionOnSet(a, P) \in Int
    BY <1>1, <1>2, <2>1, SumZero, SumInt
  <2>4. \A n \in Int : n + 0 = n
    OBVIOUS
  <2> QED BY <1>1, <2>2, <2>3, <2>4
<1>5. CASE Demand(bids, P) <= supply
  <2>1. \A k \in P : a[k] = q[k]
    <3> TAKE k \in P
    <3>1. Demand(bids, UpTo(bids, k)) <= Demand(bids, P)
      BY <1>3, DemandGrows
    <3>2. Demand(bids, UpTo(bids, k)) <= supply
      BY <1>1, <1>3, <1>5, <3>1
    <3> QED BY <1>1, <1>2, <3>2, LevelFits
  <2>2. SumFunctionOnSet(a, P) = SumFunctionOnSet(q, P)
    <3> HIDE DEF a, q, P
    <3> QED BY <1>1, <2>1, SumSame
  <2>3. SumFunctionOnSet(a, Keys) = Sells(bids, supply)
    BY <1>1, <1>4, <1>5, <2>1, <2>2 DEF Sells
  <2>4. \A k \in Keys : a[k] = q[k] /\ a[k] \in Nat /\ a[k] <= q[k]
    BY <1>1, <1>2, <2>1
  <2>5. a = q
    BY <2>4 DEF Allocate, Asked
  <2> QED BY <2>3, <2>4, <2>5
<1>6. CASE ~(Demand(bids, P) <= supply)
  <2>1. PICK c \in P : /\ Demand(bids, UpTo(bids, c)) > supply
                       /\ Demand(bids, Above(bids, c)) <= supply
                       /\ \A j \in Above(bids, c) : Demand(bids, UpTo(bids, j)) <= supply
    <3>1. Demand(bids, P) > supply
      BY <1>1, <1>6
    <3> QED BY <3>1, MarginExists
  <2> DEFINE A == Above(bids, c)
             L == Level(bids, c)
             B == P \ (A \cup L)
             r == supply - Demand(bids, A)
  <2>2. /\ A \subseteq P /\ L \subseteq P /\ Demand(bids, A) \in Nat /\ Demand(bids, L) \in Nat
        /\ Demand(bids, A) + Demand(bids, L) > supply
    BY <2>1, DemandUpTo
  <2>3. r \in Nat /\ r < Demand(bids, L) /\ Monus(supply, Demand(bids, A)) = r
    BY <2>1, <2>2 DEF Monus
  <2>4. \A k \in A : a[k] = q[k]
    BY <1>1, <1>2, <2>1, <2>2, LevelFits
  <2>5. \A k \in L : a[k] = ProRata(bids, r, k)
    <3> TAKE k \in L
    <3>1. k \in P /\ Level(bids, k) = L /\ Above(bids, k) = A
      BY SameLevel
    <3>2. a[k] = Allocation(bids, supply, k)
      BY <1>2, <3>1
    <3> HIDE DEF a, A, L, r
    <3>3. ~(Demand(bids, L) <= r)
      BY <2>2, <2>3
    <3> QED BY <2>3, <3>1, <3>2, <3>3 DEF Allocation
  <2>6. SumFunctionOnSet(a, L) = r /\ \A k \in L : a[k] \in Nat /\ a[k] <= q[k]
    <3> HIDE DEF a, r
    <3>1. SumFunctionOnSet(a, L) = r /\ \A k \in L : a[k] \in Nat /\ a[k] <= bids[k].qty
      BY <2>3, <2>5, MarginalLevel
    <3> QED BY <1>1, <2>2, <3>1
  <2>7. \A k \in B : a[k] = 0
    <3> TAKE k \in B
    <3>1. k \in P /\ UpTo(bids, c) \subseteq Above(bids, k) /\ Above(bids, k) \subseteq P
      BY DEF UpTo, Above, Level, WellFormed
    <3>2. Demand(bids, UpTo(bids, c)) <= Demand(bids, Above(bids, k))
      BY <3>1, DemandGrows
    <3>3. Demand(bids, Above(bids, k)) >= supply
      BY <1>3, <2>1, <3>1, <3>2, DemandUpTo
    <3> QED BY <1>2, <3>1, <3>3, BelowMargin
  <2>8. \A k \in P : a[k] \in Nat /\ a[k] <= q[k]
    BY <1>1, <2>4, <2>6, <2>7
  <2>9. SumFunctionOnSet(a, P) = supply
    <3>1. /\ A \cap L = {} /\ (A \cup L) \cap B = {} /\ (A \cup L) \cup B = P
          /\ A \cup L \subseteq P /\ B \subseteq P
      BY <2>2 DEF Above, Level, WellFormed
    <3>2. IsFiniteSet(A) /\ IsFiniteSet(L) /\ IsFiniteSet(A \cup L) /\ IsFiniteSet(B)
      BY <1>1, <2>2, <3>1, FS_Subset
    <3>3. Demand(bids, A) = SumFunctionOnSet(q, A)
      BY <2>2, DemandIsAsked
    <3> HIDE DEF a, q, A, L, B, P
    <3>4. \A k \in P : a[k] \in Int
      BY <2>8
    <3>5. SumFunctionOnSet(a, (A \cup L) \cup B)
            = SumFunctionOnSet(a, A \cup L) + SumFunctionOnSet(a, B)
      BY <3>1, <3>2, <3>4, SumUnion
    <3>6. SumFunctionOnSet(a, A \cup L) = SumFunctionOnSet(a, A) + SumFunctionOnSet(a, L)
      BY <2>2, <3>1, <3>2, <3>4, SumUnion
    <3>7. SumFunctionOnSet(a, B) = 0
      BY <2>7, <3>2, SumZero
    <3>8. SumFunctionOnSet(a, A) = SumFunctionOnSet(q, A)
      BY <2>4, <3>2, SumSame
    <3>9. SumFunctionOnSet(a, P) = (Demand(bids, A) + r) + 0
      BY <2>6, <3>1, <3>3, <3>5, <3>6, <3>7, <3>8
    <3> QED BY <2>2, <2>3, <3>9
  <2>10. SumFunctionOnSet(a, Keys) = Sells(bids, supply)
    BY <1>4, <1>6, <2>8, <2>9 DEF Sells
  <2>11. \A k \in Keys : a[k] \in Nat /\ a[k] <= q[k]
    BY <1>1, <1>2, <2>8
  <2> QED BY <1>6, <2>10, <2>11
<1> QED BY <1>5, <1>6
=============================================================================
