--------------------------- MODULE AnalyticsProofs ---------------------------
(***************************************************************************)
(* Lemmas about what Analytics computes, for any rows, any duration and    *)
(* any number of samples.                                                  *)
(*                                                                         *)
(* The sums are folds over finite sets.  Induction over these is done on   *)
(* sets of subsets and of numbers: whatever is not good has a smallest     *)
(* member, as the orders are well-founded.                                 *)
(***************************************************************************)
EXTENDS Analytics, FiniteSetTheorems, TLAPS

-----------------------------------------------------------------------------
(* Induction *)

LEMMA NumbersAllGood ==
    ASSUME NEW Good, 0 \in Good, \A n \in Nat : n \in Good => n + 1 \in Good
    PROVE  Nat \subseteq Good
<1> DEFINE Less == {pair \in Nat \X Nat : pair[1] < pair[2]}
<1>1. SUFFICES ASSUME Nat \ Good # {} PROVE FALSE
    OBVIOUS
<1>2. IsWellFoundedOn(Less, Nat)
    BY NatLessThanWellFounded DEF OpToRel
<1>3. \E n \in Nat \ Good : \A m \in Nat \ Good : <<m, n>> \notin Less
  <2> HIDE DEF Less
  <2> QED
      BY <1>1, <1>2, WFMin
<1>4. PICK n \in Nat \ Good : \A m \in Nat \ Good : ~(m < n)
    BY <1>3
<1>5. n # 0 /\ n - 1 \in Nat /\ n - 1 < n
    BY <1>4
<1>6. n - 1 \in Good
    BY <1>4, <1>5
<1>7. QED
    BY <1>4, <1>5, <1>6

(* The element a fold takes out of a set first. *)
Pick(T) == CHOOSE x \in T : TRUE

LEMMA PickIn == ASSUME NEW T, T # {} PROVE Pick(T) \in T
    BY DEF Pick

LEMMA SubsetsAllGood ==
    ASSUME NEW S, IsFiniteSet(S), NEW Good, {} \in Good,
           \A T \in SUBSET S : T # {} /\ T \ {Pick(T)} \in Good => T \in Good
    PROVE  SUBSET S \subseteq Good
<1> DEFINE Order == StrictSubsetOrdering(S)
           Bad == (SUBSET S) \ Good
<1>1. SUFFICES ASSUME Bad # {} PROVE FALSE
    OBVIOUS
<1>2. IsWellFoundedOn(Order, SUBSET S)
    BY FS_StrictSubsetOrderingWellFounded, FS_FiniteSubsetsOfFinite
<1>3. \E T \in Bad : \A U \in Bad : <<U, T>> \notin Order
  <2>1. Bad \subseteq SUBSET S
      OBVIOUS
  <2> HIDE DEF Order, Bad
  <2>2. QED
      BY <1>1, <1>2, <2>1, WFMin
<1>4. PICK T \in Bad : \A U \in Bad : <<U, T>> \notin Order
    BY <1>3
<1>5. T # {} /\ Pick(T) \in T
    BY <1>4, PickIn
<1>6. <<T \ {Pick(T)}, T>> \in Order
    BY <1>4, <1>5 DEF StrictSubsetOrdering
<1>7. T \ {Pick(T)} \in Good
    BY <1>4, <1>6
<1>8. QED
    BY <1>4, <1>5, <1>7

-----------------------------------------------------------------------------
(* Sums *)

(* g is the table of sums of f over the subsets of S that a fold computes. *)
SumsOf(g, f, S) ==
    g = [T \in SUBSET S |-> IF T = {} THEN 0 ELSE f[Pick(T)] + g[T \ {Pick(T)}]]

LEMMA SumsExist ==
    ASSUME NEW S, IsFiniteSet(S), NEW f
    PROVE  \E g : SumsOf(g, f, S)
<1> DEFINE UpTo(n) == {T \in SUBSET S : Cardinality(T) <= n}
           Table(g, n) == g = [T \in UpTo(n) |->
                                  IF T = {} THEN 0 ELSE f[Pick(T)] + g[T \ {Pick(T)}]]
           Good == {n \in Nat : \E g : Table(g, n)}
<1>1. \A T \in SUBSET S : IsFiniteSet(T) /\ Cardinality(T) \in Nat
                          /\ Cardinality(T) <= Cardinality(S)
    BY FS_Subset, FS_CardinalityType
<1>2. \A T \in SUBSET S : T # {} => /\ T \ {Pick(T)} \in SUBSET S
                                    /\ Cardinality(T \ {Pick(T)}) = Cardinality(T) - 1
    BY <1>1, PickIn, FS_RemoveElement
<1>3. 0 \in Good
  <2> DEFINE g == [T \in UpTo(0) |-> 0]
  <2>1. \A T \in UpTo(0) : T = {}
      BY <1>1, FS_EmptySet
  <2>2. Table(g, 0)
      BY <2>1
  <2>3. QED
      BY <2>2
<1>4. ASSUME NEW n \in Nat, n \in Good PROVE n + 1 \in Good
  <2>1. PICK g : Table(g, n)
      BY <1>4
  <2> DEFINE h == [T \in UpTo(n + 1) |->
                      IF T = {} THEN 0 ELSE f[Pick(T)] + g[T \ {Pick(T)}]]
  <2>2. \A T \in UpTo(n) : h[T] = g[T] /\ T \in UpTo(n + 1)
    <3>1. SUFFICES ASSUME NEW T \in UpTo(n) PROVE h[T] = g[T] /\ T \in UpTo(n + 1)
        OBVIOUS
    <3>2. T \in UpTo(n + 1)
        BY <1>1, <3>1
    <3>3. g[T] = IF T = {} THEN 0 ELSE f[Pick(T)] + g[T \ {Pick(T)}]
      <4> HIDE DEF UpTo
      <4> QED
          BY <2>1, <3>1
    <3>4. QED
        BY <3>2, <3>3
  <2>3. \A T \in UpTo(n + 1) : T # {} => T \ {Pick(T)} \in UpTo(n)
      BY <1>1, <1>2
  <2>4. \A T \in UpTo(n + 1) : T # {} => g[T \ {Pick(T)}] = h[T \ {Pick(T)}]
      BY <2>2, <2>3
  <2>5. Table(h, n + 1)
      BY <2>4
  <2>6. \E any : Table(any, n + 1)
    <3> HIDE DEF Table, h
    <3> QED
        BY <2>5
  <2>7. QED
    <3> HIDE DEF Table
    <3> QED
        BY <2>6
<1>5. Cardinality(S) \in Good
  <2> HIDE DEF Good
  <2>1. Nat \subseteq Good
      BY <1>3, <1>4, NumbersAllGood
  <2>2. QED
      BY <1>1, <2>1
<1>6. UpTo(Cardinality(S)) = SUBSET S
    BY <1>1
<1>7. QED
    BY <1>5, <1>6 DEF SumsOf

LEMMA SumSteps ==
    ASSUME NEW S, NEW f, NEW g, SumsOf(g, f, S)
    PROVE  /\ g[{}] = 0
           /\ \A T \in SUBSET S : T # {} =>
                  /\ Pick(T) \in T /\ T \ {Pick(T)} \in SUBSET S
                  /\ g[T] = f[Pick(T)] + g[T \ {Pick(T)}]
    BY PickIn DEF SumsOf

(* A sum of n values, each of which is between 0 and most, is between 0    *)
(* and n times most.                                                       *)
LEMMA SumBounds ==
    ASSUME NEW S, IsFiniteSet(S), NEW most \in Nat, NEW f, NEW g, SumsOf(g, f, S),
           \A x \in S : f[x] \in 0..most
    PROVE  \A T \in SUBSET S : g[T] \in Nat /\ g[T] <= most * Cardinality(T)
<1> DEFINE Good == {T \in SUBSET S : g[T] \in Nat /\ g[T] <= most * Cardinality(T)}
<1>1. {} \in Good
    BY SumSteps, FS_EmptySet
<1>2. ASSUME NEW T \in SUBSET S, T # {}, T \ {Pick(T)} \in Good
      PROVE  T \in Good
  <2>1. Pick(T) \in T /\ g[T] = f[Pick(T)] + g[T \ {Pick(T)}]
      BY <1>2, SumSteps
  <2>2. /\ Cardinality(T) \in Nat /\ Cardinality(T \ {Pick(T)}) = Cardinality(T) - 1
      BY <2>1, FS_Subset, FS_CardinalityType, FS_RemoveElement
  <2>3. most * (Cardinality(T) - 1) = most * Cardinality(T) - most
      BY <2>2
  <2>4. QED
      BY <1>2, <2>1, <2>2, <2>3
<1>3. QED
  <2> HIDE DEF Good
  <2>1. SUBSET S \subseteq Good
      BY <1>1, <1>2, SubsetsAllGood
  <2>2. QED
      BY <2>1 DEF Good

(* What holds of the values, times a and b, holds of their sums. *)
LEMMA SumsCompare ==
    ASSUME NEW S, IsFiniteSet(S), NEW e, NEW f, NEW g, NEW h, NEW a \in Nat, NEW b \in Nat,
           SumsOf(g, e, S), SumsOf(h, f, S),
           \A x \in S : e[x] \in Nat /\ f[x] \in Nat /\ a * e[x] <= b * f[x]
    PROVE  g[S] \in Nat /\ h[S] \in Nat /\ a * g[S] <= b * h[S]
<1> DEFINE Good == {T \in SUBSET S : g[T] \in Nat /\ h[T] \in Nat /\ a * g[T] <= b * h[T]}
<1>1. {} \in Good
    BY SumSteps
<1>2. ASSUME NEW T \in SUBSET S, T # {}, T \ {Pick(T)} \in Good
      PROVE  T \in Good
  <2> DEFINE x == Pick(T)
             rest == T \ {x}
  <2>1. x \in S /\ g[T] = e[x] + g[rest] /\ h[T] = f[x] + h[rest]
      BY <1>2, SumSteps
  <2>2. /\ e[x] \in Nat /\ f[x] \in Nat /\ a * e[x] <= b * f[x]
        /\ g[rest] \in Nat /\ h[rest] \in Nat /\ a * g[rest] <= b * h[rest]
      BY <1>2, <2>1
  <2> HIDE DEF x, rest
  <2>3. /\ a * g[T] = a * e[x] + a * g[rest] /\ b * h[T] = b * f[x] + b * h[rest]
        /\ a * e[x] \in Nat /\ a * g[rest] \in Nat /\ b * f[x] \in Nat /\ b * h[rest] \in Nat
      BY <2>1, <2>2
  <2>4. QED
      BY <2>1, <2>2, <2>3
<1>3. QED
  <2> HIDE DEF Good
  <2>1. SUBSET S \subseteq Good
      BY <1>1, <1>2, SubsetsAllGood
  <2>2. QED
      BY <2>1 DEF Good

(* What is one more for each member of K sums up to Cardinality(K) more.   *)
LEMMA SumsCount ==
    ASSUME NEW S, IsFiniteSet(S), NEW K \in SUBSET S, NEW e, NEW f, NEW g, NEW h,
           SumsOf(g, e, S), SumsOf(h, f, S),
           \A x \in S : f[x] \in Nat /\ e[x] = IF x \in K THEN f[x] + 1 ELSE f[x]
    PROVE  h[S] \in Nat /\ g[S] = h[S] + Cardinality(K)
<1> DEFINE Good == {T \in SUBSET S : /\ h[T] \in Nat
                                     /\ g[T] = h[T] + Cardinality(T \cap K)}
<1>1. {} \in Good
  <2>1. {} \cap K = {}
      OBVIOUS
  <2>2. QED
      BY <2>1, SumSteps, FS_EmptySet
<1>2. ASSUME NEW T \in SUBSET S, T # {}, T \ {Pick(T)} \in Good
      PROVE  T \in Good
  <2> DEFINE x == Pick(T)
             rest == T \ {x}
  <2>1. x \in T /\ g[T] = e[x] + g[rest] /\ h[T] = f[x] + h[rest]
      BY <1>2, SumSteps
  <2>2. IsFiniteSet(T \cap K) /\ Cardinality(T \cap K) \in Nat
      BY FS_Subset, FS_CardinalityType
  <2>3. rest \cap K = (T \cap K) \ {x}
      OBVIOUS
  <2>4. Cardinality(rest \cap K) = IF x \in K THEN Cardinality(T \cap K) - 1
                                   ELSE Cardinality(T \cap K)
    <3> HIDE DEF x, rest
    <3>1. Cardinality((T \cap K) \ {x})
              = IF x \in T \cap K THEN Cardinality(T \cap K) - 1 ELSE Cardinality(T \cap K)
        BY <2>2, FS_RemoveElement
    <3>2. QED
        BY <2>1, <2>3, <3>1
  <2>5. QED
      BY <1>2, <2>1, <2>2, <2>4
<1>3. QED
  <2> HIDE DEF Good
  <2>1. S \in Good
      BY <1>1, <1>2, SubsetsAllGood
  <2>2. S \cap K = K
      OBVIOUS
  <2>3. QED
      BY <2>1, <2>2 DEF Good

ColumnCounts(R, P, I) == [i \in I |-> Cardinality({s \in P : <<s, i>> \in R})]
RowCounts(R, P, I) == [s \in P |-> Cardinality({i \in I : <<s, i>> \in R})]

(* The pairs of a relation can be counted by rows or by columns. *)
LEMMA CountBothWays ==
    ASSUME NEW P, IsFiniteSet(P), NEW I, IsFiniteSet(I), NEW R, NEW g, NEW h,
           SumsOf(g, ColumnCounts(R, P, I), I), SumsOf(h, RowCounts(R, P, I), P)
    PROVE  g[I] = h[P]
<1> DEFINE column(Q) == ColumnCounts(R, Q, I)
           Good == {Q \in SUBSET P : \A k : SumsOf(k, column(Q), I) => k[I] = h[Q]}
<1>1. ASSUME NEW Q \in SUBSET P, NEW i
      PROVE  /\ IsFiniteSet({s \in Q : <<s, i>> \in R})
             /\ Cardinality({s \in Q : <<s, i>> \in R}) \in Nat
    BY FS_Subset, FS_CardinalityType
<1>2. {} \in Good
  <2>1. SUFFICES ASSUME NEW k, SumsOf(k, column({}), I) PROVE k[I] = 0
      BY SumSteps
  <2>2. \A i \in I : column({})[i] \in 0..0
    <3>1. \A i \in I : {s \in {} : <<s, i>> \in R} = {}
        OBVIOUS
    <3>2. QED
        BY <3>1, FS_EmptySet DEF ColumnCounts
  <2> HIDE DEF column
  <2>3. k[I] \in Nat /\ k[I] <= 0 * Cardinality(I) /\ Cardinality(I) \in Nat
      BY <2>1, <2>2, SumBounds, FS_CardinalityType
  <2>4. QED
      BY <2>3
<1>3. ASSUME NEW Q \in SUBSET P, Q # {}, Q \ {Pick(Q)} \in Good
      PROVE  Q \in Good
  <2> DEFINE x == Pick(Q)
             rest == Q \ {x}
             K == {i \in I : <<x, i>> \in R}
  <2>1. SUFFICES ASSUME NEW k, SumsOf(k, column(Q), I) PROVE k[I] = h[Q]
      OBVIOUS
  <2>2. x \in Q /\ x \in P /\ h[Q] = Cardinality(K) + h[rest]
    <3> DEFINE row == RowCounts(R, P, I)
    <3>1. x \in Q /\ x \in P /\ row[x] = Cardinality(K)
        BY <1>3, PickIn DEF RowCounts
    <3>2. SumsOf(h, row, P)
        OBVIOUS
    <3> HIDE DEF row
    <3>3. h[Q] = row[x] + h[rest]
        BY <1>3, <3>2, SumSteps
    <3>4. QED
        BY <3>1, <3>3
  <2>3. PICK l : SumsOf(l, column(rest), I)
    <3> HIDE DEF column
    <3> QED
        BY SumsExist
  <2>4. l[I] = h[rest]
    <3> HIDE DEF column
    <3> QED
        BY <1>3, <2>3
  <2>5. ASSUME NEW i \in I
        PROVE  /\ column(rest)[i] \in Nat
               /\ column(Q)[i] = IF i \in K THEN column(rest)[i] + 1 ELSE column(rest)[i]
    <3> DEFINE all == {s \in Q : <<s, i>> \in R}
    <3>1. {s \in rest : <<s, i>> \in R} = all \ {x} /\ (i \in K <=> x \in all)
        BY <2>2
    <3>2. IsFiniteSet(all) /\ Cardinality(all) \in Nat /\ Cardinality(all \ {x}) \in Nat
        BY <1>1, FS_Subset, FS_CardinalityType
    <3>3. column(Q)[i] = Cardinality(all) /\ column(rest)[i] = Cardinality(all \ {x})
        BY <3>1 DEF ColumnCounts
    <3> HIDE DEF all, column, rest, x, K
    <3>4. Cardinality(all \ {x}) = IF x \in all THEN Cardinality(all) - 1
                                  ELSE Cardinality(all)
        BY <3>2, FS_RemoveElement
    <3>5. QED
        BY <3>1, <3>2, <3>3, <3>4
  <2>6. l[I] \in Nat /\ k[I] = l[I] + Cardinality(K)
    <3> DEFINE more == column(Q)
               fewer == column(rest)
    <3>1. /\ K \in SUBSET I /\ SumsOf(k, more, I) /\ SumsOf(l, fewer, I)
          /\ \A i \in I : /\ fewer[i] \in Nat
                          /\ more[i] = IF i \in K THEN fewer[i] + 1 ELSE fewer[i]
      <4>1. K \in SUBSET I
          OBVIOUS
      <4> HIDE DEF column, rest, K, x
      <4>2. QED
          BY <2>1, <2>3, <2>5, <4>1
    <3> HIDE DEF more, fewer, K
    <3>2. QED
        BY <3>1, SumsCount
  <2>7. Cardinality(K) \in Nat
      BY FS_Subset, FS_CardinalityType
  <2> HIDE DEF column, K, rest
  <2>8. QED
      BY <2>2, <2>4, <2>6, <2>7
<1>4. P \in Good
  <2> HIDE DEF Good
  <2> QED
      BY <1>2, <1>3, SubsetsAllGood
<1>5. QED
    BY <1>4

-----------------------------------------------------------------------------
(* What is watched *)

(* Rows as the database holds them. *)
RowsTypeOK(rows) ==
    IsFiniteSet(DOMAIN rows) /\ rows \in [DOMAIN rows -> [at : Nat, played : BOOLEAN]]

WatchedSum(rows, duration) ==
    MapThenSumSet(LAMBDA s : WatchedTime(rows[s].at, duration), PlayedIn(rows))

Watched(rows, duration) == [s \in PlayedIn(rows) |-> WatchedTime(rows[s].at, duration)]

LEMMA PlayedFinite ==
    ASSUME NEW rows, RowsTypeOK(rows)
    PROVE  /\ PlayedIn(rows) \subseteq DOMAIN rows /\ IsFiniteSet(PlayedIn(rows))
           /\ Cardinality(PlayedIn(rows)) \in Nat
           /\ PlayedIn(rows) # {} => Cardinality(PlayedIn(rows)) > 0
           /\ \A s \in PlayedIn(rows) : rows[s].at \in Nat
<1>1. PlayedIn(rows) \subseteq DOMAIN rows
    BY DEF PlayedIn
<1>2. QED
    BY <1>1, FS_Subset, FS_CardinalityType, FS_EmptySet DEF RowsTypeOK

(* A viewer has watched at most the whole video. *)
LEMMA WatchedInside ==
    ASSUME NEW at \in Nat, NEW duration \in Nat
    PROVE  WatchedTime(at, duration) \in 0..duration
    BY DEF WatchedTime

LEMMA WatchedGrows ==
    ASSUME NEW at \in Nat, NEW later \in Nat, NEW duration \in Nat, at <= later
    PROVE  WatchedTime(at, duration) <= WatchedTime(later, duration)
    BY DEF WatchedTime

LEMMA WatchedSums ==
    ASSUME NEW rows, RowsTypeOK(rows), NEW duration
    PROVE  \E g : /\ SumsOf(g, Watched(rows, duration), PlayedIn(rows))
                  /\ WatchedSum(rows, duration) = g[PlayedIn(rows)]
<1> DEFINE P == PlayedIn(rows)
           Folds(g) ==
               g = [T \in SUBSET P |->
                       IF T = {} THEN 0
                       ELSE WatchedTime(rows[CHOOSE x \in T : TRUE].at, duration)
                            + g[T \ {CHOOSE x \in T : TRUE}]]
<1>1. WatchedSum(rows, duration) = (CHOOSE g : Folds(g))[P]
    BY DEF WatchedSum, MapThenSumSet, MapThenFoldSet
<1>2. ASSUME NEW g PROVE Folds(g) <=> SumsOf(g, Watched(rows, duration), P)
  <2>1. \A T \in SUBSET P : T # {} =>
            Watched(rows, duration)[Pick(T)]
                = WatchedTime(rows[CHOOSE x \in T : TRUE].at, duration)
      BY PickIn DEF Watched, Pick
  <2>2. QED
      BY <2>1 DEF SumsOf, Pick
<1>3. \E g : Folds(g)
  <2>1. \E g : SumsOf(g, Watched(rows, duration), P)
      BY PlayedFinite, SumsExist
  <2> HIDE DEF Folds, P
  <2>2. QED
      BY <1>2, <2>1
<1>4. Folds(CHOOSE g : Folds(g))
  <2> HIDE DEF Folds
  <2> QED
      BY <1>3
<1>5. QED
  <2> HIDE DEF Folds
  <2> QED
      BY <1>1, <1>2, <1>4

(* All together have watched at most the whole video as often as it was    *)
(* played.                                                                 *)
LEMMA WatchedSumInside ==
    ASSUME NEW rows, RowsTypeOK(rows), NEW duration \in Nat
    PROVE  /\ WatchedSum(rows, duration) \in Nat
           /\ WatchedSum(rows, duration) <= duration * Cardinality(PlayedIn(rows))
<1>1. PICK g : /\ SumsOf(g, Watched(rows, duration), PlayedIn(rows))
               /\ WatchedSum(rows, duration) = g[PlayedIn(rows)]
    BY WatchedSums
<1>2. \A s \in PlayedIn(rows) : Watched(rows, duration)[s] \in 0..duration
    BY PlayedFinite, WatchedInside DEF Watched
<1>3. QED
    BY <1>1, <1>2, PlayedFinite, SumBounds

(* The sum does not fall while each of the same viewers gets further. *)
LEMMA WatchedSumGrows ==
    ASSUME NEW rows, RowsTypeOK(rows), NEW later, RowsTypeOK(later),
           NEW duration \in Nat, PlayedIn(later) = PlayedIn(rows),
           \A s \in PlayedIn(rows) : rows[s].at <= later[s].at
    PROVE  WatchedSum(rows, duration) <= WatchedSum(later, duration)
<1>1. PICK g : /\ SumsOf(g, Watched(rows, duration), PlayedIn(rows))
               /\ WatchedSum(rows, duration) = g[PlayedIn(rows)]
    BY WatchedSums
<1>2. PICK h : /\ SumsOf(h, Watched(later, duration), PlayedIn(rows))
               /\ WatchedSum(later, duration) = h[PlayedIn(rows)]
    BY WatchedSums
<1>3. \A s \in PlayedIn(rows) :
          /\ Watched(rows, duration)[s] \in Nat /\ Watched(later, duration)[s] \in Nat
          /\ 1 * Watched(rows, duration)[s] <= 1 * Watched(later, duration)[s]
  <2>1. SUFFICES ASSUME NEW s \in PlayedIn(rows)
                 PROVE  /\ WatchedTime(rows[s].at, duration) \in Nat
                        /\ WatchedTime(later[s].at, duration) \in Nat
                        /\ WatchedTime(rows[s].at, duration)
                               <= WatchedTime(later[s].at, duration)
      BY DEF Watched
  <2>2. rows[s].at \in Nat /\ later[s].at \in Nat /\ rows[s].at <= later[s].at
      BY PlayedFinite
  <2>3. /\ WatchedTime(rows[s].at, duration) \in 0..duration
        /\ WatchedTime(later[s].at, duration) \in 0..duration
      BY <2>2, WatchedInside
  <2>4. WatchedTime(rows[s].at, duration) <= WatchedTime(later[s].at, duration)
      BY <2>2, WatchedGrows
  <2>5. QED
      BY <2>3, <2>4
<1>4. 1 * g[PlayedIn(rows)] <= 1 * h[PlayedIn(rows)]
      /\ g[PlayedIn(rows)] \in Nat /\ h[PlayedIn(rows)] \in Nat
    BY <1>1, <1>2, <1>3, PlayedFinite, SumsCompare
<1>5. QED
    BY <1>1, <1>2, <1>4

-----------------------------------------------------------------------------
(* The shares *)

(* A fraction between 0 and 1. *)
IsShare(f) == f.num \in Nat /\ f.den \in Nat /\ f.den > 0 /\ f.num <= f.den

LEMMA PlayRateShare ==
    ASSUME NEW rows, RowsTypeOK(rows)
    PROVE  IsShare(PlayRate(rows))
<1>1. /\ Cardinality(DOMAIN rows) \in Nat
      /\ DOMAIN rows # {} => Cardinality(DOMAIN rows) > 0
      /\ Cardinality(PlayedIn(rows)) <= Cardinality(DOMAIN rows)
      /\ Cardinality(PlayedIn(rows)) \in Nat
    BY PlayedFinite, FS_Subset, FS_CardinalityType, FS_EmptySet DEF RowsTypeOK
<1>2. QED
    BY <1>1 DEF IsShare, PlayRate, Zero, Fraction

LEMMA AvgWatchIs ==
    ASSUME NEW rows, NEW duration, PlayedIn(rows) # {}, ~(duration <= 0)
    PROVE  AvgWatch(rows, duration)
               = Fraction(WatchedSum(rows, duration), duration * Cardinality(PlayedIn(rows)))
    BY DEF AvgWatch, WatchedSum

LEMMA AvgWatchShare ==
    ASSUME NEW rows, RowsTypeOK(rows), NEW duration \in Nat
    PROVE  IsShare(AvgWatch(rows, duration))
<1>1. CASE PlayedIn(rows) = {} \/ duration <= 0
    BY <1>1 DEF IsShare, AvgWatch, Zero
<1>2. CASE PlayedIn(rows) # {} /\ duration > 0
  <2>1. AvgWatch(rows, duration)
            = Fraction(WatchedSum(rows, duration), duration * Cardinality(PlayedIn(rows)))
      BY <1>2, AvgWatchIs
  <2>2. duration * Cardinality(PlayedIn(rows)) \in Nat \ {0}
      BY <1>2, PlayedFinite
  <2>3. QED
      BY <2>1, <2>2, WatchedSumInside DEF IsShare, Fraction
<1>3. QED
    BY <1>1, <1>2

(* Those who came as far as sample i. *)
Retained(rows, i, duration) ==
    {s \in PlayedIn(rows) : ReachedSample(rows[s].at, i, duration)}

LEMMA RetainedFinite ==
    ASSUME NEW rows, RowsTypeOK(rows), NEW i, NEW duration
    PROVE  /\ Retained(rows, i, duration) \subseteq PlayedIn(rows)
           /\ IsFiniteSet(Retained(rows, i, duration))
           /\ Cardinality(Retained(rows, i, duration)) \in Nat
           /\ Cardinality(Retained(rows, i, duration)) <= Cardinality(PlayedIn(rows))
<1>1. Retained(rows, i, duration) \subseteq PlayedIn(rows)
    BY DEF Retained
<1>2. QED
    BY <1>1, PlayedFinite, FS_Subset, FS_CardinalityType

LEMMA RetentionIs ==
    ASSUME NEW rows, NEW i, NEW duration, PlayedIn(rows) # {}
    PROVE  RetentionAt(rows, i, duration)
               = Fraction(Cardinality(Retained(rows, i, duration)),
                          Cardinality(PlayedIn(rows)))
    BY DEF RetentionAt, Retained

LEMMA RetentionShare ==
    ASSUME NEW rows, RowsTypeOK(rows), NEW i, NEW duration
    PROVE  IsShare(RetentionAt(rows, i, duration))
<1>1. CASE PlayedIn(rows) = {}
    BY <1>1 DEF IsShare, RetentionAt, Zero
<1>2. CASE PlayedIn(rows) # {}
    BY <1>2, RetentionIs, RetainedFinite, PlayedFinite DEF IsShare, Fraction
<1>3. QED
    BY <1>1, <1>2

-----------------------------------------------------------------------------
(* The curve *)

LEMMA TimesLess ==
    ASSUME NEW a \in Nat, NEW b \in Nat, NEW c \in Nat, a <= b
    PROVE  a * c <= b * c /\ c * a <= c * b
    OBVIOUS

LEMMA DivBetween ==
    ASSUME NEW a \in Nat, NEW b \in Nat, b > 0, NEW c \in Nat
    PROVE  /\ a \div b \in Nat
           /\ a < c * b + b => a \div b <= c
           /\ a >= c * b => a \div b >= c
    OBVIOUS

LEMMA Quotient ==
    ASSUME NEW a \in Nat, NEW b \in Nat, b > 0
    PROVE  /\ a \div b \in Nat
           /\ b * (a \div b) <= a
           /\ a < b * (a \div b) + b
    OBVIOUS

LEMMA QuotientGrows ==
    ASSUME NEW a \in Nat, NEW c \in Nat, a <= c, NEW b \in Nat, b > 0
    PROVE  a \div b <= c \div b
<1>1. /\ a \div b \in Nat /\ b * (a \div b) <= a
      /\ c \div b \in Nat /\ c < b * (c \div b) + b
    BY Quotient
<1> DEFINE k == a \div b
           l == c \div b
<1> HIDE DEF k, l
<1>2. SUFFICES ASSUME l + 1 <= k PROVE FALSE
    BY <1>1 DEF k, l
<1>3. b * (l + 1) <= b * k
    BY <1>1, <1>2, TimesLess DEF k, l
<1>4. b * (l + 1) = b * l + b /\ b * l \in Nat /\ b * k \in Nat
    BY <1>1 DEF k, l
<1>5. QED
    BY <1>1, <1>3, <1>4 DEF k, l

LEMMA Multiple ==
    ASSUME NEW h \in Nat, h > 0, NEW k \in Nat
    PROVE  h * k \in Nat /\ (h * k) % h = 0
    OBVIOUS

(* A sample is shown at a whole hundredth of a second, at most half of one *)
(* from where it is counted, and the first at 0.                           *)
LEMMA SampleTimes ==
    ASSUME NEW duration \in Nat, NEW i \in 0..Buckets, Buckets > 0
    PROVE  /\ SampleTime(i, duration) \in Nat
           /\ SampleTime(i, duration) % Hundredth = 0
           /\ i = 0 => SampleTime(i, duration) = 0
           /\ 2 * Buckets * SampleTime(i, duration) <= 2 * duration * i + Buckets * Hundredth
           /\ 2 * duration * i <= 2 * Buckets * SampleTime(i, duration) + Buckets * Hundredth
<1> DEFINE sample == Buckets * Hundredth
           place == duration * i
           k == (2 * place + sample) \div (2 * sample)
<1>1. /\ Buckets \in Nat /\ i \in Nat /\ Hundredth \in Nat /\ Hundredth > 0
      /\ place \in Nat /\ sample \in Nat /\ sample > 0
    BY BucketsAssumption, HundredthAssumption
<1>2. 2 * duration * i = 2 * place
    BY <1>1
<1>3. SampleTime(i, duration) = Hundredth * k
    BY <1>2 DEF SampleTime
<1>4. /\ k \in Nat /\ (2 * sample) * k <= 2 * place + sample
      /\ 2 * place + sample < (2 * sample) * k + 2 * sample
  <2> HIDE DEF sample, place
  <2>1. 2 * place + sample \in Nat /\ 2 * sample \in Nat /\ 2 * sample > 0
      BY <1>1
  <2>2. QED
      BY <2>1, Quotient
<1>5. 2 * Buckets * (Hundredth * k) = (2 * sample) * k
  <2> HIDE DEF k
  <2> QED
      BY <1>1, <1>4
<1>6. i = 0 => place = 0
    BY <1>1
<1> HIDE DEF sample, place
<1>7. i = 0 => k = 0
  <2>1. SUFFICES ASSUME i = 0, k >= 1 PROVE FALSE
      BY <1>4
  <2>2. (2 * sample) * 1 <= (2 * sample) * k
    <3> HIDE DEF k
    <3> QED
        BY <1>1, <1>4, <2>1, TimesLess
  <2>3. (2 * sample) * k \in Nat
    <3> HIDE DEF k
    <3> QED
        BY <1>1, <1>4
  <2>4. QED
      BY <1>1, <1>4, <1>6, <2>1, <2>2, <2>3
<1> HIDE DEF k
<1>8. (2 * sample) * k \in Nat
    BY <1>1, <1>4
<1>9. Hundredth * k \in Nat /\ (Hundredth * k) % Hundredth = 0
    BY <1>1, <1>4, Multiple
<1>10. i = 0 => Hundredth * k = 0
    BY <1>1, <1>7
<1> DEFINE double == (2 * sample) * k
<1>11. /\ double \in Nat /\ double <= 2 * place + sample
       /\ 2 * place <= double + sample
  <2>1. double \in Nat /\ double <= 2 * place + sample /\ 2 * place + sample < double + 2 * sample
      BY <1>4, <1>8
  <2> HIDE DEF double
  <2>2. QED
      BY <1>1, <2>1
<1>12. QED
    BY <1>2, <1>3, <1>5, <1>9, <1>10, <1>11 DEF sample

(* A later sample is not shown at an earlier time. *)
LEMMA SamplesInOrder ==
    ASSUME NEW duration \in Nat, NEW i \in Nat, NEW j \in Nat, i <= j, Buckets > 0
    PROVE  SampleTime(i, duration) <= SampleTime(j, duration)
<1> DEFINE sample == Buckets * Hundredth
           k(n) == (2 * duration * n + sample) \div (2 * sample)
<1>1. /\ Buckets \in Nat /\ Hundredth \in Nat /\ sample \in Nat /\ sample > 0
    BY BucketsAssumption, HundredthAssumption
<1>2. 2 * duration * i <= 2 * duration * j
    BY TimesLess
<1>3. SampleTime(i, duration) = Hundredth * k(i) /\ SampleTime(j, duration) = Hundredth * k(j)
    BY DEF SampleTime
<1> HIDE DEF sample
<1>4. /\ 2 * duration * i + sample \in Nat /\ 2 * duration * j + sample \in Nat
      /\ 2 * duration * i + sample <= 2 * duration * j + sample
      /\ 2 * sample \in Nat /\ 2 * sample > 0
    BY <1>1, <1>2
<1>5. k(i) \in Nat /\ k(j) \in Nat /\ k(i) <= k(j)
    BY <1>4, Quotient, QuotientGrows
<1> HIDE DEF k
<1>6. QED
    BY <1>1, <1>3, <1>5, TimesLess

(* Whoever came as far as a later sample came as far as an earlier one.    *)
LEMMA RetainedShrinks ==
    ASSUME NEW rows, RowsTypeOK(rows), NEW duration \in Nat,
           NEW i \in Nat, NEW j \in Nat, i <= j
    PROVE  /\ Retained(rows, j, duration) \subseteq Retained(rows, i, duration)
           /\ Cardinality(Retained(rows, j, duration))
                  <= Cardinality(Retained(rows, i, duration))
<1>1. duration * i <= duration * j /\ duration * i \in Nat /\ duration * j \in Nat
    BY TimesLess
<1>2. Retained(rows, j, duration) \subseteq Retained(rows, i, duration)
  <2>1. SUFFICES ASSUME NEW s \in PlayedIn(rows), ReachedSample(rows[s].at, j, duration)
                 PROVE  ReachedSample(rows[s].at, i, duration)
      BY DEF Retained
  <2>2. rows[s].at * Buckets \in Nat
      BY PlayedFinite, BucketsAssumption
  <2>3. QED
      BY <1>1, <2>1, <2>2 DEF ReachedSample
<1>3. QED
    BY <1>2, RetainedFinite, FS_Subset

LEMMA AllAtStart ==
    ASSUME NEW rows, RowsTypeOK(rows), NEW duration \in Nat
    PROVE  Retained(rows, 0, duration) = PlayedIn(rows)
<1>1. ASSUME NEW s \in PlayedIn(rows)
      PROVE  ReachedSample(rows[s].at, 0, duration)
  <2>1. rows[s].at * Buckets \in Nat /\ duration * 0 = 0
      BY PlayedFinite, BucketsAssumption
  <2>2. QED
      BY <2>1 DEF ReachedSample
<1>2. QED
    BY <1>1 DEF Retained

(* The later the record of a viewer, the further the viewer came. *)
LEMMA RetainedGrows ==
    ASSUME NEW rows, RowsTypeOK(rows), NEW later, RowsTypeOK(later),
           NEW duration \in Nat, NEW i \in Nat, PlayedIn(later) = PlayedIn(rows),
           \A s \in PlayedIn(rows) : rows[s].at <= later[s].at
    PROVE  Cardinality(Retained(rows, i, duration))
               <= Cardinality(Retained(later, i, duration))
<1>1. Retained(rows, i, duration) \subseteq Retained(later, i, duration)
  <2>1. SUFFICES ASSUME NEW s \in PlayedIn(rows), ReachedSample(rows[s].at, i, duration)
                 PROVE  ReachedSample(later[s].at, i, duration)
      BY DEF Retained
  <2>2. /\ rows[s].at \in Nat /\ later[s].at \in Nat /\ rows[s].at <= later[s].at
        /\ Buckets \in Nat /\ duration * i \in Nat
      BY PlayedFinite, BucketsAssumption
  <2>3. rows[s].at * Buckets <= later[s].at * Buckets
      BY <2>2, TimesLess
  <2>4. QED
      BY <2>1, <2>2, <2>3 DEF ReachedSample
<1>2. QED
    BY <1>1, RetainedFinite, FS_Subset

-----------------------------------------------------------------------------
(* The area under the curve *)

AreaUnder(curve, I) == MapThenSumSet(LAMBDA i : curve[i].retention.num, I)

Points(curve, I) == [i \in I |-> curve[i].retention.num]

LEMMA AreaSums ==
    ASSUME NEW curve, NEW I, IsFiniteSet(I)
    PROVE  \E g : SumsOf(g, Points(curve, I), I) /\ AreaUnder(curve, I) = g[I]
<1> DEFINE Folds(g) ==
               g = [T \in SUBSET I |->
                       IF T = {} THEN 0
                       ELSE curve[CHOOSE x \in T : TRUE].retention.num
                            + g[T \ {CHOOSE x \in T : TRUE}]]
<1>1. AreaUnder(curve, I) = (CHOOSE g : Folds(g))[I]
    BY DEF AreaUnder, MapThenSumSet, MapThenFoldSet
<1>2. ASSUME NEW g PROVE Folds(g) <=> SumsOf(g, Points(curve, I), I)
  <2>1. \A T \in SUBSET I : T # {} =>
            Points(curve, I)[Pick(T)] = curve[CHOOSE x \in T : TRUE].retention.num
      BY PickIn DEF Points, Pick
  <2>2. QED
      BY <2>1 DEF SumsOf, Pick
<1>3. \E g : Folds(g)
  <2>1. \E g : SumsOf(g, Points(curve, I), I)
      BY SumsExist
  <2> HIDE DEF Folds
  <2>2. QED
      BY <1>2, <2>1
<1>4. Folds(CHOOSE g : Folds(g))
  <2> HIDE DEF Folds
  <2> QED
      BY <1>3
<1>5. QED
  <2> HIDE DEF Folds
  <2> QED
      BY <1>1, <1>2, <1>4

(* The samples in I that a viewer came as far as. *)
SamplesReached(at, I, duration) == {i \in I : ReachedSample(at, i, duration)}

(* Each sample after the start that was reached stands for a stretch that  *)
(* was watched.                                                            *)
LEMMA ReachedIsWatched ==
    ASSUME NEW at \in Nat, NEW duration \in Nat, duration > 0, Buckets > 0
    PROVE  /\ Cardinality(SamplesReached(at, 1..Buckets, duration)) \in Nat
           /\ duration * Cardinality(SamplesReached(at, 1..Buckets, duration))
                  <= Buckets * WatchedTime(at, duration)
<1> DEFINE K == SamplesReached(at, 1..Buckets, duration)
           a == Buckets * WatchedTime(at, duration)
           m == a \div duration
<1>1. Buckets \in Nat /\ a \in Nat /\ WatchedTime(at, duration) \in Nat
  <2>1. WatchedTime(at, duration) \in Nat
      BY WatchedInside
  <2>2. QED
      BY <2>1, BucketsAssumption
<1>2. m \in Nat /\ duration * m <= a
  <2> HIDE DEF a
  <2> QED
      BY <1>1, Quotient
<1>3. ASSUME NEW i \in K PROVE i \in 1..m
  <2>1. i \in 1..Buckets /\ i \in Nat /\ at * Buckets >= duration * i
      BY <1>1, <1>3 DEF SamplesReached, ReachedSample
  <2>2. a >= i * duration
    <3>1. CASE at > duration
      <4>1. a = Buckets * duration
          BY <3>1 DEF WatchedTime
      <4>2. i * duration <= Buckets * duration
          BY <1>1, <2>1, TimesLess
      <4>3. QED
          BY <4>1, <4>2
    <3>2. CASE ~(at > duration)
      <4>1. a = Buckets * at
          BY <3>2 DEF WatchedTime
      <4>2. Buckets * at = at * Buckets /\ i * duration = duration * i
          BY <1>1, <2>1
      <4>3. QED
          BY <2>1, <4>1, <4>2
    <3>3. QED
        BY <3>1, <3>2
  <2> HIDE DEF a
  <2>3. m >= i
      BY <1>1, <2>1, <2>2, DivBetween
  <2>4. QED
      BY <1>2, <2>1, <2>3
<1>4. Cardinality(K) \in Nat /\ Cardinality(K) <= m
  <2> HIDE DEF K, m
  <2>1. IsFiniteSet(1..m) /\ Cardinality(1..m) = m
    <3>1. 1 \in Int /\ m \in Int
        BY <1>2
    <3>2. /\ IsFiniteSet(1..m)
          /\ Cardinality(1..m) = IF 1 > m THEN 0 ELSE m - 1 + 1
        BY <3>1, FS_Interval, Zenon
    <3>3. QED
        BY <1>2, <3>2
  <2>2. QED
      BY <1>2, <1>3, <2>1, FS_Subset, FS_CardinalityType
<1>5. duration * Cardinality(K) <= duration * m
      /\ duration * Cardinality(K) \in Nat /\ duration * m \in Nat
  <2> HIDE DEF K, m
  <2> QED
      BY <1>2, <1>4, TimesLess
<1>6. QED
  <2> HIDE DEF m, a
  <2>1. duration * Cardinality(K) <= a
      BY <1>1, <1>2, <1>5
  <2>2. QED
      BY <1>4, <2>1 DEF a

(* What was watched lies before the sample after the last that was reached. *)
LEMMA WatchedIsReached ==
    ASSUME NEW at \in Nat, NEW duration \in Nat, duration > 0, Buckets > 0
    PROVE  /\ Cardinality(SamplesReached(at, 0..Buckets - 1, duration)) \in Nat
           /\ Buckets * WatchedTime(at, duration)
                  <= duration * Cardinality(SamplesReached(at, 0..Buckets - 1, duration))
<1> DEFINE K == SamplesReached(at, 0..Buckets - 1, duration)
           a == Buckets * WatchedTime(at, duration)
           m == a \div duration
           last == IF m < Buckets THEN m ELSE Buckets - 1
<1>1. /\ Buckets \in Nat /\ a \in Nat /\ WatchedTime(at, duration) \in Nat
      /\ WatchedTime(at, duration) <= at /\ WatchedTime(at, duration) <= duration
    BY BucketsAssumption, WatchedInside DEF WatchedTime
<1>2. m \in Nat /\ duration * m <= a /\ a < duration * m + duration
  <2> HIDE DEF a
  <2> QED
      BY <1>1, Quotient
<1>3. a <= at * Buckets /\ a <= duration * Buckets /\ at * Buckets \in Nat
    BY <1>1, TimesLess
<1> HIDE DEF a, m
<1>4. last \in Nat /\ last <= m /\ last <= Buckets - 1
    BY <1>1, <1>2
<1>5. ASSUME NEW i \in 0..last PROVE i \in K
  <2>1. i \in Nat /\ i <= m /\ i \in 0..Buckets - 1
      BY <1>1, <1>2, <1>4
  <2>2. duration * i <= duration * m /\ duration * i \in Nat /\ duration * m \in Nat
      BY <1>2, <2>1, TimesLess
  <2>3. QED
      BY <1>1, <1>2, <1>3, <2>1, <2>2 DEF SamplesReached, ReachedSample
<1>6. Cardinality(K) \in Nat /\ last + 1 <= Cardinality(K)
  <2>1. IsFiniteSet(K)
    <3>1. IsFiniteSet(0..Buckets - 1)
        BY <1>1, FS_Interval
    <3>2. K \subseteq 0..Buckets - 1
        BY DEF SamplesReached
    <3>3. QED
        BY <3>1, <3>2, FS_Subset
  <2> HIDE DEF K, last
  <2>2. Cardinality(0..last) = last + 1
      BY <1>4, FS_Interval
  <2>3. QED
      BY <1>5, <2>1, <2>2, FS_Subset, FS_CardinalityType
<1>7. a <= duration * (last + 1)
  <2>1. CASE m < Buckets
    <3>1. duration * (m + 1) = duration * m + duration
        BY <1>2
    <3>2. duration * m \in Nat
        BY <1>2
    <3>3. QED
        BY <1>1, <1>2, <2>1, <3>1, <3>2
  <2>2. CASE ~(m < Buckets)
      BY <1>1, <1>3, <2>2
  <2>3. QED
      BY <2>1, <2>2
<1>8. duration * (last + 1) <= duration * Cardinality(K)
      /\ duration * (last + 1) \in Nat /\ duration * Cardinality(K) \in Nat
  <2> HIDE DEF K, last
  <2> QED
      BY <1>4, <1>6, TimesLess
<1>9. QED
  <2> HIDE DEF last
  <2>1. a <= duration * Cardinality(K)
      BY <1>1, <1>7, <1>8
  <2>2. QED
      BY <1>6, <2>1 DEF a

SampleCounts(rows, I, duration) ==
    [s \in PlayedIn(rows) |-> Cardinality(SamplesReached(rows[s].at, I, duration))]

(* The area over I counts, for each viewer, the samples in I that were     *)
(* reached.                                                                *)
LEMMA AreaCounts ==
    ASSUME NEW rows, RowsTypeOK(rows), NEW duration, NEW I, IsFiniteSet(I), NEW curve,
           \A i \in I : curve[i].retention.num = Cardinality(Retained(rows, i, duration))
    PROVE  \E h : /\ SumsOf(h, SampleCounts(rows, I, duration), PlayedIn(rows))
                  /\ AreaUnder(curve, I) = h[PlayedIn(rows)]
<1> DEFINE P == PlayedIn(rows)
           R == {pair \in P \X I : ReachedSample(rows[pair[1]].at, pair[2], duration)}
           row == SampleCounts(rows, I, duration)
           column == Points(curve, I)
<1>1. RowCounts(R, P, I) = row
  <2>1. \A s \in P : {i \in I : <<s, i>> \in R} = SamplesReached(rows[s].at, I, duration)
      BY DEF SamplesReached
  <2>2. QED
      BY <2>1 DEF SampleCounts, RowCounts
<1>2. ColumnCounts(R, P, I) = column
  <2>1. \A i \in I : {s \in P : <<s, i>> \in R} = Retained(rows, i, duration)
      BY DEF Retained
  <2>2. QED
      BY <2>1 DEF Points, ColumnCounts
<1>3. IsFiniteSet(P)
    BY PlayedFinite
<1> HIDE DEF P, R, row, column
<1>4. PICK g : SumsOf(g, column, I) /\ AreaUnder(curve, I) = g[I]
    BY AreaSums DEF column
<1>5. PICK h : SumsOf(h, row, P)
    BY <1>3, SumsExist
<1>6. g[I] = h[P]
    BY <1>1, <1>2, <1>3, <1>4, <1>5, CountBothWays
<1>7. QED
    BY <1>4, <1>5, <1>6 DEF row, P

(* What all watched lies between the areas that the samples allow for. *)
LEMMA AreasFit ==
    ASSUME NEW rows, RowsTypeOK(rows), NEW duration \in Nat, duration > 0, Buckets > 0,
           NEW curve,
           \A i \in 0..Buckets :
               curve[i].retention.num = Cardinality(Retained(rows, i, duration))
    PROVE  /\ AreaUnder(curve, 1..Buckets) \in Nat
           /\ AreaUnder(curve, 0..Buckets - 1) \in Nat
           /\ duration * AreaUnder(curve, 1..Buckets) <= Buckets * WatchedSum(rows, duration)
           /\ Buckets * WatchedSum(rows, duration)
                  <= duration * AreaUnder(curve, 0..Buckets - 1)
<1> DEFINE P == PlayedIn(rows)
           Counts(I) == SampleCounts(rows, I, duration)
           watched == Watched(rows, duration)
<1>1. Buckets \in Nat /\ IsFiniteSet(1..Buckets) /\ IsFiniteSet(0..Buckets - 1)
      /\ IsFiniteSet(P)
    BY BucketsAssumption, FS_Interval, PlayedFinite
<1>2. /\ \A i \in 1..Buckets :
              curve[i].retention.num = Cardinality(Retained(rows, i, duration))
      /\ \A i \in 0..Buckets - 1 :
              curve[i].retention.num = Cardinality(Retained(rows, i, duration))
    BY <1>1
<1>3. PICK g : SumsOf(g, watched, P) /\ WatchedSum(rows, duration) = g[P]
    BY WatchedSums
<1>4. PICK lower : SumsOf(lower, Counts(1..Buckets), P)
                   /\ AreaUnder(curve, 1..Buckets) = lower[P]
    BY <1>1, <1>2, AreaCounts
<1>5. PICK upper : SumsOf(upper, Counts(0..Buckets - 1), P)
                   /\ AreaUnder(curve, 0..Buckets - 1) = upper[P]
    BY <1>1, <1>2, AreaCounts
<1>6. ASSUME NEW s \in P
      PROVE  /\ watched[s] \in Nat /\ Counts(1..Buckets)[s] \in Nat
             /\ Counts(0..Buckets - 1)[s] \in Nat
             /\ duration * Counts(1..Buckets)[s] <= Buckets * watched[s]
             /\ Buckets * watched[s] <= duration * Counts(0..Buckets - 1)[s]
  <2>1. rows[s].at \in Nat /\ watched[s] = WatchedTime(rows[s].at, duration)
      BY PlayedFinite DEF Watched
  <2>2. WatchedTime(rows[s].at, duration) \in Nat
      BY <2>1, WatchedInside
  <2>3. /\ Counts(1..Buckets)[s]
               = Cardinality(SamplesReached(rows[s].at, 1..Buckets, duration))
        /\ Counts(0..Buckets - 1)[s]
               = Cardinality(SamplesReached(rows[s].at, 0..Buckets - 1, duration))
      BY DEF SampleCounts
  <2>4. QED
      BY <2>1, <2>2, <2>3, ReachedIsWatched, WatchedIsReached
<1>7. /\ lower[P] \in Nat /\ g[P] \in Nat
      /\ duration * lower[P] <= Buckets * g[P]
  <2> DEFINE low == Counts(1..Buckets)
  <2>1. SumsOf(lower, low, P)
        /\ \A s \in P : low[s] \in Nat /\ watched[s] \in Nat
                        /\ duration * low[s] <= Buckets * watched[s]
      BY <1>4, <1>6
  <2> HIDE DEF low, watched, P
  <2>2. QED
      BY <1>1, <1>3, <2>1, SumsCompare
<1>8. /\ upper[P] \in Nat /\ Buckets * g[P] <= duration * upper[P]
  <2> DEFINE high == Counts(0..Buckets - 1)
  <2>1. SumsOf(upper, high, P)
        /\ \A s \in P : watched[s] \in Nat /\ high[s] \in Nat
                        /\ Buckets * watched[s] <= duration * high[s]
      BY <1>5, <1>6
  <2> HIDE DEF high, watched, P
  <2>2. QED
      BY <1>1, <1>3, <2>1, SumsCompare
<1>9. QED
    BY <1>3, <1>4, <1>5, <1>7, <1>8
=============================================================================
