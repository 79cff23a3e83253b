---------------------------- MODULE MetricsProofs ----------------------------
(***************************************************************************)
(* Lemmas about the report, for every log: a percentile is a nearest rank, *)
(* the fairness of unequal outcomes is below one, and what counts towards  *)
(* an objective.                                                           *)
(***************************************************************************)
EXTENDS Metrics, FiniteData

(* Sorting. *)

(* place lists the members of T, one of a lesser value first. *)
Sorts(place, values, T) ==
  /\ place \in [1 .. Cardinality(T) -> T]
  /\ IsInjective(place)
  /\ \A i, j \in 1 .. Cardinality(T) : i < j => values[place[i]] <= values[place[j]]

LEMMA SortingExists ==
  ASSUME NEW S, IsFiniteSet(S), NEW values \in [S -> Int]
  PROVE  \E place : Sorts(place, values, S)
<1> DEFINE Good(T) == \E place : Sorts(place, values, T)
           U == {T \in SUBSET S : ~Good(T)}
<1> SUFFICES ASSUME U # {} PROVE FALSE
  OBVIOUS
<1>1. ASSUME NEW T \in SUBSET S, T # {} PROVE \E x \in T : Good(T \ {x}) => Good(T)
  <2> DEFINE V == {values[x] : x \in T}
  <2>1. IsFiniteSet(T) /\ V \in SUBSET Int /\ V # {} /\ IsFiniteSet(V)
    BY <1>1, FS_Subset, ImageIsFinite
  <2>2. PICK x \in T : \A y \in T : values[y] <= values[x]
    <3>1. Max(V) \in V /\ \A v \in V : Max(V) >= v
      <4> HIDE DEF V
      <4> QED
        BY <2>1, MaxOfFinite
    <3>2. PICK x \in T : Max(V) = values[x]
      BY <3>1
    <3>3. \A y \in T : values[y] \in V /\ values[y] \in Int
      OBVIOUS
    <3> QED
      BY <3>1, <3>2, <3>3
  <2> DEFINE R == T \ {x}
             n == Cardinality(T)
  <2>3. n \in Nat /\ Cardinality(R) = n - 1 /\ n >= 1
    <3>1. Cardinality(R) \in Nat /\ n \in Nat /\ Cardinality(R) = n - 1
      BY <2>1, FS_RemoveElement, FS_CardinalityType
    <3> QED
      BY <3>1
  <2>4. ASSUME NEW f, Sorts(f, values, R) PROVE Good(T)
    <3> DEFINE g == [i \in 1 .. n |-> IF i = n THEN x ELSE f[i]]
    <3>1. /\ f \in [1 .. n - 1 -> R] /\ IsInjective(f)
          /\ \A i, j \in 1 .. n - 1 : i < j => values[f[i]] <= values[f[j]]
      BY <2>3, <2>4 DEF Sorts
    <3>2. \A i \in 1 .. n : i # n => i \in 1 .. n - 1
      BY <2>3
    <3>3. g \in [1 .. n -> T]
      BY <3>1, <3>2
    <3>4. IsInjective(g)
      <4>1. ASSUME NEW i \in 1 .. n, NEW j \in 1 .. n, g[i] = g[j] PROVE i = j
        BY <3>1, <3>2, <4>1 DEF IsInjective
      <4> QED
        BY <3>3, <4>1 DEF IsInjective
    <3>5. ASSUME NEW i \in 1 .. n, NEW j \in 1 .. n, i < j
          PROVE  values[g[i]] <= values[g[j]]
      <4>1. i \in 1 .. n - 1
        BY <2>3, <3>5
      <4>2. g[i] = f[i] /\ f[i] \in T
        BY <2>3, <3>1, <4>1
      <4>3. CASE j = n
        BY <2>2, <4>2, <4>3
      <4>4. CASE j # n
        BY <3>1, <3>2, <3>5, <4>1, <4>2, <4>4
      <4> QED
        BY <4>3, <4>4
    <3> HIDE DEF g
    <3>6. Sorts(g, values, T)
      BY <3>3, <3>4, <3>5 DEF Sorts
    <3> QED
      BY <3>6
  <2> QED
    BY <2>4
<1>2. Good({})
  <2> DEFINE f == [i \in 1 .. 0 |-> i]
  <2>1. f \in [1 .. 0 -> {}] /\ IsInjective(f) /\ Cardinality({}) = 0
    BY FS_EmptySet DEF IsInjective
  <2> HIDE DEF f
  <2>2. Sorts(f, values, {})
    BY <2>1 DEF Sorts
  <2> QED
    BY <2>2
<1>3. {} \in U
  <2> HIDE DEF Good
  <2>1. U \in SUBSET (SUBSET S) /\ \A T \in U : T # {} => \E x \in T : T \ {x} \in U
    BY <1>1
  <2> HIDE DEF U
  <2> QED
    BY <2>1, DownToEmpty
<1> QED
  BY <1>2, <1>3

LEMMA SortingSorts ==
  ASSUME NEW S, IsFiniteSet(S), NEW values \in [S -> Int]
  PROVE  /\ Sorts(Sorting(values), values, S)
         /\ \A x \in S : \E i \in 1 .. Cardinality(S) : Sorting(values)[i] = x
<1> DEFINE n == Cardinality(S)
           place == Sorting(values)
<1>1. n \in Nat /\ IsFiniteSet(1 .. n) /\ Cardinality(1 .. n) = n
  BY FS_CardinalityType, CardinalityOfInterval
<1>2. PICK f : Sorts(f, values, S)
  BY SortingExists
<1>3. f \in [1 .. n -> S] /\ DOMAIN f = 1 .. n
  BY <1>2 DEF Sorts
<1>4. Sorts(place, values, S)
  <2>1. DOMAIN values = S
    OBVIOUS
  <2> HIDE DEF n
  <2>2. Sorting(values) =
          CHOOSE p \in [1 .. n -> S] :
            /\ IsInjective(p)
            /\ \A i, j \in DOMAIN p : i < j => values[p[i]] <= values[p[j]]
    BY <2>1 DEF Sorting, n
  <2>3. /\ IsInjective(f)
        /\ \A i, j \in DOMAIN f : i < j => values[f[i]] <= values[f[j]]
    BY <1>2, <1>3 DEF Sorts, n
  <2>4. /\ place \in [1 .. n -> S] /\ IsInjective(place)
        /\ \A i, j \in DOMAIN place : i < j => values[place[i]] <= values[place[j]]
    BY <1>3, <2>2, <2>3
  <2> QED
    BY <2>4 DEF Sorts, n
<1>5. place \in Injection(1 .. n, S)
  BY <1>4 DEF Sorts, Injection
<1>6. place \in Surjection(1 .. n, S)
  <2> HIDE DEF place, n
  <2> QED
    BY <1>1, <1>5, FS_Injection DEF n
<1> QED
  BY <1>4, <1>6 DEF Surjection
-----------------------------------------------------------------------------
(* Percentiles. *)

LEMMA RankArithmetic ==
  ASSUME NEW n \in Nat \ {0}, NEW h \in 1 .. 100
  PROVE  LET k == (h * n + 99) \div 100
         IN  k \in 1 .. n /\ 100 * k >= h * n /\ 100 * (k - 1) < h * n
<1>1. h * n \in Nat /\ h * n >= 1 /\ h * n <= 100 * n
  <2>1. 1 * n <= h * n /\ h * n <= 100 * n
    BY TimesGrows
  <2> QED
    BY <2>1
<1> DEFINE m == h * n
<1>2. m \in Nat /\ m >= 1 /\ m <= 100 * n
  BY <1>1
<1> HIDE DEF m
<1>3. /\ (m + 99) \div 100 \in 1 .. n
      /\ 100 * ((m + 99) \div 100) >= m
      /\ 100 * ((m + 99) \div 100 - 1) < m
  BY <1>2
<1> QED
  BY <1>3 DEF m

(* The first k that place lists. *)
FirstOf(place, k) == {place[i] : i \in 1 .. k}

LEMMA CountOfListed ==
  ASSUME NEW S, NEW n \in Nat, NEW place \in [1 .. n -> S], IsInjective(place), NEW k \in 0 .. n
  PROVE  IsFiniteSet(FirstOf(place, k)) /\ Cardinality(FirstOf(place, k)) = k
<1> DEFINE P == {place[i] : i \in 1 .. k}
           f == [i \in 1 .. k |-> place[i]]
<1>1. \A i \in 1 .. k : i \in 1 .. n
  OBVIOUS
<1>2. f \in [1 .. k -> P] /\ \A t \in P : \E i \in 1 .. k : f[i] = t
  OBVIOUS
<1>3. \A i, j \in 1 .. k : f[i] = f[j] => i = j
  BY <1>1 DEF IsInjective
<1> HIDE DEF f, P
<1>4. ExistsBijection(1 .. k, P)
  BY <1>2, <1>3, Fun_IsBij, Fun_ExistsBij
<1>5. IsFiniteSet(1 .. k) /\ Cardinality(1 .. k) = k
  BY CardinalityOfInterval
<1>6. IsFiniteSet(P) /\ Cardinality(P) = k
  BY <1>4, <1>5, FS_Bijection
<1> QED
  BY <1>6 DEF P, FirstOf

(* percentile gives one of the values, such that h hundredths of them at     *)
(* least do not exceed it and fewer lie below.                               *)
LEMMA NearestRank ==
  ASSUME NEW S, IsFiniteSet(S), S # {}, NEW values \in [S -> Int], NEW h \in 1 .. 100
  PROVE  LET v == Percentile(values, h)
             n == Cardinality(S)
         IN  /\ \E i \in S : values[i] = v
             /\ 100 * Cardinality({i \in S : values[i] <= v}) >= h * n
             /\ 100 * Cardinality({i \in S : values[i] < v}) < h * n
<1> DEFINE n     == Cardinality(S)
           k     == (h * n + 99) \div 100
           place == Sorting(values)
           v     == values[place[k]]
           low   == {i \in S : values[i] <= v}
           below == {i \in S : values[i] < v}
           Upto(j) == FirstOf(place, j)
<1>1. n \in Nat \ {0} /\ IsFiniteSet(low) /\ IsFiniteSet(below)
  BY FS_CardinalityType, FS_EmptySet, FS_Subset
<1>2. k \in 1 .. n /\ k \in Int /\ 100 * k >= h * n /\ 100 * (k - 1) < h * n
  <2> HIDE DEF n
  <2> QED
    BY <1>1, RankArithmetic
<1>3. Percentile(values, h) = v
  <2>1. Max({1, k}) = k
    <3> HIDE DEF k
    <3> QED
      BY <1>1, <1>2, MaxOfTwo
  <2>2. DOMAIN values = S
    OBVIOUS
  <2> QED
    BY <1>1, <2>1, <2>2 DEF Percentile
<1> HIDE DEF k
<1>4. /\ place \in [1 .. n -> S] /\ IsInjective(place)
      /\ \A i, j \in 1 .. n : i < j => values[place[i]] <= values[place[j]]
      /\ \A x \in S : \E i \in 1 .. n : place[i] = x
  <2> HIDE DEF place
  <2> QED
    BY SortingSorts DEF Sorts, place
<1> HIDE DEF place, n
<1>5. \A i \in 1 .. n : place[i] \in S /\ values[place[i]] \in Int
  BY <1>4
<1>6. /\ IsFiniteSet(Upto(k)) /\ Cardinality(Upto(k)) = k
      /\ IsFiniteSet(Upto(k - 1)) /\ Cardinality(Upto(k - 1)) = k - 1
  <2>1. k \in 0 .. n /\ k - 1 \in 0 .. n
    BY <1>1, <1>2
  <2> QED
    BY <1>1, <1>4, <2>1, CountOfListed
<1>7. Upto(k) \in SUBSET low
  <2>1. ASSUME NEW i \in 1 .. k PROVE place[i] \in low
    <3>1. i \in 1 .. n /\ (i = k \/ i < k)
      BY <1>1, <1>2
    <3> QED
      BY <1>2, <1>4, <1>5, <3>1
  <2> QED
    BY <2>1 DEF FirstOf
<1>8. below \in SUBSET Upto(k - 1)
  <2>1. ASSUME NEW x \in below PROVE x \in Upto(k - 1)
    <3>1. PICK i \in 1 .. n : place[i] = x
      BY <1>4
    <3>2. values[place[i]] < v /\ v \in Int
      BY <1>2, <1>5, <3>1
    <3>3. ~(k < i) /\ k # i
      BY <1>2, <1>4, <1>5, <3>2
    <3>4. i \in 1 .. k - 1
      BY <1>1, <1>2, <3>3
    <3> QED
      BY <3>1, <3>4 DEF FirstOf
  <2> QED
    BY <2>1
<1> HIDE DEF low, below, Upto, v
<1>9. Cardinality(low) >= k /\ Cardinality(low) \in Nat
  BY <1>1, <1>6, <1>7, FS_Subset, FS_CardinalityType
<1>10. Cardinality(below) <= k - 1 /\ Cardinality(below) \in Nat
  BY <1>1, <1>6, <1>8, FS_Subset, FS_CardinalityType
<1>11. 100 * Cardinality(low) >= h * n /\ 100 * Cardinality(below) < h * n
  <2> DEFINE m == h * n
  <2>1. m \in Int /\ 100 * k >= m /\ 100 * (k - 1) < m /\ k \in Int
    BY <1>1, <1>2
  <2> HIDE DEF m
  <2>2. 100 * Cardinality(low) >= m /\ 100 * Cardinality(below) < m
    BY <1>9, <1>10, <2>1
  <2> QED
    BY <2>2 DEF m
<1>12. \E i \in S : values[i] = v
  BY <1>2, <1>5 DEF v
<1> QED
  BY <1>3, <1>11, <1>12 DEF low, below, n
-----------------------------------------------------------------------------
(* Fairness. *)

Squares(x) == [t \in DOMAIN x |-> x[t] * x[t]]

LEMMA SquareTypes ==
  ASSUME NEW S, NEW x \in [S -> Nat]
  PROVE  Squares(x) \in [S -> Nat] /\ \A t \in S : Squares(x)[t] = x[t] * x[t]
<1>1. \A t \in S : x[t] * x[t] \in Nat
  OBVIOUS
<1> QED
  BY <1>1 DEF Squares

LEMMA SumFunctionIs ==
  ASSUME NEW S, IsFiniteSet(S), NEW x \in [S -> Nat], NEW F, IsSum(F, x, S)
  PROVE  SumFunction(x) = F[S]
<1> DEFINE Adds(I) ==
             I = [T \in SUBSET S |->
                    IF T = {} THEN 0
                    ELSE LET t == CHOOSE t \in T : TRUE IN x[t] + I[T \ {t}]]
           I0 == CHOOSE I : Adds(I)
           F0 == [T \in SUBSET S |-> F[T]]
<1>1. SumFunction(x) = I0[S]
  <2>1. DOMAIN x = S
    OBVIOUS
  <2>2. SumFunctionOnSet(x, S) = I0[S]
    BY DEF SumFunctionOnSet, FoldFunctionOnSet, MapThenFoldSet
  <2> QED
    BY <2>1, <2>2 DEF SumFunction
<1>2. ASSUME NEW I PROVE AddsUp(I, x, S) <=> Adds(I)
  BY DEF AddsUp
<1> HIDE DEF Adds
<1>3. Adds(F0)
  BY <1>2, SumAddsUp
<1>4. AddsUp(I0, x, S)
  BY <1>2, <1>3
<1> HIDE DEF I0
<1> QED
  BY <1>1, <1>4, SumsAgree

(* F is the sum of x and G that of its squares, for each part of S.          *)
AreSums(S, x, F, G) ==
  /\ IsFiniteSet(S) /\ x \in [S -> Nat]
  /\ F \in [SUBSET S -> Nat] /\ IsSum(F, x, S)
  /\ G \in [SUBSET S -> Nat] /\ IsSum(G, Squares(x), S)

(* The two sums with and without one of the elements. *)
SplitsOff(x, F, G, T, t) ==
  /\ F[T] = x[t] + F[T \ {t}] /\ G[T] = x[t] * x[t] + G[T \ {t}]
  /\ F[T \ {t}] \in Nat /\ G[T \ {t}] \in Nat /\ x[t] \in Nat
  /\ Cardinality(T \ {t}) \in Nat /\ Cardinality(T) = Cardinality(T \ {t}) + 1

LEMMA SumsWithout ==
  ASSUME NEW S, NEW x, NEW F, NEW G, AreSums(S, x, F, G)
  PROVE  \A T \in SUBSET S : \A t \in T : SplitsOff(x, F, G, T, t)
<1> TAKE T \in SUBSET S
<1> TAKE t \in T
<1> DEFINE R == T \ {t}
<1>1. R \in SUBSET S /\ x[t] \in Nat /\ Squares(x)[t] = x[t] * x[t]
  BY SquareTypes DEF AreSums
<1>2. F[T] = x[t] + F[R]
  BY DEF IsSum, AreSums
<1>3. G[T] = Squares(x)[t] + G[R]
  BY DEF IsSum, AreSums
<1>4. IsFiniteSet(T) /\ IsFiniteSet(R)
  BY FS_Subset, FS_RemoveElement DEF AreSums
<1>5. Cardinality(R) \in Nat /\ Cardinality(T) \in Nat
  BY <1>4, FS_CardinalityType
<1>6. Cardinality(R) = Cardinality(T) - 1
  BY <1>4, FS_RemoveElement
<1>7. F[R] \in Nat /\ G[R] \in Nat
  BY <1>1 DEF AreSums
<1>8. Cardinality(T) = Cardinality(R) + 1
  BY <1>5, <1>6
<1>9. G[T] = x[t] * x[t] + G[R]
  BY <1>1, <1>3
<1> HIDE DEF R
<1> QED
  BY <1>1, <1>2, <1>5, <1>7, <1>8, <1>9 DEF R, SplitsOff

(* 2 y (sum x) is at most (sum x^2) + n y^2, since no square is negative.    *)
LEMMA SumAndSquares ==
  ASSUME NEW S, NEW x, NEW F, NEW G, AreSums(S, x, F, G), NEW y \in Nat
  PROVE  \A T \in SUBSET S : 2 * (F[T] * y) <= G[T] + Cardinality(T) * (y * y)
<1> DEFINE Good(T) == 2 * (F[T] * y) <= G[T] + Cardinality(T) * (y * y)
           U == {T \in SUBSET S : ~Good(T)}
<1> SUFFICES ASSUME U # {} PROVE FALSE
  OBVIOUS
<1>1. ASSUME NEW T \in SUBSET S, NEW t \in T, Good(T \ {t}) PROVE Good(T)
  <2> DEFINE R == T \ {t}
  <2>1. /\ F[T] = x[t] + F[R] /\ G[T] = x[t] * x[t] + G[R]
        /\ F[R] \in Nat /\ G[R] \in Nat /\ x[t] \in Nat
        /\ Cardinality(R) \in Nat /\ Cardinality(T) = Cardinality(R) + 1
    <3>1. SplitsOff(x, F, G, T, t)
      <4> HIDE DEF Good, U, R
      <4> QED
        BY SumsWithout
    <3> QED
      BY <3>1 DEF SplitsOff
  <2>2. \A a, b, c, z \in Nat :
          2 * (a * y) <= b + c * (y * y) => 2 * ((z + a) * y) <= (z * z + b) + (c + 1) * (y * y)
    <3> SUFFICES ASSUME NEW a \in Nat, NEW b \in Nat, NEW c \in Nat, NEW z \in Nat,
                        2 * (a * y) <= b + c * (y * y)
                 PROVE  2 * ((z + a) * y) <= (z * z + b) + (c + 1) * (y * y)
      OBVIOUS
    <3>1. 2 * (z * y) <= z * z + y * y
      <4>1. (z - y) * (z - y) >= 0
        OBVIOUS
      <4> QED
        BY <4>1
    <3>2. (z + a) * y = z * y + a * y /\ (c + 1) * (y * y) = c * (y * y) + y * y
      OBVIOUS
    <3>3. z * y \in Nat /\ a * y \in Nat /\ y * y \in Nat /\ z * z \in Nat /\ c * (y * y) \in Nat
      OBVIOUS
    <3> QED
      BY <3>1, <3>2, <3>3
  <2>3. 2 * (F[R] * y) <= G[R] + Cardinality(R) * (y * y)
    BY <1>1
  <2> HIDE DEF R
  <2>4. 2 * ((x[t] + F[R]) * y) <= (x[t] * x[t] + G[R]) + (Cardinality(R) + 1) * (y * y)
    BY <2>1, <2>2, <2>3
  <2> QED
    BY <2>1, <2>4
<1>2. Good({})
  <2>1. F[{}] = 0 /\ G[{}] = 0 /\ Cardinality({}) = 0 /\ y * y \in Nat
    BY FS_EmptySet DEF IsSum, AreSums
  <2> QED
    BY <2>1
<1>3. {} \in U
  <2> HIDE DEF Good
  <2>1. U \in SUBSET (SUBSET S) /\ \A T \in U : T # {} => \E t \in T : T \ {t} \in U
    BY <1>1
  <2> HIDE DEF U
  <2> QED
    BY <2>1, DownToEmpty DEF AreSums
<1> QED
  BY <1>2, <1>3

(* The square of a sum is at most n times the sum of the squares.            *)
LEMMA CauchySchwarz ==
  ASSUME NEW S, NEW x, NEW F, NEW G, AreSums(S, x, F, G)
  PROVE  \A T \in SUBSET S : F[T] * F[T] <= Cardinality(T) * G[T]
<1> DEFINE Good(T) == F[T] * F[T] <= Cardinality(T) * G[T]
           U == {T \in SUBSET S : ~Good(T)}
<1> SUFFICES ASSUME U # {} PROVE FALSE
  OBVIOUS
<1>1. ASSUME NEW T \in SUBSET S, NEW t \in T, Good(T \ {t}) PROVE Good(T)
  <2> DEFINE R == T \ {t}
  <2>1. /\ F[T] = x[t] + F[R] /\ G[T] = x[t] * x[t] + G[R]
        /\ F[R] \in Nat /\ G[R] \in Nat /\ x[t] \in Nat
        /\ Cardinality(R) \in Nat /\ Cardinality(T) = Cardinality(R) + 1
    <3>1. SplitsOff(x, F, G, T, t)
      <4> HIDE DEF Good, U, R
      <4> QED
        BY SumsWithout
    <3> QED
      BY <3>1 DEF SplitsOff
  <2>2. \A a, b, c, z \in Nat :
          (a * a <= c * b /\ 2 * (a * z) <= b + c * (z * z))
            => (z + a) * (z + a) <= (c + 1) * (z * z + b)
    <3> SUFFICES ASSUME NEW a \in Nat, NEW b \in Nat, NEW c \in Nat, NEW z \in Nat,
                        a * a <= c * b, 2 * (a * z) <= b + c * (z * z)
                 PROVE  (z + a) * (z + a) <= (c + 1) * (z * z + b)
      OBVIOUS
    <3>1. (z + a) * (z + a) = z * z + 2 * (a * z) + a * a
      OBVIOUS
    <3>2. (c + 1) * (z * z + b) = c * (z * z) + c * b + z * z + b
      OBVIOUS
    <3>3. z * z \in Nat /\ a * z \in Nat /\ a * a \in Nat /\ c * (z * z) \in Nat /\ c * b \in Nat
      OBVIOUS
    <3> QED
      BY <3>1, <3>2, <3>3
  <2>3. F[R] * F[R] <= Cardinality(R) * G[R]
    BY <1>1
  <2>4. 2 * (F[R] * x[t]) <= G[R] + Cardinality(R) * (x[t] * x[t])
    <3>1. \A V \in SUBSET S : 2 * (F[V] * x[t]) <= G[V] + Cardinality(V) * (x[t] * x[t])
      BY <2>1, SumAndSquares
    <3>2. R \in SUBSET S
      OBVIOUS
    <3> HIDE DEF R
    <3> QED
      BY <3>1, <3>2
  <2> HIDE DEF R
  <2>5. (x[t] + F[R]) * (x[t] + F[R]) <= (Cardinality(R) + 1) * (x[t] * x[t] + G[R])
    BY <2>1, <2>2, <2>3, <2>4
  <2> QED
    BY <2>1, <2>5
<1>2. Good({})
  <2>1. F[{}] = 0 /\ G[{}] = 0 /\ Cardinality({}) = 0
    BY FS_EmptySet DEF IsSum, AreSums
  <2> QED
    BY <2>1
<1>3. {} \in U
  <2> HIDE DEF Good
  <2>1. U \in SUBSET (SUBSET S) /\ \A T \in U : T # {} => \E t \in T : T \ {t} \in U
    BY <1>1
  <2> HIDE DEF U
  <2> QED
    BY <2>1, DownToEmpty DEF AreSums
<1> QED
  BY <1>2, <1>3

(* Who got nothing while somebody got something keeps the index below one.   *)
LEMMA UnequalIsUnfair ==
  ASSUME NEW S, IsFiniteSet(S), NEW x \in [S -> Nat],
         NEW z \in S, x[z] = 0, NEW u \in S, x[u] # 0
  PROVE  JainIndex(x)[1] < JainIndex(x)[2]
<1>1. PICK F \in [SUBSET S -> Nat] : IsSum(F, x, S)
  BY SumExists
<1>2. PICK G \in [SUBSET S -> Nat] : IsSum(G, Squares(x), S)
  BY SquareTypes, SumExists
<1>3. AreSums(S, x, F, G)
  BY <1>1, <1>2 DEF AreSums
<1> DEFINE R     == S \ {z}
           r     == Cardinality(R)
           total == F[S]
           sq    == G[S]
<1>4. /\ SumFunction(x) = total
      /\ SumFunction([t \in DOMAIN x |-> x[t] * x[t]]) = sq
  <2>1. SumFunction(Squares(x)) = G[S]
    BY <1>2, SquareTypes, SumFunctionIs
  <2>2. SumFunction(x) = F[S]
    BY <1>1, SumFunctionIs
  <2> QED
    BY <2>1, <2>2 DEF Squares
<1>5. \A t \in S :
        /\ F[S] = x[t] + F[S \ {t}] /\ G[S] = x[t] * x[t] + G[S \ {t}]
        /\ F[S \ {t}] \in Nat /\ G[S \ {t}] \in Nat /\ x[t] \in Nat
        /\ Cardinality(S \ {t}) \in Nat /\ Cardinality(S) = Cardinality(S \ {t}) + 1
  <2>1. S \in SUBSET S
    OBVIOUS
  <2> QED
    BY <1>3, <2>1, SumsWithout DEF SplitsOff
<1>6. /\ total \in Nat /\ sq \in Nat /\ r \in Nat /\ Cardinality(S) = r + 1
      /\ total = F[R] /\ sq = G[R]
  <2>1. /\ F[S] = x[z] + F[R] /\ G[S] = x[z] * x[z] + G[R]
        /\ F[R] \in Nat /\ G[R] \in Nat
        /\ Cardinality(R) \in Nat /\ Cardinality(S) = Cardinality(R) + 1
    BY <1>5
  <2>2. x[z] * x[z] = 0
    OBVIOUS
  <2>3. S \in SUBSET S
    OBVIOUS
  <2> HIDE DEF R
  <2> QED
    BY <2>1, <2>2, <2>3
<1>7. sq > 0
  <2> DEFINE V == S \ {u}
  <2>1. G[S] = x[u] * x[u] + G[V] /\ G[V] \in Nat /\ x[u] \in Nat
    BY <1>5
  <2>2. \A n \in Nat : n # 0 => n * n > 0
    OBVIOUS
  <2> HIDE DEF V
  <2>3. x[u] * x[u] > 0 /\ x[u] * x[u] \in Nat
    BY <2>1, <2>2
  <2> QED
    BY <2>1, <2>3
<1>8. total * total <= r * sq
  <2>1. R \in SUBSET S
    OBVIOUS
  <2>2. F[R] * F[R] <= Cardinality(R) * G[R]
    BY <1>3, <2>1, CauchySchwarz
  <2> QED
    BY <1>6, <2>2
<1> HIDE DEF total, sq, r, R
<1>9. /\ total * total < (r + 1) * sq
      /\ (r + 1) * sq # 0
  <2>1. \A a, b, c \in Nat :
          (a * a <= c * b /\ b > 0) => (a * a < (c + 1) * b /\ (c + 1) * b # 0)
    <3> SUFFICES ASSUME NEW a \in Nat, NEW b \in Nat, NEW c \in Nat, a * a <= c * b, b > 0
                 PROVE  a * a < (c + 1) * b /\ (c + 1) * b # 0
      OBVIOUS
    <3>1. (c + 1) * b = c * b + b /\ c * b \in Nat /\ a * a \in Nat
      OBVIOUS
    <3> QED
      BY <3>1
  <2> QED
    BY <1>6, <1>7, <1>8, <2>1
<1>10. JainIndex(x) = <<total * total, (r + 1) * sq>>
  <2>1. DOMAIN x = S
    OBVIOUS
  <2>2. JainIndex(x) = Ratio(total * total, Cardinality(S) * sq)
    BY <1>4, <2>1 DEF JainIndex
  <2> QED
    BY <1>6, <1>9, <2>2 DEF Ratio
<1> QED
  BY <1>9, <1>10
-----------------------------------------------------------------------------
(* The parts of the report. *)

LEMMA ReportSays ==
  ASSUME NEW events
  PROVE  LET report == Summary(events)
         IN  /\ report.success_rate = Ratio(Cardinality(Successes(events)), Len(events))
             /\ report.workflows = Workflows(events)
             /\ report.completed = Completed(events)
             /\ report.slo_evaluable = WithVerdict(events, {"satisfied", "violated"})
             /\ report.slo_satisfied = WithVerdict(events, {"satisfied"})
             /\ report.output_tokens # None => UsageIsComplete(events)
             /\ report.workflow_fairness = JainIndex(CompletedOf(events))
             /\ report.admission_wait = Percentiles({50, 95}, Values(events, "admission_wait_ms"))
             /\ report.ttft =
                  Percentiles({50, 95, 99},
                    [i \in Reporting(events, Successes(events), {"first_token_s"}) |->
                       Ttft(events[i])])
BY DEF Summary

(* The events of a log, as far as the report needs them to be numbers.       *)
AreTimed(events) ==
  /\ Listed(events)
  /\ \A i \in DOMAIN events :
       events[i].arrival_s \in Nat /\ events[i].end_s \in Nat /\ events[i].success \in BOOLEAN

LEMMA FlowHas ==
  ASSUME NEW events, NEW i \in DOMAIN events
  PROVE  events[i] \in Flow(events, events[i].workflow_id)
BY DEF Flow, ToSet

LEMMA FlowIs ==
  ASSUME NEW events, NEW w, NEW e \in Flow(events, w)
  PROVE  \E i \in DOMAIN events : e = events[i] /\ e.workflow_id = w
BY DEF Flow, ToSet

(* No event of a workflow took longer than the workflow. *)
LEMMA LatencyCovers ==
  ASSUME NEW events, AreTimed(events), NEW w, NEW e \in Flow(events, w)
  PROVE  e.end_s - e.arrival_s <= Latency(Flow(events, w)) /\ Latency(Flow(events, w)) \in Int
<1> DEFINE ends   == {x.end_s : x \in Flow(events, w)}
           starts == {x.arrival_s : x \in Flow(events, w)}
<1>1. \A x \in Flow(events, w) : x.end_s \in Nat /\ x.arrival_s \in Nat
  BY FlowIs DEF AreTimed
<1>2. IsFiniteSet(Flow(events, w))
  <2>1. IsFiniteSet(DOMAIN events)
    BY ListedProperties, CardinalityOfInterval DEF AreTimed
  <2>2. IsFiniteSet({events[i] : i \in DOMAIN events})
    BY <2>1, ImageIsFinite
  <2> QED
    BY <2>2, FS_Subset DEF Flow, ToSet
<1>3. ends \in SUBSET Int /\ IsFiniteSet(ends) /\ e.end_s \in ends
  <2>1. IsFiniteSet(ends)
    <3> DEFINE f == [x \in Flow(events, w) |-> x.end_s]
    <3>1. IsFiniteSet({f[x] : x \in Flow(events, w)})
      <4> HIDE DEF f
      <4> QED
        BY <1>2, ImageIsFinite
    <3>2. {f[x] : x \in Flow(events, w)} = ends
      OBVIOUS
    <3> QED
      BY <3>1, <3>2
  <2> QED
    BY <1>1, <2>1
<1>4. starts \in SUBSET Nat /\ e.arrival_s \in starts
  BY <1>1
<1> HIDE DEF ends, starts
<1>5. Max(ends) \in Int /\ Max(ends) >= e.end_s
  BY <1>3, MaxOfFinite
<1>6. Min(starts) \in Nat /\ Min(starts) <= e.arrival_s
  BY <1>4, MinOfNumbers
<1>7. Latency(Flow(events, w)) = Max(ends) - Min(starts)
  BY DEF Latency, ends, starts
<1> QED
  BY <1>1, <1>5, <1>6, <1>7

(* What it takes to satisfy the objectives. *)
LEMMA SatisfiedMeans ==
  ASSUME NEW events, AreTimed(events), NEW i \in DOMAIN events,
         events[i].workflow_id \in WithVerdict(events, {"satisfied"}),
         events[i].deadline_ms \in Nat
  PROVE  /\ events[i].success /\ ~Unmeasured(events[i]) /\ MeetsTokenSlos(events[i])
         /\ events[i].end_s - events[i].arrival_s <= events[i].deadline_ms
<1> DEFINE e    == events[i]
           flow == Flow(events, e.workflow_id)
<1>1. e \in flow
  BY FlowHas
<1>2. WorkflowSlo(flow) = "satisfied"
  BY DEF WithVerdict
<1>3. /\ Complete(flow) /\ (\A x \in flow : ~Unmeasured(x))
      /\ (\A x \in flow : Latency(flow) <= x.deadline_ms) /\ (\A x \in flow : MeetsTokenSlos(x))
  <2> HIDE DEF flow
  <2> QED
    BY <1>2 DEF WorkflowSlo
<1>4. e.end_s - e.arrival_s <= Latency(flow) /\ Latency(flow) \in Int
  BY <1>1, LatencyCovers
<1>5. Latency(flow) <= e.deadline_ms /\ e.end_s - e.arrival_s \in Int
  BY <1>1, <1>3 DEF AreTimed
<1>6. e.success /\ ~Unmeasured(e) /\ MeetsTokenSlos(e)
  BY <1>1, <1>3 DEF Complete
<1> HIDE DEF flow
<1>7. e.end_s - e.arrival_s <= e.deadline_ms
  <2> DEFINE d == e.end_s - e.arrival_s
             m == e.deadline_ms
  <2>1. d \in Int /\ m \in Int
    BY <1>5
  <2> HIDE DEF d, m, e
  <2>2. d <= Latency(flow) /\ Latency(flow) <= m /\ Latency(flow) \in Int
    BY <1>4, <1>5 DEF d, m
  <2>3. d <= m
    BY <2>1, <2>2
  <2> QED
    BY <2>3 DEF d, m, e
<1> QED
  BY <1>6, <1>7

(* Who satisfies them completed, and who failed is evaluable. *)
LEMMA VerdictsOverlap ==
  ASSUME NEW events
  PROVE  /\ WithVerdict(events, {"satisfied"})
              \subseteq WithVerdict(events, {"satisfied", "violated"}) \cap Completed(events)
         /\ Workflows(events) \ Completed(events)
              \subseteq WithVerdict(events, {"satisfied", "violated"})
BY DEF WithVerdict, Completed, WorkflowSlo
-----------------------------------------------------------------------------
(* The fairness of the report. *)

(* A workflow belongs to the tenant of one of its events. *)
LEMMA OwnerIsThere ==
  ASSUME NEW events, DOMAIN events \in SUBSET Nat, NEW w \in Workflows(events)
  PROVE  \E i \in DOMAIN events :
           events[i].workflow_id = w /\ events[i].tenant_id = Owner(events, w)
<1> DEFINE places == {i \in DOMAIN events : events[i].workflow_id = w}
<1>1. places \in SUBSET Nat /\ places # {}
  BY DEF Workflows
<1>2. Min(places) \in places
  <2> HIDE DEF places
  <2> QED
    BY <1>1, MinOfNumbers
<1>3. Owner(events, w) = events[Min(places)].tenant_id
  BY DEF Owner
<1> QED
  BY <1>2, <1>3

CompletedFor(events, t) == {w \in Completed(events) : Owner(events, w) = t}

LEMMA CompletedCounts ==
  ASSUME NEW events, IsFiniteSet(DOMAIN events)
  PROVE  /\ IsFiniteSet(TenantsIn(events))
         /\ \A t : IsFiniteSet(CompletedFor(events, t))
         /\ CompletedOf(events) \in [TenantsIn(events) -> Nat]
         /\ \A t \in TenantsIn(events) :
              CompletedOf(events)[t] = 0 <=> CompletedFor(events, t) = {}
<1>1. IsFiniteSet(TenantsIn(events)) /\ IsFiniteSet(Workflows(events))
  <2> DEFINE tenant == [i \in DOMAIN events |-> events[i].tenant_id]
             flow   == [i \in DOMAIN events |-> events[i].workflow_id]
  <2>1. TenantsIn(events) = {tenant[i] : i \in DOMAIN events}
    BY DEF TenantsIn
  <2>2. Workflows(events) = {flow[i] : i \in DOMAIN events}
    BY DEF Workflows
  <2> HIDE DEF tenant, flow
  <2> QED
    BY <2>1, <2>2, ImageIsFinite
<1>2. \A t : CompletedFor(events, t) \in SUBSET Workflows(events)
  BY DEF CompletedFor, Completed
<1>3. \A t : IsFiniteSet(CompletedFor(events, t))
  BY <1>1, <1>2, FS_Subset
<1>4. \A t : /\ Cardinality(CompletedFor(events, t)) \in Nat
             /\ Cardinality(CompletedFor(events, t)) = 0 <=> CompletedFor(events, t) = {}
  BY <1>3, FS_CardinalityType, FS_EmptySet
<1>5. CompletedOf(events) = [t \in TenantsIn(events) |-> Cardinality(CompletedFor(events, t))]
  BY DEF CompletedOf, CompletedFor
<1> QED
  BY <1>1, <1>3, <1>4, <1>5

(* Where somebody completed a workflow and a tenant none, it is not fair. *)
LEMMA IdleTenantIsUnfair ==
  ASSUME NEW events, IsFiniteSet(DOMAIN events), DOMAIN events \in SUBSET Nat,
         Completed(events) # {}, NEW t \in TenantsIn(events),
         \A i \in DOMAIN events :
           events[i].tenant_id = t => events[i].workflow_id \notin Completed(events)
  PROVE  JainIndex(CompletedOf(events))[1] < JainIndex(CompletedOf(events))[2]
<1>1. Completed(events) \subseteq Workflows(events)
  BY DEF Completed
<1>2. PICK w \in Completed(events) : TRUE
  OBVIOUS
<1>3. Owner(events, w) \in TenantsIn(events) /\ w \in CompletedFor(events, Owner(events, w))
  BY <1>1, OwnerIsThere DEF TenantsIn, CompletedFor
<1>4. CompletedFor(events, t) = {}
  BY <1>1, OwnerIsThere DEF CompletedFor
<1>5. /\ CompletedOf(events) \in [TenantsIn(events) -> Nat] /\ IsFiniteSet(TenantsIn(events))
      /\ CompletedOf(events)[t] = 0 /\ CompletedOf(events)[Owner(events, w)] # 0
  BY <1>3, <1>4, CompletedCounts
<1> QED
  BY <1>3, <1>5, UnequalIsUnfair
=============================================================================
