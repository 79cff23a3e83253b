----------------------------- MODULE FiniteData -----------------------------
(***************************************************************************)
(* Lemmas that the proofs of several components need, about numbers, the   *)
(* order of a finite set's elements, sums over sets, and sequences.        *)
(***************************************************************************)
EXTENDS Integers, SequencesExt, FiniteSetTheorems, FunctionTheorems, SequenceTheorems,
        NaturalsInduction, WellFoundedInduction, TLAPS

(* Whole division and multiplication. *)

LEMMA Division ==
  ASSUME NEW n \in Nat, NEW a \in Nat \ {0}
  PROVE  n \div a \in Nat /\ (n \div a) * a <= n /\ n < (n \div a) * a + a
OBVIOUS

LEMMA OneTimeMore ==
  ASSUME NEW q \in Nat, NEW a \in Nat
  PROVE  (q + 1) * a = q * a + a /\ q * a \in Nat
OBVIOUS

LEMMA TimesGrows ==
  ASSUME NEW q \in Nat, NEW r \in Nat, NEW a \in Nat, q <= r
  PROVE  q * a <= r * a
OBVIOUS

LEMMA Percentage ==
  ASSUME NEW p \in Nat, NEW h \in 0 .. 100
  PROVE  (p * h) \div 100 \in 0 .. p
OBVIOUS
-----------------------------------------------------------------------------
(* A set of numbers that is not empty has a least member. *)
LEMMA LeastNumber ==
  ASSUME NEW T \in SUBSET Nat, T # {}
  PROVE  \E n \in T : \A m \in T : n <= m
<1> DEFINE R == OpToRel(<, Nat)
<1>1. IsWellFoundedOn(R, Nat)
  BY NatLessThanWellFounded
<1>2. \A x, y \in Nat : <<x, y>> \in R <=> x < y
  BY DEF OpToRel
<1> HIDE DEF R
<1>3. PICK n \in T : \A m \in T : ~(<<m, n>> \in R)
  BY <1>1, WFMin
<1>4. ASSUME NEW m \in T PROVE n <= m
  <2>1. m \in Nat /\ n \in Nat /\ ~(<<m, n>> \in R)
    BY <1>3
  <2>2. ~(m < n)
    BY <1>2, <2>1
  <2> QED
    BY <2>1, <2>2
<1> QED
  BY <1>4

LEMMA MinOfNumbers ==
  ASSUME NEW T \in SUBSET Nat, T # {}
  PROVE  Min(T) \in T /\ \A m \in T : Min(T) <= m
BY LeastNumber DEF Min

LEMMA CardinalityOfInterval ==
  ASSUME NEW n \in Nat
  PROVE  IsFiniteSet(1 .. n) /\ Cardinality(1 .. n) = n
BY FS_Interval

(* How many members of ids come before r. *)
Before(ids, r) == {q \in ids : q < r}

LEMMA BeforeIsFinite ==
  ASSUME NEW ids \in SUBSET Nat, IsFiniteSet(ids), NEW r \in ids
  PROVE  /\ IsFiniteSet(Before(ids, r))
         /\ Cardinality(ids) \in Nat
         /\ Cardinality(Before(ids, r)) \in Nat
         /\ Cardinality(Before(ids, r)) < Cardinality(ids)
<1>1. Before(ids, r) \in SUBSET ids /\ r \notin Before(ids, r)
  BY DEF Before
<1>2. IsFiniteSet(Before(ids, r)) /\ Cardinality(Before(ids, r)) <= Cardinality(ids)
  BY <1>1, FS_Subset
<1>3. Cardinality(ids) # Cardinality(Before(ids, r))
  BY <1>1, FS_Subset
<1>4. Cardinality(ids) \in Nat /\ Cardinality(Before(ids, r)) \in Nat
  BY <1>2, FS_CardinalityType
<1> QED
  BY <1>2, <1>3, <1>4

LEMMA MoreBeforeTheLater ==
  ASSUME NEW ids \in SUBSET Nat, IsFiniteSet(ids), NEW q \in ids, NEW r \in ids, q < r
  PROVE  Cardinality(Before(ids, q)) < Cardinality(Before(ids, r))
<1>1. Before(ids, q) \in SUBSET Before(ids, r) /\ q \in Before(ids, r) \ Before(ids, q)
  <2>1. q \in Int /\ r \in Int /\ \A x \in ids : x \in Int
    OBVIOUS
  <2>2. \A x \in Before(ids, q) : x \in Before(ids, r)
    BY <2>1 DEF Before
  <2>3. q \in Before(ids, r) /\ q \notin Before(ids, q)
    BY <2>1 DEF Before
  <2> QED
    BY <2>2, <2>3
<1>2. /\ IsFiniteSet(Before(ids, r))
      /\ Cardinality(Before(ids, q)) \in Nat /\ Cardinality(Before(ids, r)) \in Nat
  BY BeforeIsFinite
<1>3. /\ Cardinality(Before(ids, q)) <= Cardinality(Before(ids, r))
      /\ Cardinality(Before(ids, r)) # Cardinality(Before(ids, q))
  BY <1>1, <1>2, FS_Subset
<1> QED
  BY <1>2, <1>3

(* Every position below the cardinality is the place of one member. *)
LEMMA EveryPlaceIsTaken ==
  ASSUME NEW ids \in SUBSET Nat, IsFiniteSet(ids), NEW i \in 1 .. Cardinality(ids)
  PROVE  \E r \in ids : Cardinality(Before(ids, r)) = i - 1
<1> DEFINE n == Cardinality(ids)
           place == [r \in ids |-> Cardinality(Before(ids, r)) + 1]
<1>1. n \in Nat
  BY FS_CardinalityType
<1>2. \A r \in ids : Cardinality(Before(ids, r)) \in Nat /\ Cardinality(Before(ids, r)) < n
  BY BeforeIsFinite
<1>3. place \in [ids -> 1 .. n]
  BY <1>1, <1>2
<1>4. ASSUME NEW q \in ids, NEW r \in ids, place[q] = place[r] PROVE q = r
  <2>1. Cardinality(Before(ids, q)) = Cardinality(Before(ids, r))
    BY <1>2, <1>4
  <2>2. ~(q < r) /\ ~(r < q)
    BY <1>2, <2>1, MoreBeforeTheLater
  <2> QED
    BY <2>2
<1>5. place \in Injection(ids, 1 .. n)
  <2> HIDE DEF place
  <2> QED
    BY <1>3, <1>4, Fun_IsInj
<1>6. IsFiniteSet(1 .. n) /\ Cardinality(1 .. n) = n
  BY <1>1, CardinalityOfInterval
<1>7. place \in Surjection(ids, 1 .. n)
  <2> HIDE DEF place
  <2> QED
    BY <1>5, <1>6, FS_Injection
<1>8. PICK r \in ids : place[r] = i
  <2>1. \A t \in 1 .. n : \E s \in ids : place[s] = t
    <3> HIDE DEF place, n
    <3> QED
      BY <1>7, Fun_SurjectionProperties
  <2> QED
    BY <2>1
<1> QED
  BY <1>2, <1>8
-----------------------------------------------------------------------------
(* A sequence of any elements. *)
Listed(s) == s \in Seq(ToSet(s))

LEMMA ListedProperties ==
  ASSUME NEW s, Listed(s)
  PROVE  Len(s) \in Nat /\ DOMAIN s = 1 .. Len(s) /\ \A i \in 1 .. Len(s) : s[i] \in ToSet(s)
<1>1. Len(s) \in Nat /\ DOMAIN s = 1 .. Len(s)
  BY LenProperties DEF Listed
<1> QED
  BY <1>1 DEF ToSet

LEMMA SequenceIsListed ==
  ASSUME NEW S, NEW s \in Seq(S)
  PROVE  Listed(s)
<1>1. Len(s) \in Nat /\ DOMAIN s = 1 .. Len(s) /\ s \in [1 .. Len(s) -> S]
  BY LenProperties
<1>2. s \in [1 .. Len(s) -> ToSet(s)]
  BY <1>1 DEF ToSet
<1> QED
  BY <1>1, <1>2, SeqDef DEF Listed

LEMMA AppendToListed ==
  ASSUME NEW s, Listed(s), NEW e
  PROVE  /\ Listed(Append(s, e)) /\ Len(Append(s, e)) = Len(s) + 1
         /\ \A i \in 1 .. Len(s) : Append(s, e)[i] = s[i]
         /\ Append(s, e)[Len(s) + 1] = e
<1> DEFINE S == ToSet(s) \cup {e}
<1>1. s \in Seq(S)
  BY SeqMonotonic DEF Listed
<1>2. e \in S
  OBVIOUS
<1> HIDE DEF S
<1>3. /\ Append(s, e) \in Seq(S) /\ Len(Append(s, e)) = Len(s) + 1
      /\ \A i \in 1 .. Len(s) : Append(s, e)[i] = s[i]
      /\ Append(s, e)[Len(s) + 1] = e
  BY <1>1, <1>2, AppendProperties
<1> QED
  BY <1>3, SequenceIsListed

LEMMA ExceptListed ==
  ASSUME NEW s, Listed(s), NEW k \in 1 .. Len(s), NEW e
  PROVE  LET t == [s EXCEPT ![k] = e]
         IN  /\ Listed(t) /\ Len(t) = Len(s)
             /\ \A i \in 1 .. Len(s) : t[i] = IF i = k THEN e ELSE s[i]
<1> DEFINE S == ToSet(s) \cup {e}
           t == [s EXCEPT ![k] = e]
<1>1. s \in Seq(S)
  BY SeqMonotonic DEF Listed
<1>2. e \in S
  OBVIOUS
<1> HIDE DEF S
<1>3. /\ t \in Seq(S) /\ Len(t) = Len(s)
      /\ \A i \in 1 .. Len(s) : t[i] = IF i = k THEN e ELSE s[i]
  BY <1>1, <1>2, ExceptSeq
<1> HIDE DEF t
<1>4. Listed(t)
  BY <1>3, SequenceIsListed
<1> QED
  BY <1>3, <1>4 DEF t

LEMMA ConcatListed ==
  ASSUME NEW s, Listed(s), NEW t, Listed(t)
  PROVE  /\ Listed(s \o t) /\ Len(s \o t) = Len(s) + Len(t)
         /\ \A i \in 1 .. Len(s) : (s \o t)[i] = s[i]
         /\ \A i \in 1 .. Len(t) : (s \o t)[Len(s) + i] = t[i]
<1> DEFINE S == ToSet(s) \cup ToSet(t)
<1>1. s \in Seq(S) /\ t \in Seq(S)
  BY SeqMonotonic DEF Listed
<1> HIDE DEF S
<1>2. /\ s \o t \in Seq(S) /\ Len(s \o t) = Len(s) + Len(t)
      /\ \A i \in 1 .. Len(s) + Len(t) :
           (s \o t)[i] = IF i <= Len(s) THEN s[i] ELSE t[i - Len(s)]
  BY <1>1, ConcatProperties
<1>3. Len(s) \in Nat /\ Len(t) \in Nat
  BY ListedProperties
<1>4. ASSUME NEW i \in 1 .. Len(s) PROVE (s \o t)[i] = s[i]
  BY <1>2, <1>3
<1>5. ASSUME NEW i \in 1 .. Len(t) PROVE (s \o t)[Len(s) + i] = t[i]
  <2>1. Len(s) + i \in 1 .. Len(s) + Len(t) /\ ~(Len(s) + i <= Len(s)) /\ Len(s) + i - Len(s) = i
    BY <1>3
  <2> QED
    BY <1>2, <2>1
<1> QED
  BY <1>2, <1>4, <1>5, SequenceIsListed
-----------------------------------------------------------------------------
(* Sums over the subsets of a set, in any order. *)
IsSum(F, g, S) ==
  /\ F[{}] = 0
  /\ \A T \in SUBSET S : \A x \in T : F[T] = g[x] + F[T \ {x}]

(* What MapThenSumSet computes. *)
AddsUp(F, g, S) ==
  F = [T \in SUBSET S |->
         IF T = {} THEN 0 ELSE LET x == CHOOSE x \in T : TRUE IN g[x] + F[T \ {x}]]

(* A set of finite sets that is not empty has a smallest member. *)
LEMMA SmallestSet ==
  ASSUME NEW S, IsFiniteSet(S), NEW U \in SUBSET (SUBSET S), U # {}
  PROVE  \E T \in U : \A V \in U : Cardinality(T) <= Cardinality(V)
<1> DEFINE sizes == {Cardinality(T) : T \in U}
<1>1. \A T \in U : Cardinality(T) \in Nat
  BY FS_Subset, FS_CardinalityType
<1>2. PICK n \in sizes : \A m \in sizes : n <= m
  <2>1. sizes \in SUBSET Nat /\ sizes # {}
    BY <1>1
  <2> QED
    BY <2>1, LeastNumber
<1> QED
  BY <1>2

(* A set of finite sets that has, with any member but the empty set, one     *)
(* smaller by an element, has the empty set if it has a member.              *)
LEMMA DownToEmpty ==
  ASSUME NEW S, IsFiniteSet(S), NEW U \in SUBSET (SUBSET S), U # {},
         \A T \in U : T # {} => \E x \in T : T \ {x} \in U
  PROVE  {} \in U
<1>1. PICK T \in U : \A V \in U : Cardinality(T) <= Cardinality(V)
  BY SmallestSet
<1>2. ASSUME T # {} PROVE FALSE
  <2>1. PICK x \in T : T \ {x} \in U
    BY <1>2
  <2>2. Cardinality(T) \in Nat /\ Cardinality(T \ {x}) = Cardinality(T) - 1
    BY FS_Subset, FS_CardinalityType, FS_RemoveElement
  <2> QED
    BY <1>1, <2>1, <2>2
<1> QED
  BY <1>1, <1>2

LEMMA SumsAgree ==
  ASSUME NEW S, IsFiniteSet(S), NEW g, NEW F, IsSum(F, g, S), NEW I, AddsUp(I, g, S)
  PROVE  \A T \in SUBSET S : I[T] = F[T]
<1> DEFINE U == {T \in SUBSET S : I[T] # F[T]}
<1> SUFFICES ASSUME U # {} PROVE FALSE
  OBVIOUS
<1>1. ASSUME NEW T \in U, T # {} PROVE \E x \in T : T \ {x} \in U
  <2> DEFINE x == CHOOSE x \in T : TRUE
  <2>1. x \in T
    BY <1>1
  <2>2. I[T] = g[x] + I[T \ {x}]
    BY <1>1 DEF AddsUp
  <2>3. F[T] = g[x] + F[T \ {x}]
    BY <2>1 DEF IsSum
  <2> HIDE DEF x
  <2>4. I[T \ {x}] # F[T \ {x}]
    BY <2>2, <2>3
  <2> QED
    BY <2>1, <2>4
<1>2. {} \in U
  <2> HIDE DEF U
  <2>1. U \in SUBSET (SUBSET S)
    BY DEF U
  <2> QED
    BY <1>1, <2>1, DownToEmpty
<1> QED
  BY <1>2 DEF AddsUp, IsSum

LEMMA SumAddsUp ==
  ASSUME NEW S, NEW g, NEW F, IsSum(F, g, S)
  PROVE  AddsUp([T \in SUBSET S |-> F[T]], g, S)
<1> DEFINE I == [T \in SUBSET S |-> F[T]]
<1>1. ASSUME NEW T \in SUBSET S
      PROVE  F[T] = IF T = {} THEN 0 ELSE LET x == CHOOSE x \in T : TRUE IN g[x] + I[T \ {x}]
  BY DEF IsSum
<1> QED
  BY <1>1 DEF AddsUp

LEMMA SumExists ==
  ASSUME NEW S, IsFiniteSet(S), NEW g \in [S -> Nat]
  PROVE  \E F \in [SUBSET S -> Nat] : IsSum(F, g, S)
<1> DEFINE Good(T) == \E F \in [SUBSET T -> Nat] : IsSum(F, g, T)
           U == {T \in SUBSET S : ~Good(T)}
<1> SUFFICES ASSUME U # {} PROVE FALSE
  OBVIOUS
<1>1. ASSUME NEW T \in SUBSET S, NEW x \in T, Good(T \ {x}) PROVE Good(T)
  <2> DEFINE R == T \ {x}
  <2>1. PICK F \in [SUBSET R -> Nat] : IsSum(F, g, R)
    BY <1>1
  <2> DEFINE G == [V \in SUBSET T |-> IF x \in V THEN g[x] + F[V \ {x}] ELSE F[V]]
  <2>2. \A V \in SUBSET T : V \ {x} \in SUBSET R /\ (x \notin V => V \in SUBSET R)
    OBVIOUS
  <2>3. g[x] \in Nat
    OBVIOUS
  <2>4. G \in [SUBSET T -> Nat]
    BY <2>1, <2>2, <2>3
  <2>5. ASSUME NEW V \in SUBSET T, NEW y \in V
        PROVE  G[V] = g[y] + G[V \ {y}]
    <3>1. CASE y = x
      BY <3>1, <2>2
    <3>2. CASE y # x /\ x \notin V
      BY <3>2, <2>1, <2>2 DEF IsSum
    <3>3. CASE y # x /\ x \in V
      <4>1. G[V] = g[x] + F[V \ {x}] /\ G[V \ {y}] = g[x] + F[(V \ {y}) \ {x}]
        BY <3>3
      <4>2. F[V \ {x}] = g[y] + F[(V \ {x}) \ {y}]
        BY <3>3, <2>1, <2>2 DEF IsSum
      <4>3. (V \ {x}) \ {y} = (V \ {y}) \ {x} /\ (V \ {y}) \ {x} \in SUBSET R
        BY <2>2
      <4>4. g[y] \in Nat /\ F[(V \ {y}) \ {x}] \in Nat
        BY <2>1, <4>3
      <4> DEFINE f == F[(V \ {y}) \ {x}]
      <4>5. g[x] + (g[y] + f) = g[y] + (g[x] + f)
        <5> HIDE DEF f
        <5> QED
          BY <4>4, <2>3 DEF f
      <4>6. F[V \ {x}] = g[y] + f
        BY <4>2, <4>3
      <4> HIDE DEF G, f
      <4>7. G[V \ {y}] = g[x] + f
        BY <4>1 DEF f
      <4> QED
        BY <4>1, <4>5, <4>6, <4>7
    <3> QED
      BY <3>1, <3>2, <3>3
  <2>6. G[{}] = 0
    BY <2>1, <2>2 DEF IsSum
  <2> HIDE DEF G
  <2> QED
    BY <2>4, <2>5, <2>6 DEF IsSum
<1>2. ASSUME NEW T \in U, T # {} PROVE \E x \in T : T \ {x} \in U
  <2> HIDE DEF Good
  <2>1. PICK x \in T : TRUE
    BY <1>2
  <2> QED
    BY <1>1, <2>1
<1>3. {} \in U
  <2> HIDE DEF Good
  <2>1. U \in SUBSET (SUBSET S)
    OBVIOUS
  <2> HIDE DEF U
  <2> QED
    BY <1>2, <2>1, DownToEmpty
<1>4. Good({})
  <2> DEFINE F == [V \in SUBSET {} |-> 0]
  <2>1. F \in [SUBSET {} -> Nat] /\ IsSum(F, g, {})
    BY DEF IsSum
  <2> HIDE DEF F
  <2> QED
    BY <2>1
<1> QED
  BY <1>3, <1>4

(* A finite set of numbers that is not empty has a greatest member. *)
LEMMA MaxOfFinite ==
  ASSUME NEW S \in SUBSET Int, IsFiniteSet(S), S # {}
  PROVE  Max(S) \in S /\ \A y \in S : Max(S) >= y
<1> DEFINE Has(T) == \E x \in T : \A y \in T : x >= y
           U == {T \in SUBSET S : ~Has(T)} \ {{}}
<1>1. ASSUME U # {} PROVE FALSE
  <2>1. PICK T \in U : \A V \in U : Cardinality(T) <= Cardinality(V)
    <3>1. U \in SUBSET (SUBSET S)
      OBVIOUS
    <3> HIDE DEF U
    <3> QED
      BY <1>1, <3>1, SmallestSet
  <2>2. PICK z \in T : TRUE
    BY <2>1
  <2>3. T \in SUBSET S /\ ~Has(T)
    BY <2>1
  <2>4. Cardinality(T) \in Nat /\ Cardinality(T \ {z}) = Cardinality(T) - 1
    BY <2>3, FS_Subset, FS_CardinalityType, FS_RemoveElement
  <2>5. T \ {z} \notin U
    <3> HIDE DEF U
    <3> QED
      BY <2>1, <2>4
  <2>6. CASE T \ {z} = {}
    <3>1. \A y \in T : y = z
      BY <2>6
    <3> QED
      BY <2>3, <3>1
  <2>7. CASE Has(T \ {z})
    <3>1. PICK x \in T \ {z} : \A y \in T \ {z} : x >= y
      BY <2>7
    <3>2. x \in Int /\ z \in Int /\ \A y \in T : y \in Int
      BY <2>3
    <3>3. CASE x >= z
      BY <2>3, <3>1, <3>3
    <3>4. CASE ~(x >= z)
      <4>1. \A y \in T : z >= y
        BY <3>1, <3>2, <3>4
      <4> QED
        BY <2>3, <4>1
    <3> QED
      BY <3>3, <3>4
  <2> QED
    BY <2>3, <2>5, <2>6, <2>7
<1>2. Has(S)
  BY <1>1
<1> QED
  BY <1>2 DEF Max

(* The image of a finite set is finite. *)
LEMMA ImageIsFinite ==
  ASSUME NEW C, IsFiniteSet(C), NEW f
  PROVE  IsFiniteSet({f[c] : c \in C})
<1> DEFINE h == [c \in C |-> f[c]]
           S == {f[c] : c \in C}
<1>1. h \in Surjection(C, S)
  BY DEF Surjection
<1> HIDE DEF h, S
<1>2. IsFiniteSet(S)
  BY <1>1, FS_Surjection
<1> QED
  BY <1>2 DEF S

LEMMA MaxOfImage ==
  ASSUME NEW S, IsFiniteSet(S), S # {}, NEW g \in [S -> Nat]
  PROVE  LET m == Max({g[x] : x \in S}) IN m \in Nat /\ \A x \in S : m >= g[x]
<1> DEFINE T == {g[x] : x \in S}
<1>1. T \in SUBSET Int /\ T \subseteq Nat /\ T # {} /\ IsFiniteSet(T)
  BY ImageIsFinite
<1>2. \A x \in S : g[x] \in T
  OBVIOUS
<1> HIDE DEF T
<1>3. Max(T) \in T /\ \A y \in T : Max(T) >= y
  BY <1>1, MaxOfFinite
<1>4. Max(T) \in Nat /\ \A x \in S : Max(T) >= g[x]
  BY <1>1, <1>2, <1>3
<1> QED
  BY <1>4 DEF T

LEMMA MaxOfTwo ==
  ASSUME NEW a \in Int, NEW b \in Int
  PROVE  Max({a, b}) = IF a >= b THEN a ELSE b
<1>1. Max({a, b}) \in {a, b} /\ \A y \in {a, b} : Max({a, b}) >= y
  <2>1. IsFiniteSet({a, b})
    <3>1. {a, b} = {a} \cup {b}
      OBVIOUS
    <3>2. IsFiniteSet({a}) /\ IsFiniteSet({b})
      BY FS_Singleton
    <3> QED
      BY <3>1, <3>2, FS_Union
  <2> QED
    BY <2>1, MaxOfFinite
<1> QED
  BY <1>1

LEMMA MinOfTwo ==
  ASSUME NEW a \in Int, NEW b \in Int
  PROVE  Min({a, b}) = IF a <= b THEN a ELSE b
<1>1. PICK m : m = IF a <= b THEN a ELSE b
  OBVIOUS
<1>2. m \in {a, b} /\ \A y \in {a, b} : m <= y
  BY <1>1
<1>3. \A x \in {a, b} : (\A y \in {a, b} : x <= y) => x = m
  BY <1>1
<1> QED
  BY <1>1, <1>2, <1>3 DEF Min
=============================================================================
