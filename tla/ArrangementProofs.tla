-------------------------- MODULE ArrangementProofs --------------------------
(***************************************************************************)
(* Lemmas on finite sets that several proof modules need: their least and  *)
(* greatest numbers, their images, and what Arrangements makes of them.    *)
(***************************************************************************)
EXTENDS FiniteSetsExt, SequencesExt, Arrangements, FiniteSetTheorems, FunctionTheorems, WellFoundedInduction, TLAPS

-----------------------------------------------------------------------------
(* Least and greatest numbers, images and pairs.                           *)

LEMMA LeastOf ==
  ASSUME NEW S, S \subseteq Nat, S # {}
  PROVE  \E x \in S : \A y \in S : x <= y
<1>1. \E x \in S : \A y \in S : ~(<<y, x>> \in OpToRel(<, Nat))
  BY NatLessThanWellFounded, WFMin
<1>2. PICK x \in S : \A y \in S : ~(<<y, x>> \in OpToRel(<, Nat))
  BY <1>1
<1>3. \A y \in S : ~(y < x)
  BY <1>2 DEF OpToRel
<1> QED  BY <1>3

LEMMA MinIsLeast ==
  ASSUME NEW S, S \subseteq Nat, S # {}
  PROVE  Min(S) \in S /\ Min(S) \in Nat /\ \A x \in S : Min(S) <= x
<1>1. PICK x \in S : \A y \in S : x <= y
  BY LeastOf
<1>2. Min(S) \in S /\ \A y \in S : Min(S) <= y
  BY <1>1 DEF Min
<1> QED  BY <1>2

LEMMA MaxIsGreatest ==
  ASSUME NEW S, S \subseteq Nat, S # {}, IsFiniteSet(S)
  PROVE  Max(S) \in S /\ Max(S) \in Nat /\ \A x \in S : x <= Max(S)
<1> DEFINE Topped(T) == \E x \in T : \A y \in T : y <= x
           Open == {T \in SUBSET S : T # {} /\ ~Topped(T)}
           Sizes == {Cardinality(T) : T \in Open}
<1>1. Open = {}
  <2>1. SUFFICES ASSUME Open # {} PROVE FALSE
    OBVIOUS
  <2>2. \A T \in Open : IsFiniteSet(T) /\ Cardinality(T) \in Nat
    BY FS_Subset, FS_CardinalityType
  <2>3. PICK n \in Sizes : \A k \in Sizes : n <= k
    <3>1. Sizes \subseteq Nat /\ Sizes # {}
      BY <2>1, <2>2
    <3> HIDE DEF Sizes
    <3> QED  BY <3>1, LeastOf
  <2>4. PICK T \in Open : n = Cardinality(T)
    BY <2>3
  <2>5. PICK x : x \in T
    BY <2>4
  <2>6. Cardinality(T \ {x}) = Cardinality(T) - 1 /\ IsFiniteSet(T \ {x})
    BY <2>2, <2>4, <2>5, FS_RemoveElement
  <2>7. T \ {x} \notin Open
    <3>1. Cardinality(T) \in Nat
      BY <2>2, <2>4
    <3>2. Cardinality(T \ {x}) \notin Sizes
      <4> HIDE DEF Sizes
      <4> QED  BY <2>3, <2>4, <2>6, <3>1
    <3> QED  BY <3>2
  <2>8. x \in Nat /\ T \subseteq Nat
    BY <2>4, <2>5
  <2>9. CASE T \ {x} = {}
    <3>1. \A y \in T : y <= x
      BY <2>8, <2>9
    <3> QED  BY <2>4, <2>5, <3>1
  <2>10. CASE T \ {x} # {}
    <3>1. PICK m \in T \ {x} : \A y \in T \ {x} : y <= m
      BY <2>4, <2>7, <2>10
    <3>2. CASE m <= x
      <4>1. \A y \in T : y <= x
        BY <2>8, <3>1, <3>2
      <4> QED  BY <2>4, <2>5, <4>1
    <3>3. CASE ~(m <= x)
      <4>1. \A y \in T : y <= m
        BY <2>8, <3>1, <3>3
      <4> QED  BY <2>4, <3>1, <4>1
    <3> QED  BY <3>2, <3>3
  <2> QED  BY <2>9, <2>10
<1>2. S \in SUBSET S /\ S \notin Open
  BY <1>1
<1>3. Topped(S)
  BY <1>2
<1>4. PICK m \in S : \A y \in S : y <= m
  BY <1>3
<1>5. Max(S) \in S /\ \A x \in S : Max(S) >= x
  <2>1. \A x \in S : m >= x
    BY <1>4
  <2> QED  BY <2>1 DEF Max
<1> QED  BY <1>5

LEMMA ImageIsFinite ==
  ASSUME NEW S, IsFiniteSet(S), NEW T, NEW f \in [S -> T], \A y \in T : \E x \in S : f[x] = y
  PROVE  IsFiniteSet(T)
<1>1. f \in Surjection(S, T)
  BY Fun_IsSurj
<1> QED  BY <1>1, FS_Surjection

LEMMA TwoMakeTwo ==
  ASSUME NEW S, IsFiniteSet(S), \E x, y \in S : x # y
  PROVE  Cardinality(S) >= 2
<1>1. PICK x \in S, y \in S : x # y
  OBVIOUS
<1>2. IsFiniteSet({x}) /\ Cardinality({x}) = 1
  BY FS_Singleton
<1>3. Cardinality({x} \cup {y}) = 2
  <2>1. y \notin {x}
    BY <1>1
  <2> DEFINE T == {x}
  <2> HIDE DEF T
  <2>2. Cardinality(T \cup {y}) = IF y \in T THEN Cardinality(T) ELSE Cardinality(T) + 1
    BY <1>2, FS_AddElement DEF T
  <2> QED  BY <1>2, <2>1, <2>2 DEF T
<1>4. {x} \cup {y} \subseteq S
  OBVIOUS
<1>5. Cardinality({x} \cup {y}) <= Cardinality(S)
  BY <1>4, FS_Subset
<1>6. Cardinality(S) \in Nat
  BY FS_CardinalityType
<1> QED  BY <1>3, <1>5, <1>6

LEMMA AtLeastTwo ==
  ASSUME NEW S, IsFiniteSet(S), Cardinality(S) >= 2
  PROVE  \E x, y \in S : x # y
<1>1. SUFFICES ASSUME \A x, y \in S : x = y PROVE FALSE
  OBVIOUS
<1>2. CASE S = {}
  BY <1>2, FS_EmptySet
<1>3. CASE S # {}
  <2>1. PICK x : x \in S
    BY <1>3
  <2>2. S = {x}
    BY <1>1, <2>1
  <2>3. Cardinality(S) = 1
    BY <2>2, FS_Singleton
  <2> QED  BY <2>3
<1> QED  BY <1>2, <1>3

-----------------------------------------------------------------------------
(* Arrangements: in a strict total order on a finite set every place is    *)
(* taken, and by one element.                                              *)

IsOrder(R, S) ==
  /\ \A x \in S : <<x, x>> \notin R
  /\ \A x, y \in S : x = y \/ <<x, y>> \in R \/ <<y, x>> \in R
  /\ \A x, y, z \in S : <<x, y>> \in R /\ <<y, z>> \in R => <<x, z>> \in R

Rank(R, S, x) == Cardinality({y \in S : <<y, x>> \in R})

IsArrangement(q, R, S) ==
  /\ q \in Seq(S) /\ Len(q) = Cardinality(S)
  /\ \A i, j \in 1..Len(q) : i < j => <<q[i], q[j]>> \in R
  /\ \A x \in S : \E i \in 1..Len(q) : q[i] = x

LEMMA RanksAscend ==
  ASSUME NEW S, NEW R, IsFiniteSet(S), IsOrder(R, S)
  PROVE  /\ \A x \in S : Rank(R, S, x) \in 0..(Cardinality(S) - 1)
         /\ \A x, y \in S : <<x, y>> \in R => Rank(R, S, x) < Rank(R, S, y)
<1> DEFINE Below(x) == {y \in S : <<y, x>> \in R}
<1>1. Cardinality(S) \in Nat
  BY FS_CardinalityType
<1>2. ASSUME NEW x \in S
      PROVE  /\ IsFiniteSet(Below(x)) /\ Cardinality(Below(x)) \in Nat
             /\ Cardinality(Below(x)) < Cardinality(S)
  <2>1. Below(x) \in SUBSET S /\ Below(x) # S
    BY <1>2 DEF IsOrder
  <2>2. /\ IsFiniteSet(Below(x)) /\ Cardinality(Below(x)) <= Cardinality(S)
        /\ Cardinality(S) # Cardinality(Below(x))
    BY <2>1, FS_Subset
  <2>3. Cardinality(Below(x)) \in Nat
    BY <2>2, FS_CardinalityType
  <2> QED  BY <1>1, <2>2, <2>3
<1>3. ASSUME NEW x \in S, NEW y \in S, <<x, y>> \in R
      PROVE  Cardinality(Below(x)) < Cardinality(Below(y))
  <2>1. Below(x) \in SUBSET Below(y)
    BY <1>3 DEF IsOrder
  <2>2. x \in Below(y) /\ x \notin Below(x)
    BY <1>3 DEF IsOrder
  <2>3. IsFiniteSet(Below(y)) /\ Cardinality(Below(y)) \in Nat /\ Cardinality(Below(x)) \in Nat
    BY <1>2
  <2> HIDE DEF Below
  <2>4. Cardinality(Below(x)) <= Cardinality(Below(y)) /\ Cardinality(Below(y)) # Cardinality(Below(x))
    BY <2>1, <2>2, <2>3, FS_Subset
  <2> QED  BY <2>3, <2>4
<1>4. ASSUME NEW x \in S PROVE Rank(R, S, x) \in 0..(Cardinality(S) - 1)
  <2>1. Rank(R, S, x) = Cardinality(Below(x))
    BY DEF Rank
  <2> HIDE DEF Below
  <2> QED  BY <1>1, <1>2, <2>1
<1>5. ASSUME NEW x \in S, NEW y \in S, <<x, y>> \in R PROVE Rank(R, S, x) < Rank(R, S, y)
  BY <1>3, <1>5 DEF Rank
<1> QED  BY <1>4, <1>5

LEMMA RanksAreTaken ==
  ASSUME NEW S, NEW R, IsFiniteSet(S), IsOrder(R, S), NEW k \in 1..Cardinality(S)
  PROVE  \E x \in S : Rank(R, S, x) = k - 1
<1> DEFINE n == Cardinality(S)
           f == [x \in S |-> Rank(R, S, x)]
<1>1. n \in Nat
  BY FS_CardinalityType
<1>2. f \in [S -> 0..(n - 1)]
  BY RanksAscend
<1>3. \A x, y \in S : f[x] = f[y] => x = y
  <2>1. \A x, y \in S : <<x, y>> \in R => f[x] < f[y]
    BY RanksAscend
  <2>2. \A x \in S : f[x] \in 0..(n - 1)
    BY <1>2
  <2> HIDE DEF f, n
  <2>3. SUFFICES ASSUME NEW x \in S, NEW y \in S, f[x] = f[y] PROVE x = y
    OBVIOUS
  <2>4. f[x] \in Int /\ f[y] \in Int
    BY <2>2
  <2>5. ~(<<x, y>> \in R) /\ ~(<<y, x>> \in R)
    BY <2>1, <2>3, <2>4
  <2> QED  BY <2>5 DEF IsOrder
<1> HIDE DEF n, f
<1>4. f \in Injection(S, 0..(n - 1))
  BY <1>2, <1>3, Fun_IsInj
<1>5. IsFiniteSet(0..(n - 1)) /\ Cardinality(0..(n - 1)) = n
  BY <1>1, FS_Interval
<1>6. f \in Surjection(S, 0..(n - 1))
  BY <1>4, <1>5, FS_Injection DEF n
<1>7. k - 1 \in 0..(n - 1)
  BY <1>1 DEF n
<1>8. PICK x \in S : f[x] = k - 1
  BY <1>6, <1>7 DEF Surjection
<1> QED  BY <1>8 DEF f

LEMMA ArrangementOf ==
  ASSUME NEW S, NEW R, IsFiniteSet(S), IsOrder(R, S), NEW q \in [1..Cardinality(S) -> S],
         \A k \in 1..Cardinality(S) : Rank(R, S, q[k]) = k - 1
  PROVE  IsArrangement(q, R, S)
<1> DEFINE n == Cardinality(S)
<1>1. n \in Nat
  BY FS_CardinalityType
<1>2. \A k \in 1..n : q[k] \in S /\ Rank(R, S, q[k]) = k - 1
  OBVIOUS
<1>3. q \in Seq(S) /\ Len(q) = n
  BY <1>1, <1>2
<1>4. ASSUME NEW x \in S, NEW y \in S, Rank(R, S, x) = Rank(R, S, y) PROVE x = y
  <2>1. Rank(R, S, x) \in Int /\ Rank(R, S, y) \in Int
    BY RanksAscend
  <2>2. ~(<<x, y>> \in R) /\ ~(<<y, x>> \in R)
    <3>1. <<x, y>> \in R => Rank(R, S, x) < Rank(R, S, y)
      BY RanksAscend
    <3>2. <<y, x>> \in R => Rank(R, S, y) < Rank(R, S, x)
      BY RanksAscend
    <3> QED  BY <1>4, <2>1, <3>1, <3>2
  <2> QED  BY <2>2 DEF IsOrder
<1>5. ASSUME NEW i \in 1..n, NEW j \in 1..n, i < j PROVE <<q[i], q[j]>> \in R
  <2>1. q[i] \in S /\ q[j] \in S /\ Rank(R, S, q[i]) = i - 1 /\ Rank(R, S, q[j]) = j - 1
    BY <1>2
  <2>2. q[i] # q[j]
    BY <1>1, <1>5, <2>1
  <2>3. ~(<<q[j], q[i]>> \in R)
    <3>1. <<q[j], q[i]>> \in R => Rank(R, S, q[j]) < Rank(R, S, q[i])
      BY <2>1, RanksAscend
    <3> QED  BY <1>1, <1>5, <2>1, <3>1
  <2> QED  BY <2>1, <2>2, <2>3 DEF IsOrder
<1>6. ASSUME NEW x \in S PROVE \E i \in 1..n : q[i] = x
  <2>1. Rank(R, S, x) \in 0..(n - 1)
    BY RanksAscend
  <2> DEFINE i == Rank(R, S, x) + 1
  <2>2. i \in 1..n /\ i - 1 = Rank(R, S, x)
    BY <1>1, <2>1
  <2> HIDE DEF i
  <2>3. q[i] = x
    BY <1>2, <1>4, <2>2
  <2> QED  BY <2>2, <2>3
<1> QED  BY <1>3, <1>5, <1>6 DEF IsArrangement

(* An arrangement lists every element once. *)
LEMMA ArrangementLists ==
  ASSUME NEW S, NEW R, NEW q, IsOrder(R, S), IsArrangement(q, R, S)
  PROVE  /\ q \in Seq(S) /\ ToSet(q) = S
         /\ \A x \in S : \E i \in DOMAIN q : q[i] = x
         /\ \A i, j \in DOMAIN q : q[i] = q[j] => i = j
<1>1. /\ q \in Seq(S) /\ DOMAIN q = 1..Len(q) /\ Len(q) \in Nat
      /\ \A x \in S : \E i \in 1..Len(q) : q[i] = x
      /\ \A i, j \in 1..Len(q) : i < j => <<q[i], q[j]>> \in R
  BY DEF IsArrangement
<1>2. ToSet(q) = S
  BY <1>1 DEF ToSet
<1>3. ASSUME NEW i \in 1..Len(q), NEW j \in 1..Len(q), q[i] = q[j] PROVE i = j
  <2>1. q[i] \in S /\ <<q[i], q[i]>> \notin R
    BY <1>1 DEF IsOrder
  <2>2. ~(i < j) /\ ~(j < i)
    BY <1>1, <1>3, <2>1
  <2> QED  BY <1>1, <2>2
<1> QED  BY <1>1, <1>2, <1>3

LEMMA OrderByNumber ==
  ASSUME NEW S, NEW key \in [S -> Nat], \A x, y \in S : key[x] = key[y] => x = y,
         NEW R, \A x, y \in S : <<x, y>> \in R <=> key[x] < key[y]
  PROVE  IsOrder(R, S)
<1>1. \A x \in S : <<x, x>> \notin R
  <2> TAKE x \in S
  <2>1. key[x] \in Nat
    OBVIOUS
  <2> QED  BY <2>1
<1>2. \A x, y \in S : x = y \/ <<x, y>> \in R \/ <<y, x>> \in R
  <2> TAKE x, y \in S
  <2>1. key[x] \in Nat /\ key[y] \in Nat
    OBVIOUS
  <2>2. key[x] = key[y] \/ key[x] < key[y] \/ key[y] < key[x]
    BY <2>1
  <2> QED  BY <2>2
<1>3. \A x, y, z \in S : <<x, y>> \in R /\ <<y, z>> \in R => <<x, z>> \in R
  <2> TAKE x, y, z \in S
  <2>1. key[x] \in Nat /\ key[y] \in Nat /\ key[z] \in Nat
    OBVIOUS
  <2>2. key[x] < key[y] /\ key[y] < key[z] => key[x] < key[z]
    BY <2>1
  <2> QED  BY <2>2
<1> QED  BY <1>1, <1>2, <1>3 DEF IsOrder

-----------------------------------------------------------------------------
(* Numbers and functions.                                                  *)

(* A set that has 0 and every successor, up to n, has all numbers up to n. *)
LEMMA StepByStep ==
  ASSUME NEW n \in Nat, NEW T, 0 \in T, \A k \in 1..n : k - 1 \in T => k \in T
  PROVE  0..n \subseteq T
<1> DEFINE Left == {k \in 0..n : k \notin T}
<1>1. SUFFICES ASSUME Left # {} PROVE FALSE
  OBVIOUS
<1>2. PICK k \in Left : \A y \in Left : k <= y
  <2>1. Left \subseteq Nat
    OBVIOUS
  <2> QED  BY <1>1, <2>1, LeastOf
<1>3. k \in 1..n /\ k - 1 \in 0..n
  BY <1>2
<1>4. k - 1 \notin Left
  BY <1>2, <1>3
<1> QED  BY <1>2, <1>3, <1>4

(* What begins with a value and goes on from each number to the next is a  *)
(* function.                                                               *)
IsRun(f, n, base, next) ==
  f[0] = base /\ \A k \in 1..n : f[k] = next[<<k, f[k - 1]>>]

LEMMA RunsExist ==
  ASSUME NEW n \in Nat, NEW S, NEW base \in S, NEW next \in [(1..n) \X S -> S]
  PROVE  \E f \in [0..n -> S] : IsRun(f, n, base, next)
<1> DEFINE T == {m \in 0..n : \E f \in [0..m -> S] : IsRun(f, m, base, next)}
<1>1. 0 \in T
  <2> DEFINE f == [k \in 0..0 |-> base]
  <2>1. f \in [0..0 -> S] /\ f[0] = base
    OBVIOUS
  <2>2. IsRun(f, 0, base, next)
    BY <2>1 DEF IsRun
  <2> QED  BY <2>1, <2>2
<1>2. ASSUME NEW m \in 1..n, m - 1 \in T PROVE m \in T
  <2>1. PICK f \in [0..(m - 1) -> S] : IsRun(f, m - 1, base, next)
    BY <1>2
  <2> DEFINE g == [k \in 0..m |-> IF k = m THEN next[<<m, f[m - 1]>>] ELSE f[k]]
  <2>2. f[m - 1] \in S /\ next[<<m, f[m - 1]>>] \in S
    BY <2>1
  <2>3. \A k \in 0..(m - 1) : g[k] = f[k] /\ g[k] \in S
    OBVIOUS
  <2>4. g[m] = next[<<m, f[m - 1]>>]
    OBVIOUS
  <2>5. g \in [0..m -> S]
    BY <2>2
  <2>6. IsRun(g, m, base, next)
    <3> HIDE DEF g
    <3>1. g[0] = base
      BY <2>1, <2>3 DEF IsRun
    <3>2. ASSUME NEW k \in 1..m PROVE g[k] = next[<<k, g[k - 1]>>]
      <4>1. CASE k = m
        BY <2>3, <2>4, <4>1
      <4>2. CASE k # m
        <5>1. k \in 1..(m - 1) /\ k \in 0..(m - 1) /\ k - 1 \in 0..(m - 1)
          BY <4>2
        <5> QED  BY <2>1, <2>3, <5>1 DEF IsRun
      <4> QED  BY <4>1, <4>2
    <3> QED  BY <3>1, <3>2 DEF IsRun
  <2> HIDE DEF g
  <2>7. m \in 0..n
    OBVIOUS
  <2> QED  BY <2>5, <2>6, <2>7
<1> HIDE DEF T
<1>3. 0..n \subseteq T
  BY <1>1, <1>2, StepByStep
<1>4. n \in T
  BY <1>3
<1> QED  BY <1>4 DEF T
=============================================================================
