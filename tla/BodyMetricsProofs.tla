-------------------------- MODULE BodyMetricsProofs --------------------------
(***************************************************************************)
(* Proofs about BodyMetrics, for every tree: the one walk gives each       *)
(* function what a walk of its own would, and no path two owners.          *)
(***************************************************************************)
EXTENDS BodyMetrics, ArrangementProofs, SequenceTheorems

-----------------------------------------------------------------------------
(* Totals.                                                                 *)

IsWorth(w, n) == n \in Nat /\ w \in [1..n -> Int]

(* The partial sums. *)
AreSums(s, w, n) ==
  s \in [0..n -> Int] /\ s[0] = 0 /\ \A k \in 1..n : s[k] = s[k - 1] + w[k]

LEMMA TotalIs ==
  ASSUME NEW w, NEW n, IsWorth(w, n)
  PROVE  \E s : AreSums(s, w, n) /\ Total(w) = s[n]
<1>1. n \in Nat /\ Len(w) = n /\ \A k \in 1..n : w[k] \in Int
  BY DEF IsWorth
<1> DEFINE next == [p \in (1..n) \X Int |-> p[2] + w[p[1]]]
<1>2. next \in [(1..n) \X Int -> Int]
  BY <1>1
<1>14. \A k \in 1..n, x \in Int : next[<<k, x>>] = x + w[k]
  BY <1>1
<1> HIDE DEF next
<1>15. 0 \in Int
  OBVIOUS
<1>3. PICK f \in [0..n -> Int] : IsRun(f, n, 0, next)
  BY <1>1, <1>2, <1>15, RunsExist
<1>4. \A k \in 1..n : k - 1 \in 0..n /\ f[k - 1] \in Int /\ f[k] = f[k - 1] + w[k]
  <2> TAKE k \in 1..n
  <2>1. k - 1 \in 0..n /\ f[k - 1] \in Int
    BY <1>1, <1>3
  <2>2. f[k] = next[<<k, f[k - 1]>>]
    BY <1>3 DEF IsRun
  <2>3. next[<<k, f[k - 1]>>] = f[k - 1] + w[k]
    BY <1>14, <2>1
  <2> QED  BY <2>1, <2>2, <2>3
<1>5. f[0] = 0
  BY <1>3 DEF IsRun
<1>6. AreSums(f, w, n)
  BY <1>3, <1>4, <1>5 DEF AreSums
<1> DEFINE IsUp(g) == g = [k \in 0..Len(w) |-> IF k = 0 THEN 0 ELSE g[k - 1] + w[k]]
<1>7. IsUp(f)
  BY <1>1, <1>3, <1>4, <1>5
<1> DEFINE u == CHOOSE g : IsUp(g)
<1>8. IsUp(u)
  BY <1>7
<1>9. Total(w) = u[n]
  BY <1>1 DEF Total
<1> HIDE DEF u
<1>10. u[0] = 0 /\ \A k \in 1..n : u[k] = u[k - 1] + w[k]
  BY <1>1, <1>8
<1> DEFINE T == {k \in 0..n : u[k] = f[k]}
<1>11. 0 \in T
  BY <1>1, <1>5, <1>10
<1>12. \A k \in 1..n : k - 1 \in T => k \in T
  BY <1>1, <1>4, <1>10
<1> HIDE DEF T
<1>13. n \in T
  <2>1. n \in Nat
    BY <1>1
  <2>2. 0..n \subseteq T
    BY <2>1, <1>11, <1>12, StepByStep
  <2> QED  BY <2>1, <2>2
<1> QED  BY <1>6, <1>9, <1>13 DEF T

LEMMA TotalIsANumber == ASSUME NEW w, NEW n, IsWorth(w, n) PROVE Total(w) \in Int
<1>1. PICK s : AreSums(s, w, n) /\ Total(w) = s[n]
  BY TotalIs
<1> QED  BY <1>1 DEF AreSums, IsWorth

LEMMA TotalAdds ==
  ASSUME NEW n, NEW u, NEW v, NEW w, IsWorth(u, n), IsWorth(v, n), IsWorth(w, n),
         \A k \in 1..n : w[k] = u[k] + v[k]
  PROVE  Total(w) = Total(u) + Total(v)
<1>1. PICK s : AreSums(s, u, n) /\ Total(u) = s[n]
  BY TotalIs
<1>2. PICK t : AreSums(t, v, n) /\ Total(v) = t[n]
  BY TotalIs
<1>3. PICK r : AreSums(r, w, n) /\ Total(w) = r[n]
  BY TotalIs
<1>4. n \in Nat /\ \A k \in 1..n : u[k] \in Int /\ v[k] \in Int /\ k - 1 \in 0..n /\ k \in 0..n
  BY DEF IsWorth
<1> DEFINE T == {k \in 0..n : r[k] = s[k] + t[k]}
<1>5. 0 \in T
  BY <1>1, <1>2, <1>3, <1>4 DEF AreSums
<1>6. ASSUME NEW k \in 1..n, k - 1 \in T PROVE k \in T
  <2>1. r[k] = r[k - 1] + w[k] /\ s[k] = s[k - 1] + u[k] /\ t[k] = t[k - 1] + v[k]
    BY <1>1, <1>2, <1>3 DEF AreSums
  <2>2. s[k - 1] \in Int /\ t[k - 1] \in Int /\ r[k - 1] = s[k - 1] + t[k - 1]
    BY <1>1, <1>2, <1>4, <1>6 DEF AreSums
  <2>3. u[k] \in Int /\ v[k] \in Int /\ k \in 0..n
    BY <1>4
  <2>4. w[k] = u[k] + v[k]
    OBVIOUS
  <2> QED  BY <2>1, <2>2, <2>3, <2>4
<1> HIDE DEF T
<1>7. 0..n \subseteq T
  BY <1>4, <1>5, <1>6, StepByStep
<1> QED  BY <1>1, <1>2, <1>3, <1>4, <1>7 DEF T

LEMMA TotalScales ==
  ASSUME NEW n, NEW u, NEW w, NEW c \in Int, IsWorth(u, n), IsWorth(w, n),
         \A k \in 1..n : w[k] = u[k] * c
  PROVE  Total(w) = Total(u) * c
<1>1. PICK s : AreSums(s, u, n) /\ Total(u) = s[n]
  BY TotalIs
<1>2. PICK r : AreSums(r, w, n) /\ Total(w) = r[n]
  BY TotalIs
<1>3. n \in Nat /\ \A k \in 1..n : u[k] \in Int /\ k - 1 \in 0..n /\ k \in 0..n
  BY DEF IsWorth
<1> DEFINE T == {k \in 0..n : r[k] = s[k] * c}
<1>4. 0 \in T
  BY <1>1, <1>2, <1>3 DEF AreSums
<1>5. ASSUME NEW k \in 1..n, k - 1 \in T PROVE k \in T
  <2>1. r[k] = r[k - 1] + u[k] * c /\ s[k] = s[k - 1] + u[k] /\ r[k - 1] = s[k - 1] * c
    BY <1>1, <1>2, <1>3, <1>5 DEF AreSums
  <2>2. s[k - 1] \in Int /\ u[k] \in Int
    BY <1>1, <1>3 DEF AreSums
  <2>3. \A a, b \in Int : (a + b) * c = a * c + b * c
    OBVIOUS
  <2>4. s[k] * c = s[k - 1] * c + u[k] * c
    BY <2>1, <2>2, <2>3
  <2>5. r[k] = s[k] * c
    BY <2>1, <2>4
  <2> QED  BY <1>3, <2>5
<1> HIDE DEF T
<1>6. 0..n \subseteq T
  BY <1>3, <1>4, <1>5, StepByStep
<1> QED  BY <1>1, <1>2, <1>3, <1>6 DEF T

LEMMA TotalOfSameWorth ==
  ASSUME NEW n, NEW u, NEW w, IsWorth(u, n), IsWorth(w, n), \A k \in 1..n : w[k] = u[k]
  PROVE  Total(w) = Total(u)
<1>1. w = u
  BY DEF IsWorth
<1> QED  BY <1>1

LEMMA TotalOfNothing ==
  ASSUME NEW n, NEW w, IsWorth(w, n), \A k \in 1..n : w[k] = 0
  PROVE  Total(w) = 0
<1>1. PICK s : AreSums(s, w, n) /\ Total(w) = s[n]
  BY TotalIs
<1>2. n \in Nat
  BY DEF IsWorth
<1> DEFINE T == {k \in 0..n : s[k] = 0}
<1>3. 0 \in T
  BY <1>1, <1>2 DEF AreSums
<1>4. ASSUME NEW k \in 1..n, k - 1 \in T PROVE k \in T
  <2>1. s[k] = s[k - 1] + w[k] /\ s[k - 1] = 0 /\ w[k] = 0
    BY <1>1, <1>4 DEF AreSums
  <2>2. k \in 0..n
    BY <1>2
  <2> QED  BY <2>1, <2>2
<1> HIDE DEF T
<1>5. 0..n \subseteq T
  BY <1>2, <1>3, <1>4, StepByStep
<1> QED  BY <1>1, <1>2, <1>5 DEF T

(* One node more. *)
LEMMA TotalWithOne ==
  ASSUME NEW n, NEW u, NEW w, IsWorth(u, n), IsWorth(w, n), NEW m \in 1..n,
         \A k \in 1..n : w[k] = IF k = m THEN u[k] + w[m] ELSE u[k]
  PROVE  Total(w) = Total(u) + w[m]
<1>1. PICK s : AreSums(s, u, n) /\ Total(u) = s[n]
  BY TotalIs
<1>2. PICK r : AreSums(r, w, n) /\ Total(w) = r[n]
  BY TotalIs
<1>3. n \in Nat /\ \A k \in 1..n : u[k] \in Int /\ w[k] \in Int /\ k - 1 \in 0..n /\ k \in 0..n
  BY DEF IsWorth
<1> DEFINE T == {k \in 0..n : r[k] = IF k < m THEN s[k] ELSE s[k] + w[m]}
<1>4. 0 \in T
  BY <1>1, <1>2, <1>3 DEF AreSums
<1>5. ASSUME NEW k \in 1..n, k - 1 \in T PROVE k \in T
  <2>1. r[k] = r[k - 1] + w[k] /\ s[k] = s[k - 1] + u[k] /\ s[k - 1] \in Int /\ r[k - 1] \in Int
    BY <1>1, <1>2, <1>3 DEF AreSums
  <2>2. r[k - 1] = IF k - 1 < m THEN s[k - 1] ELSE s[k - 1] + w[m]
    BY <1>5
  <2>3. w[k] = (IF k = m THEN u[k] + w[m] ELSE u[k]) /\ u[k] \in Int /\ w[m] \in Int
    BY <1>3
  <2>4. r[k] = IF k < m THEN s[k] ELSE s[k] + w[m]
    BY <1>3, <2>1, <2>2, <2>3
  <2> QED  BY <1>3, <2>4
<1> HIDE DEF T
<1>6. 0..n \subseteq T
  BY <1>3, <1>4, <1>5, StepByStep
<1> QED  BY <1>1, <1>2, <1>3, <1>6 DEF T

LEMMA TotalCounts ==
  ASSUME NEW n, NEW w, IsWorth(w, n), NEW S, S \subseteq 1..n,
         \A k \in 1..n : w[k] = IF k \in S THEN 1 ELSE 0
  PROVE  IsFiniteSet(S) /\ Total(w) = Cardinality(S)
<1>1. PICK s : AreSums(s, w, n) /\ Total(w) = s[n]
  BY TotalIs
<1>2. n \in Nat
  BY DEF IsWorth
<1>3. \A x \in S : x \in 1..n /\ x \in Int
  OBVIOUS
<1> DEFINE Upto(k) == S \cap (1..k)
           T == {k \in 0..n : IsFiniteSet(Upto(k)) /\ s[k] = Cardinality(Upto(k))}
<1>4. Upto(0) = {}
  BY <1>3
<1>5. \A k \in 1..n : /\ k \in S => Upto(k) = Upto(k - 1) \cup {k} /\ k \notin Upto(k - 1)
                      /\ k \notin S => Upto(k) = Upto(k - 1)
  BY <1>2, <1>3
<1>6. Upto(n) = S
  BY <1>3
<1> HIDE DEF Upto
<1>7. 0 \in T
  <2>1. s[0] = 0 /\ 0 \in 0..n
    BY <1>1, <1>2 DEF AreSums
  <2>2. IsFiniteSet(Upto(0)) /\ Cardinality(Upto(0)) = 0
    BY <1>4, FS_EmptySet
  <2> QED  BY <2>1, <2>2
<1>8. ASSUME NEW k \in 1..n, k - 1 \in T PROVE k \in T
  <2> DEFINE U == Upto(k - 1)
  <2>1. IsFiniteSet(U) /\ s[k - 1] = Cardinality(U) /\ s[k] = s[k - 1] + w[k] /\ k \in 0..n
    BY <1>1, <1>2, <1>8 DEF AreSums
  <2>2. Cardinality(U) \in Nat
    BY <2>1, FS_CardinalityType
  <2>3. k \in S => Upto(k) = U \cup {k} /\ k \notin U
    BY <1>5
  <2>4. k \notin S => Upto(k) = U
    BY <1>5
  <2> HIDE DEF U
  <2>5. CASE k \in S
    <3>1. IsFiniteSet(U \cup {k}) /\ Cardinality(U \cup {k}) = Cardinality(U) + 1
      BY <2>1, <2>3, <2>5, FS_AddElement
    <3>2. s[k] = Cardinality(U) + 1
      BY <2>1, <2>2, <2>5
    <3> QED  BY <2>1, <2>3, <2>5, <3>1, <3>2
  <2>6. CASE k \notin S
    <3>1. s[k] = Cardinality(U)
      BY <2>1, <2>2, <2>6
    <3> QED  BY <2>1, <2>4, <2>6, <3>1
  <2> QED  BY <2>5, <2>6
<1> HIDE DEF T
<1>9. 0..n \subseteq T
  BY <1>2, <1>7, <1>8, StepByStep
<1>10. n \in T
  BY <1>2, <1>9
<1> QED  BY <1>1, <1>6, <1>10 DEF T

(* Totals over some of the numbers.                                        *)
Where(w, X, n) == [k \in 1..n |-> IF k \in X THEN w[k] ELSE 0]
SumOver(w, X, n) == Total(Where(w, X, n))

LEMMA WhereIsWorth ==
  ASSUME NEW n, NEW w, IsWorth(w, n), NEW X
  PROVE  IsWorth(Where(w, X, n), n) /\ \A k \in 1..n : Where(w, X, n)[k] = IF k \in X THEN w[k] ELSE 0
<1>1. \A k \in 1..n : w[k] \in Int
  BY DEF IsWorth
<1> QED  BY <1>1 DEF IsWorth, Where

LEMMA SumIsANumber == ASSUME NEW n, NEW w, IsWorth(w, n), NEW X PROVE SumOver(w, X, n) \in Int
<1>1. IsWorth(Where(w, X, n), n)
  BY WhereIsWorth
<1> QED  BY <1>1, TotalIsANumber DEF SumOver

LEMMA SumOfNone ==
  ASSUME NEW n, NEW w, IsWorth(w, n)
  PROVE  SumOver(w, {}, n) = 0
<1>1. IsWorth(Where(w, {}, n), n) /\ \A k \in 1..n : Where(w, {}, n)[k] = IF k \in {} THEN w[k] ELSE 0
  BY WhereIsWorth
<1>2. \A k \in 1..n : Where(w, {}, n)[k] = 0
  BY <1>1
<1> QED  BY <1>1, <1>2, TotalOfNothing DEF SumOver

LEMMA SumUnion ==
  ASSUME NEW n, NEW w, IsWorth(w, n), NEW X, NEW Y, X \cap Y = {}
  PROVE  SumOver(w, X \cup Y, n) = SumOver(w, X, n) + SumOver(w, Y, n)
<1> DEFINE u == Where(w, X, n)
           v == Where(w, Y, n)
           z == Where(w, X \cup Y, n)
<1>1. IsWorth(u, n) /\ \A k \in 1..n : u[k] = IF k \in X THEN w[k] ELSE 0
  BY WhereIsWorth
<1>2. IsWorth(v, n) /\ \A k \in 1..n : v[k] = IF k \in Y THEN w[k] ELSE 0
  BY WhereIsWorth
<1>3. IsWorth(z, n) /\ \A k \in 1..n : z[k] = IF k \in X \cup Y THEN w[k] ELSE 0
  BY WhereIsWorth
<1> HIDE DEF u, v, z
<1>4. \A k \in 1..n : w[k] \in Int
  BY DEF IsWorth
<1>5. \A k \in 1..n : z[k] = u[k] + v[k]
  BY <1>1, <1>2, <1>3, <1>4
<1>6. Total(z) = Total(u) + Total(v)
  BY <1>1, <1>2, <1>3, <1>5, TotalAdds
<1> QED  BY <1>6 DEF SumOver, u, v, z

LEMMA SumOfOne ==
  ASSUME NEW n, NEW w, IsWorth(w, n), NEW m \in 1..n
  PROVE  SumOver(w, {m}, n) = w[m]
<1> DEFINE u == Where(w, {}, n)
           v == Where(w, {m}, n)
<1>1. IsWorth(u, n) /\ \A k \in 1..n : u[k] = IF k \in {} THEN w[k] ELSE 0
  BY WhereIsWorth
<1>2. IsWorth(v, n) /\ \A k \in 1..n : v[k] = IF k \in {m} THEN w[k] ELSE 0
  BY WhereIsWorth
<1> HIDE DEF u, v
<1>3. \A k \in 1..n : u[k] = 0
  BY <1>1
<1>4. v[m] = w[m]
  BY <1>2
<1>5. \A k \in 1..n : v[k] = IF k = m THEN u[k] + v[m] ELSE u[k]
  <2>1. v[m] \in Int
    BY <1>4 DEF IsWorth
  <2> QED  BY <1>2, <1>3, <2>1
<1>6. Total(v) = Total(u) + v[m]
  BY <1>1, <1>2, <1>5, TotalWithOne
<1>7. Total(u) = 0
  BY <1>1, <1>3, TotalOfNothing
<1>8. w[m] \in Int
  BY DEF IsWorth
<1> QED  BY <1>4, <1>6, <1>7, <1>8 DEF SumOver, v

LEMMA SumWithOne ==
  ASSUME NEW n, NEW w, IsWorth(w, n), NEW m \in 1..n, NEW X, m \notin X
  PROVE  SumOver(w, X \cup {m}, n) = SumOver(w, X, n) + w[m]
<1>1. X \cap {m} = {}
  OBVIOUS
<1> DEFINE Y == {m}
<1>2. SumOver(w, Y, n) = w[m]
  BY SumOfOne
<1>3. X \cap Y = {}
  BY <1>1
<1> HIDE DEF Y
<1>4. SumOver(w, X \cup Y, n) = SumOver(w, X, n) + SumOver(w, Y, n)
  BY <1>3, SumUnion
<1> QED  BY <1>2, <1>4 DEF Y

(* Each is worth c times its share more. *)
LEMMA SumShift ==
  ASSUME NEW n, NEW u, NEW v, NEW s, NEW c \in Int, IsWorth(u, n), IsWorth(v, n), IsWorth(s, n), NEW X,
         \A k \in X : v[k] = u[k] + s[k] * c
  PROVE  SumOver(v, X, n) = SumOver(u, X, n) + SumOver(s, X, n) * c
<1> DEFINE U == Where(u, X, n)
           V == Where(v, X, n)
           S == Where(s, X, n)
           M == [k \in 1..n |-> S[k] * c]
<1>1. IsWorth(U, n) /\ \A k \in 1..n : U[k] = IF k \in X THEN u[k] ELSE 0
  BY WhereIsWorth
<1>2. IsWorth(V, n) /\ \A k \in 1..n : V[k] = IF k \in X THEN v[k] ELSE 0
  BY WhereIsWorth
<1>3. IsWorth(S, n) /\ \A k \in 1..n : S[k] = IF k \in X THEN s[k] ELSE 0
  BY WhereIsWorth
<1> HIDE DEF U, V, S
<1>4. IsWorth(M, n) /\ \A k \in 1..n : M[k] = S[k] * c
  <2>1. \A k \in 1..n : S[k] \in Int
    BY <1>3 DEF IsWorth
  <2>2. \A k \in 1..n : S[k] * c \in Int
    BY <2>1
  <2> QED  BY <1>3, <2>2 DEF IsWorth
<1> HIDE DEF M
<1>5. \A k \in 1..n : V[k] = U[k] + M[k]
  <2> TAKE k \in 1..n
  <2>1. s[k] \in Int /\ S[k] \in Int
    BY <1>3 DEF IsWorth
  <2>2. CASE k \in X
    BY <1>1, <1>2, <1>3, <1>4, <2>1, <2>2
  <2>3. CASE k \notin X
    <3>1. M[k] = 0 * c
      BY <1>3, <1>4, <2>3
    <3>2. M[k] = 0
      BY <3>1
    <3> QED  BY <1>1, <1>2, <2>3, <3>2
  <2> QED  BY <2>2, <2>3
<1>6. Total(V) = Total(U) + Total(M)
  BY <1>1, <1>2, <1>4, <1>5, TotalAdds
<1>7. Total(M) = Total(S) * c
  BY <1>3, <1>4, TotalScales
<1> QED  BY <1>6, <1>7 DEF SumOver, U, V, S

(* Disjoint sets together. *)
AreParts(part, w, n) ==
  /\ part \in [1..n -> SUBSET (1..n)]
  /\ \A i, j \in 1..n : i # j => part[i] \cap part[j] = {}
  /\ \A k \in 1..n : w[k] = Cardinality(part[k])
Together(part, n) == {x \in 1..n : \E k \in 1..n : x \in part[k]}

LEMMA TotalOfFamily ==
  ASSUME NEW n, NEW w, IsWorth(w, n), NEW Part, AreParts(Part, w, n)
  PROVE  Total(w) = Cardinality(Together(Part, n))
<1>0. /\ Part \in [1..n -> SUBSET (1..n)]
      /\ \A i, j \in 1..n : i # j => Part[i] \cap Part[j] = {}
      /\ \A k \in 1..n : w[k] = Cardinality(Part[k])
  BY DEF AreParts
<1>1. PICK s : AreSums(s, w, n) /\ Total(w) = s[n]
  BY TotalIs
<1>2. n \in Nat /\ IsFiniteSet(1..n)
  BY FS_Interval DEF IsWorth
<1> DEFINE Upto(k) == {x \in 1..n : \E j \in 1..k : x \in Part[j]}
           T == {k \in 0..n : s[k] = Cardinality(Upto(k))}
<1>3. Upto(0) = {}
  OBVIOUS
<1>4. \A k \in 1..n : /\ Upto(k) = Upto(k - 1) \cup Part[k] /\ Upto(k - 1) \cap Part[k] = {}
                      /\ Upto(k - 1) \in SUBSET (1..n) /\ Part[k] \in SUBSET (1..n)
  <2> TAKE k \in 1..n
  <2>1. \A j : j \in 1..k <=> (j \in 1..(k - 1) \/ j = k)
    BY <1>2
  <2>2. \A j \in 1..(k - 1) : j \in 1..n /\ j # k
    BY <1>2
  <2> QED  BY <1>0, <2>1, <2>2
<1> HIDE DEF Upto
<1>5. 0 \in T
  <2>1. s[0] = 0 /\ 0 \in 0..n
    BY <1>1, <1>2 DEF AreSums
  <2> QED  BY <1>3, <2>1, FS_EmptySet
<1>6. ASSUME NEW k \in 1..n, k - 1 \in T PROVE k \in T
  <2> DEFINE U == Upto(k - 1)
             P == Part[k]
  <2>1. s[k - 1] = Cardinality(U) /\ s[k] = s[k - 1] + w[k] /\ k \in 0..n /\ w[k] = Cardinality(P)
    BY <1>0, <1>1, <1>2, <1>6 DEF AreSums
  <2>2. Upto(k) = U \cup P /\ U \cap P = {} /\ U \in SUBSET (1..n) /\ P \in SUBSET (1..n)
    BY <1>4
  <2> HIDE DEF U, P
  <2>3. IsFiniteSet(U) /\ IsFiniteSet(P)
    BY <1>2, <2>2, FS_Subset
  <2>4. Cardinality(U) \in Nat /\ Cardinality(P) \in Nat /\ Cardinality(U \cap P) = 0
    BY <2>2, <2>3, FS_CardinalityType, FS_EmptySet
  <2>5. Cardinality(U \cup P) = Cardinality(U) + Cardinality(P) - Cardinality(U \cap P)
    BY <2>3, FS_Union
  <2>6. Cardinality(U \cup P) = Cardinality(U) + Cardinality(P)
    BY <2>4, <2>5
  <2>7. s[k] = Cardinality(U \cup P)
    BY <2>1, <2>6
  <2> QED  BY <2>1, <2>2, <2>7
<1> HIDE DEF T
<1>7. 0..n \subseteq T
  BY <1>2, <1>5, <1>6, StepByStep
<1>8. n \in T
  BY <1>2, <1>7
<1> QED  BY <1>1, <1>8 DEF T, Upto, Together

-----------------------------------------------------------------------------
(* Trees.  The file is above its root, as NoNode.                          *)

Size == Len(tree)

LEMMA TreeNumbers ==
  ASSUME IsTree(tree)
  PROVE  /\ Size \in Nat /\ Size >= 1 /\ Nodes = 1..Size
         /\ \A n \in Nodes : /\ Parent(n) \in Nat /\ Parent(n) < n /\ (n # 1 => Parent(n) >= 1)
                             /\ \A m \in (Parent(n) + 1)..(n - 1) : Parent(m) >= Parent(n)
<1>1. tree \in Seq(NodeType) /\ tree # <<>>
  BY DEF IsTree
<1>2. Size \in Nat /\ Size >= 1 /\ Nodes = 1..Size
  BY <1>1 DEF Size, Nodes
<1>3. \A n \in 1..Size : tree[n] \in NodeType
  BY <1>1 DEF Size
<1>4. \A n \in 1..Size : Parent(n) = tree[n].parent /\ Parent(n) \in Nat
  BY <1>2, <1>3 DEF NodeType, Parent, NoNode
<1>5. Parent(1) = 0
  BY <1>2, <1>4 DEF IsTree, NoNode
<1>6. ASSUME NEW n \in 2..Size
      PROVE  /\ Parent(n) \in 1..(n - 1)
             /\ \A m \in (Parent(n) + 1)..(n - 1) : Parent(m) >= Parent(n)
  <2>1. /\ tree[n].parent \in 1..(n - 1)
        /\ \A m \in (tree[n].parent + 1)..(n - 1) : tree[m].parent >= tree[n].parent
    BY DEF IsTree, Size
  <2>2. Parent(n) = tree[n].parent
    BY <1>2, <1>4
  <2>3. \A m \in (Parent(n) + 1)..(n - 1) : Parent(m) = tree[m].parent
    BY <1>2, <1>4, <2>1, <2>2
  <2> QED  BY <2>1, <2>2, <2>3
<1>7. ASSUME NEW n \in Nodes
      PROVE  /\ Parent(n) \in Nat /\ Parent(n) < n /\ (n # 1 => Parent(n) >= 1)
             /\ \A m \in (Parent(n) + 1)..(n - 1) : Parent(m) >= Parent(n)
  <2>1. CASE n = 1
    BY <1>5, <2>1
  <2>2. CASE n # 1
    <3>1. n \in 2..Size
      BY <1>2, <2>2
    <3> QED  BY <1>6, <3>1
  <2> QED  BY <2>1, <2>2
<1> QED  BY <1>2, <1>7

LEMMA InSubtree ==
  ASSUME IsTree(tree), NEW n \in 0..Size, NEW m
  PROVE  m \in Subtree(n) <=> m \in n..Size /\ \A k \in (n + 1)..m : Parent(k) >= n
<1>1. Size \in Nat /\ Nodes = 1..Size /\ \A k \in 1..Size : Parent(k) \in Nat
  BY TreeNumbers
<1> DEFINE S == {k \in (n + 1)..Len(tree) : Parent(k) < n} \cup {Len(tree) + 1}
           e == Min(S)
<1>2. S \subseteq Nat /\ S # {}
  BY <1>1 DEF Size
<1>3. \A k : k \in S <=> (k \in (n + 1)..Size /\ Parent(k) < n) \/ k = Size + 1
  BY DEF Size
<1>4. Subtree(n) = n..(e - 1)
  BY DEF Subtree
<1> HIDE DEF S
<1>5. e \in S /\ e \in Nat /\ \A k \in S : e <= k
  BY <1>2, MinIsLeast
<1> HIDE DEF e
<1>6. e <= Size + 1 /\ n < e
  BY <1>1, <1>3, <1>5
<1>7. ASSUME m \in Subtree(n) PROVE m \in n..Size /\ \A k \in (n + 1)..m : Parent(k) >= n
  <2>1. m \in n..Size /\ m < e
    BY <1>1, <1>4, <1>5, <1>6, <1>7
  <2>2. ASSUME NEW k \in (n + 1)..m PROVE Parent(k) >= n
    <3>1. k \in (n + 1)..Size /\ k < e /\ k \in 1..Size
      BY <1>1, <1>5, <2>1
    <3>2. k \notin S
      BY <1>5, <3>1
    <3> QED  BY <1>1, <1>3, <3>1, <3>2
  <2> QED  BY <2>1, <2>2
<1>8. ASSUME m \in n..Size, \A k \in (n + 1)..m : Parent(k) >= n PROVE m \in Subtree(n)
  <2>1. SUFFICES ASSUME e <= m PROVE FALSE
    BY <1>1, <1>4, <1>5, <1>8
  <2>2. e \in (n + 1)..m /\ e \in 1..Size
    BY <1>1, <1>5, <1>6, <1>8, <2>1
  <2>3. Parent(e) < n
    BY <1>1, <1>3, <1>5, <2>2
  <2> QED  BY <1>1, <1>8, <2>2, <2>3
<1> QED  BY <1>7, <1>8

LEMMA SubtreesNest ==
  ASSUME IsTree(tree), NEW a \in 0..Size
  PROVE  /\ a \in Subtree(a) /\ Subtree(a) \subseteq a..Size
         /\ \A b \in Subtree(a) : Subtree(b) \subseteq Subtree(a)
         /\ \A b \in 0..Size : a <= b /\ Subtree(a) \cap Subtree(b) # {} => b \in Subtree(a)
<1>1. Size \in Nat
  BY TreeNumbers
<1>2. a \in Subtree(a)
  <2>1. a \in a..Size /\ \A k \in (a + 1)..a : Parent(k) >= a
    BY <1>1
  <2> QED  BY <2>1, InSubtree
<1>3. Subtree(a) \subseteq a..Size
  BY InSubtree
<1>4. ASSUME NEW b \in Subtree(a), NEW m \in Subtree(b) PROVE m \in Subtree(a)
  <2>1. b \in a..Size /\ b \in 0..Size /\ \A k \in (a + 1)..b : Parent(k) >= a
    BY <1>1, InSubtree
  <2>2. m \in b..Size /\ \A k \in (b + 1)..m : Parent(k) >= b
    BY <2>1, InSubtree
  <2>3. \A k \in (a + 1)..m : Parent(k) >= a
    <3> TAKE k \in (a + 1)..m
    <3>1. k \in (a + 1)..b \/ k \in (b + 1)..m
      BY <1>1, <2>1, <2>2
    <3>2. k \in (b + 1)..m => Parent(k) \in Nat
      BY <1>1, <2>1, <2>2, TreeNumbers
    <3>3. k \in (b + 1)..m => Parent(k) >= a
      BY <1>1, <2>1, <2>2, <3>2
    <3> QED  BY <2>1, <3>1, <3>3
  <2>4. m \in a..Size
    BY <1>1, <2>1, <2>2
  <2> QED  BY <2>3, <2>4, InSubtree
<1>5. ASSUME NEW b \in 0..Size, a <= b, NEW m \in Subtree(a) \cap Subtree(b) PROVE b \in Subtree(a)
  <2>1. m \in Int /\ b <= m /\ \A k \in (a + 1)..m : Parent(k) >= a
    BY <1>1, <1>5, InSubtree
  <2>2. b \in a..Size /\ \A k \in (a + 1)..b : Parent(k) >= a
    BY <1>1, <1>5, <2>1
  <2> QED  BY <2>2, InSubtree
<1> QED  BY <1>2, <1>3, <1>4, <1>5

(* A node with the nodes around it. *)
Up(n) == (Ancestors(n) \cup {n}) \cap Nodes

LEMMA UpIs ==
  ASSUME IsTree(tree)
  PROVE  /\ Up(0) = {}
         /\ \A n \in Nodes : \A a : a \in Up(n) <=> a \in Nodes /\ n \in Subtree(a)
<1>1. Size \in Nat /\ Nodes = 1..Size
  BY TreeNumbers
<1>2. Up(0) = {}
  BY <1>1 DEF Up, Ancestors
<1>3. ASSUME NEW n \in Nodes, NEW a \in Nodes PROVE a \in Up(n) <=> n \in Subtree(a)
  <2>1. n \in Subtree(a) <=> n \in a..Size /\ \A k \in (a + 1)..n : Parent(k) >= a
    BY <1>1, InSubtree
  <2>2. a \in Ancestors(n) <=> a \in 1..(n - 1) /\ \A k \in (a + 1)..n : Parent(k) >= a
    BY DEF Ancestors
  <2>3. a = n => n \in Subtree(a)
    BY <1>1, SubtreesNest
  <2>4. a \in Up(n) <=> a \in Ancestors(n) \/ a = n
    BY DEF Up
  <2>5. a # n => (a \in 1..(n - 1) <=> n \in a..Size)
    BY <1>1
  <2> QED  BY <2>1, <2>2, <2>3, <2>4, <2>5
<1>4. \A n \in Nodes : \A a : a \in Up(n) => a \in Nodes
  BY DEF Up
<1> QED  BY <1>2, <1>3, <1>4

LEMMA UpFromParent ==
  ASSUME IsTree(tree), NEW n \in Nodes
  PROVE  /\ Ancestors(n) = Up(Parent(n)) /\ Up(n) = Up(Parent(n)) \cup {n} /\ n \notin Up(Parent(n))
         /\ Up(n) \subseteq 1..n /\ Parent(n) \in 0..Size
<1>1. Size \in Nat /\ Nodes = 1..Size /\ n \in 1..Size
  BY TreeNumbers
<1>2. /\ Parent(n) \in Nat /\ Parent(n) < n /\ (n # 1 => Parent(n) >= 1)
      /\ \A m \in (Parent(n) + 1)..(n - 1) : Parent(m) >= Parent(n)
  BY TreeNumbers
<1>3. Parent(n) \in 0..Size
  BY <1>1, <1>2
<1>4. n \in Subtree(Parent(n))
  <2>1. n \in Parent(n)..Size
    BY <1>1, <1>2
  <2>2. \A k \in (Parent(n) + 1)..n : Parent(k) >= Parent(n)
    <3> TAKE k \in (Parent(n) + 1)..n
    <3>1. k = n \/ k \in (Parent(n) + 1)..(n - 1)
      BY <1>1, <1>2
    <3> QED  BY <1>2, <3>1
  <2> QED  BY <1>3, <2>1, <2>2, InSubtree
<1>5. Ancestors(n) \subseteq 1..(n - 1)
  BY DEF Ancestors
<1>6. Ancestors(n) \subseteq Nodes /\ n \notin Ancestors(n)
  BY <1>1, <1>5
<1>7. Up(n) = Ancestors(n) \cup {n}
  BY <1>6 DEF Up
<1>8. Up(n) \subseteq 1..n
  BY <1>1, <1>5, <1>7
<1>9. ASSUME NEW a \in Up(Parent(n)) PROVE a \in Ancestors(n)
  <2>1. Parent(n) \in Nodes /\ a \in Nodes
    <3>1. Parent(n) # 0
      BY <1>9, UpIs
    <3> QED  BY <1>1, <1>3, <3>1 DEF Up
  <2>2. Parent(n) \in Subtree(a)
    BY <1>9, <2>1, UpIs
  <2>3. a \in 0..Size /\ n \in Subtree(a)
    BY <1>1, <1>4, <2>1, <2>2, SubtreesNest
  <2>4. n \in Nodes /\ a \in Up(n)
    BY <2>1, <2>3, UpIs
  <2>5. a <= Parent(n)
    BY <1>1, <2>1, <2>2, <2>3, InSubtree
  <2>6. a # n
    BY <1>1, <1>2, <2>1, <2>5
  <2> QED  BY <1>7, <2>4, <2>6
<1>10. ASSUME NEW a \in Ancestors(n) PROVE a \in Up(Parent(n))
  <2>1. a \in 1..(n - 1) /\ \A k \in (a + 1)..n : Parent(k) >= a
    BY <1>10 DEF Ancestors
  <2>2. Parent(n) >= a
    BY <1>1, <2>1
  <2>3. Parent(n) \in Nodes /\ a \in 0..Size /\ a \in Nodes
    BY <1>1, <1>2, <1>3, <2>1, <2>2
  <2>4. Parent(n) \in a..Size /\ \A k \in (a + 1)..Parent(n) : Parent(k) >= a
    BY <1>1, <1>2, <1>3, <2>1, <2>2
  <2>5. Parent(n) \in Subtree(a)
    BY <2>3, <2>4, InSubtree
  <2> QED  BY <2>3, <2>5, UpIs
<1>11. Ancestors(n) = Up(Parent(n))
  BY <1>9, <1>10
<1> QED  BY <1>3, <1>6, <1>7, <1>8, <1>11

LEMMA ChildrenSplit ==
  ASSUME IsTree(tree), NEW n \in Nodes
  PROVE  /\ \A c \in Children(n) : c \in Nodes /\ Parent(c) = n /\ c \in Subtree(n) /\ n \notin Subtree(c)
         /\ \A c, d \in Children(n) : c # d => Subtree(c) \cap Subtree(d) = {}
         /\ \A m \in Subtree(n) : m # n => \E c \in Children(n) : m \in Subtree(c)
<1>1. Size \in Nat /\ Nodes = 1..Size /\ n \in 1..Size
  BY TreeNumbers
<1>2. ASSUME NEW c \in Children(n)
      PROVE  c \in Nodes /\ Parent(c) = n /\ c \in Subtree(n) /\ n \notin Subtree(c) /\ n < c
  <2>1. c \in Nodes /\ Parent(c) = n
    BY DEF Children
  <2>2. Parent(c) < c
    BY <2>1, TreeNumbers
  <2>3. n \in Up(c)
    <3>1. Up(c) = Up(n) \cup {c} /\ n \in Up(n)
      BY <2>1, UpFromParent
    <3> QED  BY <3>1
  <2>4. c \in Subtree(n)
    BY <2>1, <2>3, UpIs
  <2>5. n \notin Subtree(c)
    BY <1>1, <2>1, <2>2, SubtreesNest
  <2> QED  BY <2>1, <2>2, <2>4, <2>5
<1>3. ASSUME NEW c \in Children(n), NEW d \in Children(n), d < c PROVE Subtree(c) \cap Subtree(d) = {}
  <2>1. SUFFICES ASSUME Subtree(c) \cap Subtree(d) # {} PROVE FALSE
    OBVIOUS
  <2>2. c \in 1..Size /\ d \in 1..Size /\ Parent(c) = n /\ n < d
    BY <1>1, <1>2
  <2>3. c \in Subtree(d)
    BY <1>1, <1>3, <2>1, <2>2, SubtreesNest
  <2>4. \A k \in (d + 1)..c : Parent(k) >= d
    BY <1>1, <2>2, <2>3, InSubtree
  <2> QED  BY <1>1, <1>3, <2>2, <2>4
<1>4. ASSUME NEW c \in Children(n), NEW d \in Children(n), c # d PROVE Subtree(c) \cap Subtree(d) = {}
  <2>1. c < d \/ d < c
    BY <1>1, <1>2, <1>4
  <2> QED  BY <1>3, <2>1
<1>5. ASSUME NEW m \in Subtree(n), m # n PROVE \E c \in Children(n) : m \in Subtree(c)
  <2> DEFINE Before == {c \in Children(n) : c <= m}
  <2>1. m \in (n + 1)..Size /\ \A k \in (n + 1)..m : Parent(k) >= n
    BY <1>1, <1>5, InSubtree
  <2>2. n + 1 \in Before
    <3>1. n + 1 \in Nodes /\ n + 1 \in (n + 1)..m
      BY <1>1, <2>1
    <3>2. Parent(n + 1) \in Nat /\ Parent(n + 1) < n + 1 /\ Parent(n + 1) >= n
      BY <2>1, <3>1, TreeNumbers
    <3>3. Parent(n + 1) = n
      BY <1>1, <3>2
    <3> QED  BY <2>1, <3>1, <3>3 DEF Children
  <2>3. IsFiniteSet(Before) /\ Before \subseteq Nat
    <3>1. IsFiniteSet(1..Size)
      BY <1>1, FS_Interval
    <3>2. Before \subseteq 1..Size /\ Before \subseteq Nat
      BY <1>1, <1>2
    <3> HIDE DEF Before
    <3>3. IsFiniteSet(Before)
      BY <3>1, <3>2, FS_Subset
    <3> QED  BY <3>2, <3>3
  <2> DEFINE c == Max(Before)
  <2>4. c \in Before /\ c \in Nat /\ \A d \in Before : d <= c
    BY <2>2, <2>3, MaxIsGreatest
  <2> HIDE DEF c
  <2>5. c \in Children(n) /\ c <= m /\ c \in 1..Size /\ Parent(c) = n /\ n < c
    BY <1>1, <1>2, <2>4
  <2>6. ASSUME NEW k \in (c + 1)..m PROVE Parent(k) >= c
    <3>1. k \in Nodes /\ k \in (n + 1)..m
      BY <1>1, <2>1, <2>5
    <3>2. Parent(k) \in Nat /\ Parent(k) < k /\ \A j \in (Parent(k) + 1)..(k - 1) : Parent(j) >= Parent(k)
      BY <3>1, TreeNumbers
    <3>3. Parent(k) # n
      <4>1. SUFFICES ASSUME Parent(k) = n PROVE FALSE
        OBVIOUS
      <4>2. k \in Before
        BY <2>1, <3>1, <4>1 DEF Children
      <4> QED  BY <2>1, <2>4, <2>5, <2>6, <4>2
    <3>4. Parent(k) > n
      BY <1>1, <2>1, <3>1, <3>2, <3>3
    <3>5. SUFFICES ASSUME Parent(k) < c PROVE FALSE
      BY <2>5, <3>2
    <3>6. c \in (Parent(k) + 1)..(k - 1)
      BY <2>1, <2>5, <3>2, <3>5
    <3> QED  BY <1>1, <2>5, <3>2, <3>4, <3>6
  <2>7. m \in c..Size /\ c \in 0..Size
    BY <1>1, <2>1, <2>5
  <2>8. m \in Subtree(c)
    BY <2>6, <2>7, InSubtree
  <2> QED  BY <2>5, <2>8
<1> QED  BY <1>2, <1>4, <1>5

-----------------------------------------------------------------------------
(* Levels.  What the walk keeps of a place is a matter of the nodes around *)
(* it.                                                                     *)

NestingNodes == {k \in Nodes : IsNesting(k)}
Raising == {k \in Boundaries : InsideFunction(k) /\ ~IsMember(k)}

Depth(n) == Cardinality(NestingNodes \cap Up(n))
Bonus(n) == Cardinality(ClassBodies \cap Up(n)) + Cardinality(Raising \cap Up(n))
Entry(n) == Depth(n) + Bonus(n)
HoldsFunction(n) == Up(n) \cap Boundaries # {}
Region(n) == \E k \in Up(n) \cap ClassBodies : \A g \in Up(n) \cap Boundaries : g < k

LEMMA NodesAreFinite ==
  ASSUME IsTree(tree), NEW X, X \subseteq Nodes
  PROVE  IsFiniteSet(X) /\ Cardinality(X) \in Nat
<1>1. IsFiniteSet(Nodes)
  <2>1. Nodes = 1..Size /\ Size \in Nat
    BY TreeNumbers
  <2>2. 1 \in Int /\ Size \in Int
    BY <2>1
  <2> QED  BY <2>1, <2>2, FS_Interval
<1>2. IsFiniteSet(X)
  BY <1>1, FS_Subset
<1> QED  BY <1>2, FS_CardinalityType

LEMMA CountUp ==
  ASSUME IsTree(tree), NEW X, X \subseteq Nodes, NEW n \in Nodes
  PROVE  Cardinality(X \cap Up(n)) = Cardinality(X \cap Up(Parent(n))) + One(n \in X)
<1>1. Up(n) = Up(Parent(n)) \cup {n} /\ n \notin Up(Parent(n))
  BY UpFromParent
<1> DEFINE A == X \cap Up(Parent(n))
<1>2. IsFiniteSet(A) /\ Cardinality(A) \in Nat
  BY NodesAreFinite
<1>3. CASE n \in X
  <2>1. X \cap Up(n) = A \cup {n} /\ n \notin A
    BY <1>1, <1>3
  <2> HIDE DEF A
  <2>2. Cardinality(A \cup {n}) = Cardinality(A) + 1
    BY <1>2, <2>1, FS_AddElement
  <2>3. One(n \in X) = 1
    BY <1>3 DEF One
  <2> QED  BY <2>1, <2>2, <2>3 DEF A
<1>4. CASE n \notin X
  <2>1. X \cap Up(n) = A
    BY <1>1, <1>4
  <2>2. One(n \in X) = 0
    BY <1>4 DEF One
  <2> HIDE DEF A
  <2>3. Cardinality(A) = Cardinality(A) + 0
    BY <1>2
  <2> QED  BY <2>1, <2>2, <2>3 DEF A
<1> QED  BY <1>3, <1>4

LEMMA KindsOfNodes ==
  /\ NestingNodes \subseteq Nodes /\ ClassBodies \subseteq Nodes /\ Raising \subseteq Nodes
  /\ Boundaries \subseteq Nodes
BY DEF NestingNodes, ClassBodies, Raising, Boundaries

LEMMA LevelsAreNumbers ==
  ASSUME IsTree(tree), NEW n
  PROVE  Depth(n) \in Nat /\ Bonus(n) \in Nat /\ Entry(n) \in Nat
<1> DEFINE A == NestingNodes \cap Up(n)
           B == ClassBodies \cap Up(n)
           C == Raising \cap Up(n)
<1>1. A \subseteq Nodes /\ B \subseteq Nodes /\ C \subseteq Nodes
  BY KindsOfNodes
<1> HIDE DEF A, B, C
<1>2. Cardinality(A) \in Nat /\ Cardinality(B) \in Nat /\ Cardinality(C) \in Nat
  BY <1>1, NodesAreFinite
<1>3. Depth(n) \in Nat
  BY <1>2 DEF Depth, A
<1>4. Bonus(n) \in Nat
  BY <1>2 DEF Bonus, B, C
<1> QED  BY <1>3, <1>4 DEF Entry

LEMMA LevelsAboveTheRoot ==
  ASSUME IsTree(tree)
  PROVE  Depth(0) = 0 /\ Bonus(0) = 0 /\ Entry(0) = 0 /\ ~HoldsFunction(0) /\ ~Region(0)
<1>1. Up(0) = {}
  BY UpIs
<1>2. /\ NestingNodes \cap Up(0) = {} /\ ClassBodies \cap Up(0) = {} /\ Raising \cap Up(0) = {}
      /\ Up(0) \cap Boundaries = {} /\ Up(0) \cap ClassBodies = {}
  BY <1>1
<1>3. Depth(0) = 0
  BY <1>2, FS_EmptySet DEF Depth
<1>4. Bonus(0) = 0
  BY <1>2, FS_EmptySet DEF Bonus
<1>5. ~HoldsFunction(0) /\ ~Region(0)
  BY <1>2 DEF HoldsFunction, Region
<1> QED  BY <1>3, <1>4, <1>5 DEF Entry

LEMMA LevelsFromParent ==
  ASSUME IsTree(tree), NEW n \in Nodes
  PROVE  /\ Depth(n) = Depth(Parent(n)) + One(IsNesting(n))
         /\ Bonus(n) = Bonus(Parent(n)) + One(n \in ClassBodies) + One(n \in Raising)
         /\ HoldsFunction(n) <=> HoldsFunction(Parent(n)) \/ n \in Boundaries
         /\ Region(n) <=> n \notin Boundaries /\ (Region(Parent(n)) \/ n \in ClassBodies)
         /\ n \in ClassBodies <=> Kind(n) = "class_body" /\ HoldsFunction(Parent(n))
         /\ n \in Raising <=> IsFunctionBoundary(n) /\ HoldsFunction(Parent(n)) /\ ~IsMember(n)
         /\ n \in Boundaries <=> IsFunctionBoundary(n)
<1>1. /\ Up(n) = Up(Parent(n)) \cup {n} /\ n \notin Up(Parent(n)) /\ Up(n) \subseteq 1..n
      /\ Ancestors(n) = Up(Parent(n))
  BY UpFromParent
<1>2. n \in NestingNodes <=> IsNesting(n)
  BY DEF NestingNodes
<1>3. Depth(n) = Depth(Parent(n)) + One(IsNesting(n))
  <2>1. Depth(n) = Depth(Parent(n)) + One(n \in NestingNodes)
    BY CountUp, KindsOfNodes DEF Depth
  <2>2. One(n \in NestingNodes) = One(IsNesting(n))
    BY <1>2 DEF One
  <2> QED  BY <2>1, <2>2
<1>4. Bonus(n) = Bonus(Parent(n)) + One(n \in ClassBodies) + One(n \in Raising)
  <2> DEFINE b == Cardinality(ClassBodies \cap Up(Parent(n)))
             r == Cardinality(Raising \cap Up(Parent(n)))
  <2>1. Cardinality(ClassBodies \cap Up(n)) = b + One(n \in ClassBodies)
    BY CountUp, KindsOfNodes
  <2>2. Cardinality(Raising \cap Up(n)) = r + One(n \in Raising)
    BY CountUp, KindsOfNodes
  <2>3. b \in Nat /\ r \in Nat
    <3>1. ClassBodies \cap Up(Parent(n)) \subseteq Nodes /\ Raising \cap Up(Parent(n)) \subseteq Nodes
      BY KindsOfNodes
    <3> QED  BY <3>1, NodesAreFinite
  <2>4. Bonus(Parent(n)) = b + r
    BY DEF Bonus
  <2> HIDE DEF b, r
  <2>5. One(n \in ClassBodies) \in Nat /\ One(n \in Raising) \in Nat
    BY DEF One
  <2> QED  BY <2>1, <2>2, <2>3, <2>4, <2>5 DEF Bonus
<1>5. HoldsFunction(n) <=> HoldsFunction(Parent(n)) \/ n \in Boundaries
  BY <1>1 DEF HoldsFunction
<1>6. InsideFunction(n) <=> HoldsFunction(Parent(n))
  BY <1>1 DEF InsideFunction, HoldsFunction
<1>7. n \in ClassBodies <=> Kind(n) = "class_body" /\ HoldsFunction(Parent(n))
  BY <1>6 DEF ClassBodies
<1>8. n \in Boundaries <=> IsFunctionBoundary(n)
  BY DEF Boundaries
<1>9. n \in Raising <=> IsFunctionBoundary(n) /\ HoldsFunction(Parent(n)) /\ ~IsMember(n)
  BY <1>6, <1>8 DEF Raising
<1>10. Region(n) <=> n \notin Boundaries /\ (Region(Parent(n)) \/ n \in ClassBodies)
  <2>1. \A k \in Up(n) : k \in Int /\ k <= n
    BY <1>1
  <2>2. n \in Int /\ \A k \in Up(Parent(n)) : k \in Int /\ k < n
    BY <1>1, <2>1
  <2>3. CASE n \in Boundaries
    BY <1>1, <2>1, <2>2, <2>3 DEF Region
  <2>4. CASE n \notin Boundaries
    <3>1. Up(n) \cap Boundaries = Up(Parent(n)) \cap Boundaries
      BY <1>1, <2>4
    <3>2. CASE n \in ClassBodies
      <4>1. n \in Up(n) \cap ClassBodies /\ \A g \in Up(n) \cap Boundaries : g < n
        BY <1>1, <2>2, <3>1, <3>2
      <4> QED  BY <2>4, <3>2, <4>1 DEF Region
    <3>3. CASE n \notin ClassBodies
      <4>1. Up(n) \cap ClassBodies = Up(Parent(n)) \cap ClassBodies
        BY <1>1, <3>3
      <4> QED  BY <2>4, <3>1, <3>3, <4>1 DEF Region
    <3> QED  BY <3>2, <3>3
  <2> QED  BY <2>3, <2>4
<1> QED  BY <1>3, <1>4, <1>5, <1>7, <1>8, <1>9, <1>10

LEMMA MembersFromParent ==
  ASSUME IsTree(tree), NEW n \in Nodes, NEW c, Parent(c) = n
  PROVE  IsMember(c) <=> \/ n \in ClassBodies
                         \/ /\ IsMember(n) /\ Kind(n) = "property_declaration"
                            /\ Kind(c) \in {"getter", "setter"}
BY DEF IsMember

(* The way from a node down to another is what is around the one and not around the other. *)
LEMMA WayDown ==
  ASSUME IsTree(tree), NEW f \in 0..Size, NEW n \in Subtree(f) \ {f}
  PROVE  /\ n \in Nodes /\ f < n /\ Up(f) \subseteq Up(n) /\ n \notin Up(f)
         /\ Path(f, n) = Up(n) \ Up(f)
         /\ \A k \in Up(n) : k \in Path(f, n) <=> f < k
<1>1. Size \in Nat /\ Nodes = 1..Size
  BY TreeNumbers
<1>2. n \in f..Size /\ n \in Nodes /\ f < n
  BY <1>1, SubtreesNest
<1>3. Up(n) \subseteq 1..n /\ Up(n) = Up(Parent(n)) \cup {n} /\ Ancestors(n) = Up(Parent(n))
  BY <1>2, UpFromParent
<1>4. Path(f, n) = Up(n) \cap (Subtree(f) \ {f})
  BY <1>3 DEF Path
<1>5. ASSUME NEW k \in Up(n) PROVE k \in Subtree(f) \ {f} <=> f < k
  <2>1. k \in Nodes /\ n \in Subtree(k) /\ k \in 0..Size
    BY <1>1, <1>2, UpIs
  <2>2. ASSUME f < k PROVE k \in Subtree(f) \ {f}
    <3>1. f <= k /\ k # f /\ Subtree(f) \cap Subtree(k) # {}
      BY <1>1, <2>1, <2>2
    <3> QED  BY <2>1, <3>1, SubtreesNest
  <2>3. ASSUME k \in Subtree(f) \ {f} PROVE f < k
    BY <1>1, <2>1, <2>3, SubtreesNest
  <2> QED  BY <2>2, <2>3
<1>6. ASSUME NEW k \in Up(n) PROVE k \in Up(f) <=> ~(f < k)
  <2>1. k \in Nodes /\ n \in Subtree(k) /\ k \in 1..Size
    BY <1>1, <1>2, UpIs
  <2>2. ASSUME k \in Up(f) PROVE ~(f < k)
    <3>1. f \in Nodes
      BY <1>1, <2>2, UpIs
    <3>2. Up(f) \subseteq 1..f
      BY <3>1, UpFromParent
    <3> QED  BY <1>1, <2>2, <3>2
  <2>3. ASSUME ~(f < k) PROVE k \in Up(f)
    <3>1. k <= f /\ f \in Nodes
      BY <1>1, <2>1, <2>3
    <3>2. Subtree(f) \cap Subtree(k) # {}
      BY <2>1
    <3>3. f \in Subtree(k)
      BY <1>1, <2>1, <3>1, <3>2, SubtreesNest
    <3> QED  BY <2>1, <3>1, <3>3, UpIs
  <2> QED  BY <2>2, <2>3
<1>7. ASSUME NEW k \in Up(f) PROVE k \in Up(n)
  <2>1. f \in Nodes /\ k \in Nodes
    <3>1. f # 0
      BY <1>7, UpIs
    <3> QED  BY <1>1, <1>7, <3>1 DEF Up
  <2>2. f \in Subtree(k)
    BY <1>7, <2>1, UpIs
  <2>3. n \in Subtree(k)
    BY <1>1, <2>1, <2>2, SubtreesNest
  <2> QED  BY <1>2, <2>1, <2>3, UpIs
<1>8. n \notin Up(f)
  <2>1. n \in Up(n)
    BY <1>3
  <2> QED  BY <1>2, <1>6, <2>1
<1> QED  BY <1>2, <1>4, <1>5, <1>6, <1>7, <1>8

LEMMA CountOnTheWay ==
  ASSUME IsTree(tree), NEW X, X \subseteq Nodes, NEW A, NEW B, B \subseteq A
  PROVE  Cardinality(X \cap (A \ B)) = Cardinality(X \cap A) - Cardinality(X \cap B)
<1> DEFINE S == X \cap A
           T == X \cap B
<1>1. S \subseteq Nodes /\ X \cap (A \ B) = S \ T /\ S \cap T = T
  OBVIOUS
<1>2. IsFiniteSet(S)
  BY <1>1, NodesAreFinite
<1> HIDE DEF S, T
<1>3. Cardinality(S \ T) = Cardinality(S) - Cardinality(S \cap T)
  BY <1>2, FS_Difference
<1> QED  BY <1>1, <1>3 DEF S, T

LEMMA LevelsAre ==
  ASSUME IsTree(tree), NEW f \in 0..Size, NEW n \in Subtree(f) \ {f}
  PROVE  Levels(f, n) = Depth(Parent(n)) + Bonus(n) - Entry(f)
<1>1. /\ n \in Nodes /\ Up(f) \subseteq Up(n) /\ n \notin Up(f)
      /\ Path(f, n) = Up(n) \ Up(f)
  BY WayDown
<1>2. Up(n) = Up(Parent(n)) \cup {n} /\ n \notin Up(Parent(n))
  BY <1>1, UpFromParent
<1>3. Up(f) \subseteq Nodes /\ Up(n) \subseteq Nodes
  BY DEF Up
<1> DEFINE P == Up(Parent(n))
           U == Up(n)
           F == Up(f)
<1>4. F \subseteq P /\ F \subseteq U
  BY <1>1, <1>2
<1>5. {k \in Path(f, n) \ {n} : IsNesting(k)} = NestingNodes \cap (P \ F)
  BY <1>1, <1>2, <1>3 DEF NestingNodes
<1>6. Path(f, n) \cap ClassBodies = ClassBodies \cap (U \ F)
  BY <1>1
<1>7. {k \in Path(f, n) \cap Boundaries : InsideFunction(k) /\ ~IsMember(k)} = Raising \cap (U \ F)
  BY <1>1 DEF Raising
<1> HIDE DEF P, U, F
<1>8. Cardinality(NestingNodes \cap (P \ F)) = Cardinality(NestingNodes \cap P) - Cardinality(NestingNodes \cap F)
  BY <1>4, CountOnTheWay, KindsOfNodes
<1>9. Cardinality(ClassBodies \cap (U \ F)) = Cardinality(ClassBodies \cap U) - Cardinality(ClassBodies \cap F)
  BY <1>4, CountOnTheWay, KindsOfNodes
<1>10. Cardinality(Raising \cap (U \ F)) = Cardinality(Raising \cap U) - Cardinality(Raising \cap F)
  BY <1>4, CountOnTheWay, KindsOfNodes
<1>11. /\ Cardinality(NestingNodes \cap P) \in Nat /\ Cardinality(NestingNodes \cap F) \in Nat
       /\ Cardinality(ClassBodies \cap U) \in Nat /\ Cardinality(ClassBodies \cap F) \in Nat
       /\ Cardinality(Raising \cap U) \in Nat /\ Cardinality(Raising \cap F) \in Nat
  <2>1. /\ NestingNodes \cap P \subseteq Nodes /\ NestingNodes \cap F \subseteq Nodes
        /\ ClassBodies \cap U \subseteq Nodes /\ ClassBodies \cap F \subseteq Nodes
        /\ Raising \cap U \subseteq Nodes /\ Raising \cap F \subseteq Nodes
    BY KindsOfNodes
  <2> QED  BY <2>1, NodesAreFinite
<1>12. /\ Depth(Parent(n)) = Cardinality(NestingNodes \cap P)
       /\ Bonus(n) = Cardinality(ClassBodies \cap U) + Cardinality(Raising \cap U)
       /\ Entry(f) = Cardinality(NestingNodes \cap F) + (Cardinality(ClassBodies \cap F) + Cardinality(Raising \cap F))
  BY DEF Depth, Bonus, Entry, P, U, F
<1>13. Levels(f, n) = Cardinality(NestingNodes \cap (P \ F)) + Cardinality(ClassBodies \cap (U \ F))
                      + Cardinality(Raising \cap (U \ F))
  BY <1>5, <1>6, <1>7 DEF Levels
<1> QED  BY <1>8, <1>9, <1>10, <1>11, <1>12, <1>13

LEMMA DepthsAre ==
  ASSUME IsTree(tree), NEW f \in 0..Size, NEW n \in Subtree(f) \ {f}
  PROVE  Cardinality({k \in Path(f, n) : IsNesting(k)}) = Depth(n) - Depth(f)
<1>1. Up(f) \subseteq Up(n) /\ Path(f, n) = Up(n) \ Up(f)
  BY WayDown
<1>2. Up(n) \subseteq Nodes
  BY DEF Up
<1> DEFINE U == Up(n)
           F == Up(f)
<1>3. {k \in Path(f, n) : IsNesting(k)} = NestingNodes \cap (U \ F)
  BY <1>1, <1>2 DEF NestingNodes
<1>4. F \subseteq U
  BY <1>1
<1> HIDE DEF U, F
<1>5. Cardinality(NestingNodes \cap (U \ F)) = Cardinality(NestingNodes \cap U) - Cardinality(NestingNodes \cap F)
  BY <1>4, CountOnTheWay, KindsOfNodes
<1> QED  BY <1>3, <1>5 DEF Depth, U, F

LEMMA OwnBodyIs ==
  ASSUME IsTree(tree), NEW f \in 0..Size, NEW n \in Subtree(f) \ {f},
         \A g \in Up(Parent(n)) \cap Boundaries : g <= f,
         f = 0 \/ f \in Up(Parent(n)) \cap Boundaries
  PROVE  n \in OwnBody(f) <=> n \notin Boundaries /\ ~Region(n)
<1>1. Size \in Nat /\ Nodes = 1..Size
  BY TreeNumbers
<1>2. n \in Nodes /\ f < n /\ \A k \in Up(n) : k \in Path(f, n) <=> f < k
  BY WayDown
<1>3. Path(f, n) \subseteq Up(n)
  BY WayDown
<1>4. Up(n) = Up(Parent(n)) \cup {n} /\ Up(n) \subseteq 1..n
  BY <1>2, UpFromParent
<1>5. n \in OwnBody(f) <=> Path(f, n) \cap (Boundaries \cup ClassBodies) = {}
  BY DEF OwnBody
<1>6. CASE n \in Boundaries
  <2>1. n \in Path(f, n)
    BY <1>2, <1>4
  <2> QED  BY <1>5, <1>6, <2>1
<1>7. CASE n \notin Boundaries
  <2>1. \A g \in Up(n) \cap Boundaries : g <= f /\ g \in Int
    BY <1>1, <1>4, <1>7
  <2>2. Path(f, n) \cap Boundaries = {}
    BY <1>1, <1>2, <1>3, <2>1
  <2>3. ASSUME NEW k \in Up(n) PROVE (\A g \in Up(n) \cap Boundaries : g < k) <=> f < k
    <3>1. k \in Int /\ k >= 1
      BY <1>1, <1>4
    <3>2. f < k => \A g \in Up(n) \cap Boundaries : g < k
      BY <1>1, <2>1, <3>1
    <3>3. (\A g \in Up(n) \cap Boundaries : g < k) => f < k
      BY <1>4, <3>1
    <3> QED  BY <3>2, <3>3
  <2>4. Region(n) <=> \E k \in Up(n) \cap ClassBodies : f < k
    BY <2>3 DEF Region
  <2>5. Region(n) <=> Path(f, n) \cap ClassBodies # {}
    BY <1>2, <1>3, <2>4
  <2> QED  BY <1>5, <1>7, <2>2, <2>5
<1> QED  BY <1>6, <1>7

LEMMA NotInOwnBody ==
  ASSUME IsTree(tree), NEW f \in 0..Size, NEW n \in Nodes, NEW k \in Up(n) \cap Boundaries, f < k
  PROVE  n \notin OwnBody(f)
<1>1. SUFFICES ASSUME n \in OwnBody(f) PROVE FALSE
  OBVIOUS
<1>2. n \in Subtree(f) \ {f} /\ Path(f, n) \cap Boundaries = {}
  BY <1>1 DEF OwnBody
<1>3. k \in Path(f, n)
  BY <1>2, WayDown
<1> QED  BY <1>2, <1>3

-----------------------------------------------------------------------------
(* Points and statements.                                                  *)

PointsWorth(f) == [n \in Nodes |-> Points(f, n)]
SensitiveWorth == [n \in Nodes |-> NestedPoints(n)]
StatementsWorth == [n \in Nodes |-> NcssContribution(n)]
Sensitive(X) == SumOver(SensitiveWorth, X, Size)

LEMMA NodesAreWorthNumbers ==
  ASSUME IsTree(tree), NEW n \in Nodes
  PROVE  FlatPoints(n) \in Nat /\ NestedPoints(n) \in Nat /\ NcssContribution(n) \in Nat
<1>1. \A b : One(b) \in Nat
  BY DEF One
<1>2. PlainElseBranches(n) \in Nat
  <2> DEFINE S == {c \in FieldChildren(n, "alternative") :
                    ~IsExtra(c) /\ Kind(c) \notin {"else_clause", "elif_clause"} \cup IfLike}
  <2>1. S \subseteq Nodes
    BY DEF FieldChildren, Children
  <2> HIDE DEF S
  <2>2. Cardinality(S) \in Nat
    BY <2>1, NodesAreFinite
  <2>3. One(~IsCaseElse(n)) \in Nat
    BY <1>1
  <2>4. One(~IsElseIfClause(n) /\ \A c \in NamedChildren(n) : Kind(c) \notin IfLike) \in Nat
    BY <1>1
  <2> QED  BY <2>2, <2>3, <2>4 DEF PlainElseBranches, S
<1>3. FlatPoints(n) \in Nat
  <2>1. /\ One(IsDecision(n) /\ ~IsCaseClause(n) /\ IsChainContinuation(n)) \in Nat
        /\ One(IsFlowBreakingJump(n)) \in Nat /\ One(IsPatternGuard(n)) \in Nat
        /\ One(IsBooleanOperator(n) /\ StartsOperatorSequence(n)) \in Nat
    BY <1>1
  <2> QED  BY <1>2, <2>1 DEF FlatPoints
<1>4. NestedPoints(n) \in Nat
  <2>1. /\ One(IsDecision(n) /\ ~IsCaseClause(n) /\ ~IsChainContinuation(n)) \in Nat
        /\ One(IsSwitchLike(n)) \in Nat
    BY <1>1
  <2> QED  BY <2>1 DEF NestedPoints
<1>5. NcssContribution(n) \in Nat
  <2>1. BareAlternatives(n) \subseteq Nodes
    BY DEF BareAlternatives, FieldChildren, Children
  <2>2. Cardinality(BareAlternatives(n)) \in Nat
    BY <2>1, NodesAreFinite
  <2> DEFINE a == One(/\ CountsThroughKind(n) \/ CountsByPosition(n) \/ CountsContextually(n)
                      /\ ~IsDeclarationWrapper(n))
             b == One(IsElseIfClause(n))
             c == Cardinality(BareAlternatives(n))
             none == \/ ~Named(n) \/ Kind(n) \in CommentKinds \/ IsForHeader(n)
                     \/ Kind(n) \in {"getter", "setter"} /\ ~IsImplementedFunction(n)
             branches == Kind(n) \in {"if_statement", "if_expression"}
  <2>3. NcssContribution(n) = IF none THEN 0 ELSE a + b + IF branches THEN c ELSE 0
    BY DEF NcssContribution
  <2>4. a \in Nat /\ b \in Nat /\ c \in Nat
    BY <1>1, <2>2
  <2> HIDE DEF a, b, c, none, branches
  <2> QED  BY <2>3, <2>4
<1> QED  BY <1>3, <1>4, <1>5

LEMMA PointsAreNumbers ==
  ASSUME IsTree(tree), NEW f, NEW n \in Nodes
  PROVE  Levels(f, n) \in Nat /\ Points(f, n) \in Nat
<1> DEFINE A == {k \in Path(f, n) \ {n} : IsNesting(k)}
           B == Path(f, n) \cap ClassBodies
           C == {k \in Path(f, n) \cap Boundaries : InsideFunction(k) /\ ~IsMember(k)}
<1>1. Path(f, n) \subseteq Nodes
  <2>1. Up(n) = Up(Parent(n)) \cup {n} /\ Ancestors(n) = Up(Parent(n))
    BY UpFromParent
  <2> QED  BY <2>1 DEF Path, Up
<1>2. A \subseteq Nodes /\ B \subseteq Nodes /\ C \subseteq Nodes
  BY <1>1
<1>3. Levels(f, n) = Cardinality(A) + Cardinality(B) + Cardinality(C)
  BY DEF Levels
<1> HIDE DEF A, B, C
<1>4. Cardinality(A) \in Nat /\ Cardinality(B) \in Nat /\ Cardinality(C) \in Nat
  BY <1>2, NodesAreFinite
<1>5. Levels(f, n) \in Nat
  BY <1>3, <1>4
<1>6. FlatPoints(n) \in Nat /\ NestedPoints(n) \in Nat
  BY NodesAreWorthNumbers
<1> DEFINE l == 1 + Levels(f, n)
<1>7. l \in Nat
  BY <1>5
<1> HIDE DEF l
<1>8. NestedPoints(n) * l \in Nat
  BY <1>6, <1>7
<1> QED  BY <1>5, <1>6, <1>8 DEF Points, l

LEMMA TotalsAreSums ==
  ASSUME IsTree(tree)
  PROVE  /\ \A f, X : PointsIn(f, X) = SumOver(PointsWorth(f), X, Size)
         /\ \A X : Statements(X) = SumOver(StatementsWorth, X, Size)
         /\ \A f : IsWorth(PointsWorth(f), Size)
         /\ IsWorth(StatementsWorth, Size) /\ IsWorth(SensitiveWorth, Size)
<1>1. Size \in Nat /\ Nodes = 1..Size
  BY TreeNumbers
<1>2. \A f : \A n \in Nodes : Points(f, n) \in Int
  BY PointsAreNumbers
<1>3. \A n \in Nodes : NestedPoints(n) \in Int /\ NcssContribution(n) \in Int
  BY NodesAreWorthNumbers
<1>4. ASSUME NEW f, NEW X PROVE PointsIn(f, X) = SumOver(PointsWorth(f), X, Size)
  <2>1. [n \in Nodes |-> IF n \in X THEN Points(f, n) ELSE 0] = Where(PointsWorth(f), X, Size)
    BY <1>1 DEF Where, PointsWorth
  <2> QED  BY <2>1 DEF PointsIn, SumOver
<1>5. ASSUME NEW X PROVE Statements(X) = SumOver(StatementsWorth, X, Size)
  <2>1. [n \in Nodes |-> IF n \in X THEN NcssContribution(n) ELSE 0] = Where(StatementsWorth, X, Size)
    BY <1>1 DEF Where, StatementsWorth
  <2> QED  BY <2>1 DEF Statements, SumOver
<1>6. \A f : IsWorth(PointsWorth(f), Size)
  BY <1>1, <1>2 DEF IsWorth, PointsWorth
<1>7. IsWorth(StatementsWorth, Size) /\ IsWorth(SensitiveWorth, Size)
  BY <1>1, <1>3 DEF IsWorth, StatementsWorth, SensitiveWorth
<1> QED  BY <1>4, <1>5, <1>6, <1>7

LEMMA TotalsOfNone ==
  ASSUME IsTree(tree)
  PROVE  (\A f : PointsIn(f, {}) = 0) /\ Sensitive({}) = 0 /\ Statements({}) = 0
BY TotalsAreSums, SumOfNone DEF Sensitive

LEMMA TotalsWithOne ==
  ASSUME IsTree(tree), NEW X, NEW n \in Nodes, n \notin X
  PROVE  /\ \A f : PointsIn(f, X \cup {n}) = PointsIn(f, X) + Points(f, n)
         /\ Sensitive(X \cup {n}) = Sensitive(X) + NestedPoints(n)
         /\ Statements(X \cup {n}) = Statements(X) + NcssContribution(n)
<1>1. n \in 1..Size
  BY TreeNumbers
<1>2. ASSUME NEW f PROVE PointsIn(f, X \cup {n}) = PointsIn(f, X) + Points(f, n)
  <2>1. IsWorth(PointsWorth(f), Size)
    BY TotalsAreSums
  <2>2. SumOver(PointsWorth(f), X \cup {n}, Size) = SumOver(PointsWorth(f), X, Size) + PointsWorth(f)[n]
    BY <1>1, <2>1, SumWithOne
  <2>3. PointsWorth(f)[n] = Points(f, n)
    BY DEF PointsWorth
  <2> QED  BY <2>2, <2>3, TotalsAreSums
<1>3. Sensitive(X \cup {n}) = Sensitive(X) + NestedPoints(n)
  <2>1. IsWorth(SensitiveWorth, Size)
    BY TotalsAreSums
  <2>2. SumOver(SensitiveWorth, X \cup {n}, Size) = SumOver(SensitiveWorth, X, Size) + SensitiveWorth[n]
    BY <1>1, <2>1, SumWithOne
  <2>3. SensitiveWorth[n] = NestedPoints(n)
    BY DEF SensitiveWorth
  <2> QED  BY <2>2, <2>3 DEF Sensitive
<1>4. Statements(X \cup {n}) = Statements(X) + NcssContribution(n)
  <2>1. IsWorth(StatementsWorth, Size)
    BY TotalsAreSums
  <2>2. SumOver(StatementsWorth, X \cup {n}, Size) = SumOver(StatementsWorth, X, Size) + StatementsWorth[n]
    BY <1>1, <2>1, SumWithOne
  <2>3. StatementsWorth[n] = NcssContribution(n)
    BY DEF StatementsWorth
  <2> QED  BY <2>2, <2>3, TotalsAreSums
<1> QED  BY <1>2, <1>3, <1>4

LEMMA TotalsOfUnion ==
  ASSUME IsTree(tree), NEW X, NEW Y, X \cap Y = {}
  PROVE  /\ \A f : PointsIn(f, X \cup Y) = PointsIn(f, X) + PointsIn(f, Y)
         /\ Sensitive(X \cup Y) = Sensitive(X) + Sensitive(Y)
         /\ Statements(X \cup Y) = Statements(X) + Statements(Y)
<1>1. \A f : IsWorth(PointsWorth(f), Size)
  BY TotalsAreSums
<1>2. IsWorth(StatementsWorth, Size) /\ IsWorth(SensitiveWorth, Size)
  BY TotalsAreSums
<1>3. ASSUME NEW f PROVE PointsIn(f, X \cup Y) = PointsIn(f, X) + PointsIn(f, Y)
  <2>1. IsWorth(PointsWorth(f), Size)
    BY <1>1
  <2>2. SumOver(PointsWorth(f), X \cup Y, Size)
        = SumOver(PointsWorth(f), X, Size) + SumOver(PointsWorth(f), Y, Size)
    BY <2>1, SumUnion
  <2> QED  BY <2>2, TotalsAreSums
<1>4. Sensitive(X \cup Y) = Sensitive(X) + Sensitive(Y)
  BY <1>2, SumUnion DEF Sensitive
<1>5. Statements(X \cup Y) = Statements(X) + Statements(Y)
  <2>1. SumOver(StatementsWorth, X \cup Y, Size)
        = SumOver(StatementsWorth, X, Size) + SumOver(StatementsWorth, Y, Size)
    BY <1>2, SumUnion
  <2> QED  BY <2>1, TotalsAreSums
<1> QED  BY <1>3, <1>4, <1>5

LEMMA TotalsAreNumbers ==
  ASSUME IsTree(tree), NEW X
  PROVE  (\A f : PointsIn(f, X) \in Int) /\ Sensitive(X) \in Int /\ Statements(X) \in Int
BY TotalsAreSums, SumIsANumber DEF Sensitive

(* A function's points, for each level it stands deeper in another. *)
LEMMA PointsShift ==
  ASSUME IsTree(tree), NEW p \in 0..Size, NEW f \in Subtree(p) \ {p}
  PROVE  LET X == Subtree(f) \ {f}
         IN PointsIn(p, X) = PointsIn(f, X) + Sensitive(X) * (Entry(f) - Entry(p))
<1> DEFINE X == Subtree(f) \ {f}
           c == Entry(f) - Entry(p)
<1>1. f \in Nodes /\ p < f
  BY WayDown
<1>2. f \in 0..Size /\ Nodes = 1..Size
  BY <1>1, TreeNumbers
<1>3. Entry(f) \in Nat /\ Entry(p) \in Nat
  BY LevelsAreNumbers
<1>4. c \in Int
  BY <1>3
<1>5. ASSUME NEW k \in X PROVE k \in Nodes /\ Points(p, k) = Points(f, k) + NestedPoints(k) * c
  <2>1. k \in Subtree(f) \ {f} /\ k \in Subtree(p) \ {p}
    <3>1. k \in Subtree(p)
      BY SubtreesNest
    <3>2. f < k
      BY <1>2, WayDown
    <3> QED  BY <1>1, <1>2, <3>1, <3>2
  <2>2. k \in Nodes
    BY <2>1, WayDown
  <2>3. Levels(f, k) = Depth(Parent(k)) + Bonus(k) - Entry(f)
    BY <1>2, <2>1, LevelsAre
  <2>4. Levels(p, k) = Depth(Parent(k)) + Bonus(k) - Entry(p)
    BY <2>1, LevelsAre
  <2>5. Depth(Parent(k)) \in Nat /\ Bonus(k) \in Nat
    BY LevelsAreNumbers
  <2>6. FlatPoints(k) \in Nat /\ NestedPoints(k) \in Nat
    BY <2>2, NodesAreWorthNumbers
  <2>7. Levels(p, k) = Levels(f, k) + c /\ Levels(f, k) \in Int
    BY <1>3, <2>3, <2>4, <2>5
  <2> HIDE DEF c
  <2>8. \A a, l, e \in Int : a * (1 + (l + e)) = a * (1 + l) + a * e
    OBVIOUS
  <2>9. NestedPoints(k) * (1 + Levels(p, k)) = NestedPoints(k) * (1 + Levels(f, k)) + NestedPoints(k) * c
    BY <1>4, <2>6, <2>7, <2>8
  <2>10. NestedPoints(k) * (1 + Levels(f, k)) \in Int /\ NestedPoints(k) * c \in Int
    BY <1>4, <2>6, <2>7
  <2> QED  BY <2>2, <2>6, <2>9, <2>10 DEF Points
<1> HIDE DEF X, c
<1>6. \A k \in X : PointsWorth(p)[k] = PointsWorth(f)[k] + SensitiveWorth[k] * c
  BY <1>5 DEF PointsWorth, SensitiveWorth
<1>7. IsWorth(PointsWorth(p), Size) /\ IsWorth(PointsWorth(f), Size) /\ IsWorth(SensitiveWorth, Size)
  BY TotalsAreSums
<1>8. SumOver(PointsWorth(p), X, Size) = SumOver(PointsWorth(f), X, Size) + SumOver(SensitiveWorth, X, Size) * c
  BY <1>4, <1>6, <1>7, SumShift
<1>9. PointsIn(p, X) = PointsIn(f, X) + Sensitive(X) * c
  BY <1>8, TotalsAreSums DEF Sensitive
<1> QED  BY <1>9 DEF X, c

-----------------------------------------------------------------------------
(* What is still to come.                                                  *)

LEMMA AscendingLists ==
  ASSUME NEW S, S \subseteq Nat, IsFiniteSet(S)
  PROVE  /\ Ascending(S) \in Seq(S) /\ Len(Ascending(S)) \in Nat
         /\ \A x \in S : \E i \in 1..Len(Ascending(S)) : Ascending(S)[i] = x
         /\ \A i \in 1..Len(Ascending(S)) : Ascending(S)[i] \in S
         /\ \A i, j \in 1..Len(Ascending(S)) : Ascending(S)[i] = Ascending(S)[j] => i = j
<1> DEFINE q == Ascending(S)
           place(k) == CHOOSE x \in S : Cardinality({y \in S : y < x}) = k - 1
           key == [x \in S |-> x]
           R == {x \in S \X S : key[x[1]] < key[x[2]]}
<1>1. q = [k \in 1..Cardinality(S) |-> place(k)]
  BY DEF Ascending, Arranged
<1>2. key \in [S -> Nat] /\ \A x, y \in S : key[x] = key[y] => x = y
  OBVIOUS
<1>3. \A x \in S : key[x] = x
  OBVIOUS
<1>4. \A x, y \in S : <<x, y>> \in R <=> key[x] < key[y]
  OBVIOUS
<1> HIDE DEF q, key, R
<1>5. IsOrder(R, S)
  BY <1>2, <1>4, OrderByNumber
<1>6. \A x \in S : Rank(R, S, x) = Cardinality({y \in S : y < x})
  <2> TAKE x \in S
  <2>1. {y \in S : <<y, x>> \in R} = {y \in S : y < x}
    BY <1>3, <1>4
  <2> QED  BY <2>1 DEF Rank
<1>7. \A k \in 1..Cardinality(S) : place(k) \in S /\ Rank(R, S, place(k)) = k - 1
  <2> TAKE k \in 1..Cardinality(S)
  <2>1. \E x \in S : Rank(R, S, x) = k - 1
    BY <1>5, RanksAreTaken
  <2>2. \E x \in S : Cardinality({y \in S : y < x}) = k - 1
    BY <1>6, <2>1
  <2>3. place(k) \in S /\ Cardinality({y \in S : y < place(k)}) = k - 1
    BY <2>2
  <2> QED  BY <1>6, <2>3
<1> HIDE DEF place
<1>8. q \in [1..Cardinality(S) -> S]
  BY <1>1, <1>7
<1>9. \A k \in 1..Cardinality(S) : Rank(R, S, q[k]) = k - 1
  BY <1>1, <1>7
<1>10. IsArrangement(q, R, S)
  BY <1>5, <1>8, <1>9, ArrangementOf
<1>11. /\ q \in Seq(S) /\ \A x \in S : \E i \in DOMAIN q : q[i] = x
       /\ \A i, j \in DOMAIN q : q[i] = q[j] => i = j
  BY <1>5, <1>10, ArrangementLists
<1>12. DOMAIN q = 1..Len(q) /\ Len(q) \in Nat /\ \A i \in 1..Len(q) : q[i] \in S
  BY <1>11
<1> QED  BY <1>11, <1>12 DEF q

(* A visit knows what is around its node. *)
IsVisit(v) ==
  /\ v.nesting = Depth(Parent(v.node)) /\ v.bonus = Bonus(Parent(v.node))
  /\ v.inFunction <=> HoldsFunction(Parent(v.node))
  /\ v.inRegion <=> Region(Parent(v.node))
  /\ v.inClass <=> IsMember(v.node)

Visits ==
  [step : {"visit"}, node : Nodes, nesting : Nat, bonus : Nat, inFunction : BOOLEAN,
   inRegion : BOOLEAN, inClass : BOOLEAN]
Closings == [step : {"close"}, node : Nodes]

(* Nothing comes twice, a closing after all that is below its node, and every *)
(* node around one that is to come is to be closed.                           *)
TodoFits(td) ==
  /\ td \in Seq(Visits \cup Closings)
  /\ \A i \in 1..Len(td) : td[i].step = "visit" => IsVisit(td[i])
  /\ \A i, j \in 1..Len(td) : i < j =>
       /\ td[j].node \notin Subtree(td[i].node)
       /\ td[i].node \in Subtree(td[j].node) <=> td[j].step = "close"
  /\ \A i \in 1..Len(td) : \A a \in Up(Parent(td[i].node)) :
       \E j \in 1..Len(td) : td[j].step = "close" /\ td[j].node = a

Seen(td) ==
  {m \in Nodes : \A i \in 1..Len(td) : td[i].step = "visit" => m \notin Subtree(td[i].node)}
Open(td) == {m \in Nodes : \E i \in 1..Len(td) : td[i].step = "close" /\ td[i].node = m}

LEMMA ItemsAre ==
  ASSUME NEW td, TodoFits(td), NEW i \in 1..Len(td)
  PROVE  /\ Len(td) \in Nat /\ td[i] \in Visits \cup Closings
         /\ td[i].node \in Nodes /\ td[i].step \in {"visit", "close"}
<1>1. Len(td) \in Nat /\ td[i] \in Visits \cup Closings
  BY DEF TodoFits
<1>2. CASE td[i] \in Visits
  BY <1>1, <1>2 DEF Visits
<1>3. CASE td[i] \in Closings
  BY <1>1, <1>3 DEF Closings
<1> QED  BY <1>1, <1>2, <1>3

LEMMA AtVisit ==
  ASSUME IsTree(tree), NEW td, TodoFits(td), Len(td) >= 1, td[1].step = "visit"
  PROVE  Open(td) = Up(Parent(td[1].node)) /\ Subtree(td[1].node) \cap Seen(td) = {}
<1> DEFINE n == td[1].node
<1>1. Len(td) \in Nat /\ 1 \in 1..Len(td)
  BY DEF TodoFits
<1>2. n \in Nodes
  BY <1>1, ItemsAre
<1>3. Up(n) = Up(Parent(n)) \cup {n} /\ Up(Parent(n)) \subseteq Nodes
  BY <1>2, UpFromParent DEF Up
<1>4. ASSUME NEW a \in Open(td) PROVE a \in Up(Parent(n))
  <2>1. PICK j \in 1..Len(td) : td[j].step = "close" /\ td[j].node = a
    BY DEF Open
  <2>2. j # 1 /\ 1 < j /\ a \in Nodes
    BY <1>1, <2>1 DEF Open
  <2>3. td[j].node \notin Subtree(n) /\ n \in Subtree(td[j].node)
    BY <1>1, <2>1, <2>2 DEF TodoFits
  <2>4. a \in Up(n)
    BY <1>2, <2>1, <2>2, <2>3, UpIs
  <2>5. n \in Subtree(n)
    <3>1. n \in 0..Size
      BY <1>2, TreeNumbers
    <3> QED  BY <3>1, SubtreesNest
  <2> QED  BY <1>3, <2>1, <2>3, <2>4, <2>5
<1>5. ASSUME NEW a \in Up(Parent(n)) PROVE a \in Open(td)
  <2>1. \E j \in 1..Len(td) : td[j].step = "close" /\ td[j].node = a
    BY <1>1 DEF TodoFits
  <2> QED  BY <1>3, <2>1 DEF Open
<1>6. Subtree(n) \cap Seen(td) = {}
  BY <1>1 DEF Seen
<1> QED  BY <1>4, <1>5, <1>6

LEMMA AtClosing ==
  ASSUME IsTree(tree), NEW td, TodoFits(td), Len(td) >= 1, td[1].step = "close"
  PROVE  Open(td) = Up(td[1].node) /\ Subtree(td[1].node) \subseteq Seen(td)
<1> DEFINE n == td[1].node
<1>1. Len(td) \in Nat /\ 1 \in 1..Len(td)
  BY DEF TodoFits
<1>2. n \in Nodes /\ Nodes = 1..Size /\ Size \in Nat
  BY <1>1, ItemsAre, TreeNumbers
<1>3. Up(n) = Up(Parent(n)) \cup {n} /\ Up(Parent(n)) \subseteq Nodes
  BY <1>2, UpFromParent DEF Up
<1>4. ASSUME NEW a \in Open(td) PROVE a \in Up(n)
  <2>1. PICK j \in 1..Len(td) : td[j].step = "close" /\ td[j].node = a
    BY DEF Open
  <2>2. CASE j = 1
    BY <1>3, <2>1, <2>2
  <2>3. CASE j # 1
    <3>1. 1 < j /\ a \in Nodes
      BY <1>1, <2>3 DEF Open
    <3>2. n \in Subtree(td[j].node)
      BY <1>1, <2>1, <3>1 DEF TodoFits
    <3> QED  BY <1>2, <2>1, <3>1, <3>2, UpIs
  <2> QED  BY <2>2, <2>3
<1>5. ASSUME NEW a \in Up(n) PROVE a \in Open(td)
  <2>1. CASE a = n
    BY <1>1, <1>2, <2>1 DEF Open
  <2>2. CASE a # n
    <3>1. a \in Up(Parent(n))
      BY <1>3, <2>2
    <3>2. \E j \in 1..Len(td) : td[j].step = "close" /\ td[j].node = a
      BY <1>1, <3>1 DEF TodoFits
    <3> QED  BY <1>3, <3>1, <3>2 DEF Open
  <2> QED  BY <2>1, <2>2
<1>6. ASSUME NEW m \in Subtree(n) PROVE m \in Seen(td)
  <2>1. m \in Nodes
    BY <1>2, SubtreesNest
  <2>2. ASSUME NEW i \in 1..Len(td), td[i].step = "visit", m \in Subtree(td[i].node) PROVE FALSE
    <3>1. i # 1 /\ 1 < i
      BY <1>1, <2>2
    <3>2. td[i].node \notin Subtree(n) /\ n \notin Subtree(td[i].node)
      BY <1>1, <2>2, <3>1 DEF TodoFits
    <3>3. td[i].node \in 0..Size /\ n \in 0..Size
      BY <1>2, <2>2, ItemsAre
    <3>4. Subtree(n) \cap Subtree(td[i].node) # {}
      BY <2>2
    <3>5. n <= td[i].node \/ td[i].node <= n
      BY <1>2, <3>3
    <3> QED  BY <3>2, <3>3, <3>4, <3>5, SubtreesNest
  <2> QED  BY <2>1, <2>2 DEF Seen
<1> QED  BY <1>4, <1>5, <1>6

(* What is to come once the first item is done, and what a visit puts before it. *)
LEMMA AfterClosing ==
  ASSUME IsTree(tree), NEW td, TodoFits(td), Len(td) >= 1, td[1].step = "close",
         NEW q, q = Tail(td)
  PROVE  TodoFits(q) /\ Seen(q) = Seen(td) /\ Open(q) = Up(Parent(td[1].node))
<1> DEFINE n == td[1].node
<1>1. Len(td) \in Nat /\ 1 \in 1..Len(td) /\ td \in Seq(Visits \cup Closings)
  BY DEF TodoFits
<1>2. n \in Nodes
  BY <1>1, ItemsAre
<1>3. Up(n) = Up(Parent(n)) \cup {n} /\ n \notin Up(Parent(n)) /\ Up(Parent(n)) \subseteq Nodes
  BY <1>2, UpFromParent DEF Up
<1>4. /\ q \in Seq(Visits \cup Closings) /\ Len(q) = Len(td) - 1
      /\ \A i \in 1..Len(q) : q[i] = td[i + 1]
  BY <1>1
<1>5. \A i \in 1..Len(q) : i + 1 \in 1..Len(td) /\ 1 < i + 1
  BY <1>1, <1>4
<1>6. \A j \in 1..Len(td) : j # 1 => j - 1 \in 1..Len(q) /\ q[j - 1] = td[j]
  <2> TAKE j \in 1..Len(td)
  <2>1. j # 1 => j - 1 \in 1..Len(q) /\ (j - 1) + 1 = j
    BY <1>1, <1>4
  <2> QED  BY <1>4, <2>1
<1>7. \A j \in 1..Len(td) : j # 1 => td[j].node # n
  <2> TAKE j \in 1..Len(td)
  <2>1. j # 1 => 1 < j
    BY <1>1
  <2>2. j # 1 => td[j].node \notin Subtree(n)
    BY <1>1, <2>1 DEF TodoFits
  <2>3. n \in Subtree(n)
    <3>1. n \in 0..Size
      BY <1>2, TreeNumbers
    <3> QED  BY <3>1, SubtreesNest
  <2> QED  BY <2>2, <2>3
<1>8. ASSUME NEW i \in 1..Len(q), q[i].step = "visit" PROVE IsVisit(q[i])
  BY <1>4, <1>5, <1>8 DEF TodoFits
<1>9. ASSUME NEW i \in 1..Len(q), NEW j \in 1..Len(q), i < j
      PROVE  /\ q[j].node \notin Subtree(q[i].node)
             /\ q[i].node \in Subtree(q[j].node) <=> q[j].step = "close"
  <2>1. i + 1 \in 1..Len(td) /\ j + 1 \in 1..Len(td) /\ i + 1 < j + 1
    BY <1>1, <1>5, <1>9
  <2> QED  BY <1>4, <2>1 DEF TodoFits
<1>10. ASSUME NEW i \in 1..Len(q), NEW a \in Up(Parent(q[i].node))
       PROVE  \E j \in 1..Len(q) : q[j].step = "close" /\ q[j].node = a
  <2>1. i + 1 \in 1..Len(td) /\ q[i] = td[i + 1] /\ 1 < i + 1
    BY <1>4, <1>5
  <2>2. PICK j \in 1..Len(td) : td[j].step = "close" /\ td[j].node = a
    BY <1>10, <2>1 DEF TodoFits
  <2>3. td[i + 1].node \in Nodes /\ td[i + 1].node \notin Subtree(n)
    BY <1>1, <2>1, ItemsAre DEF TodoFits
  <2>4. a # n
    <3>1. a \in Up(td[i + 1].node)
      BY <1>10, <2>1, <2>3, UpFromParent
    <3> QED  BY <2>3, <3>1, UpIs
  <2>5. j # 1
    BY <2>2, <2>4
  <2>6. j - 1 \in 1..Len(q) /\ q[j - 1] = td[j]
    BY <1>6, <2>5
  <2> QED  BY <2>2, <2>6
<1>11. TodoFits(q)
  BY <1>4, <1>8, <1>9, <1>10 DEF TodoFits
<1>12. Seen(q) = Seen(td)
  <2>1. ASSUME NEW m \in Nodes
        PROVE  (\A i \in 1..Len(q) : q[i].step = "visit" => m \notin Subtree(q[i].node))
               <=> (\A i \in 1..Len(td) : td[i].step = "visit" => m \notin Subtree(td[i].node))
    <3>1. ASSUME \A i \in 1..Len(q) : q[i].step = "visit" => m \notin Subtree(q[i].node),
                 NEW i \in 1..Len(td), td[i].step = "visit"
          PROVE  m \notin Subtree(td[i].node)
      <4>1. i # 1
        BY <3>1
      <4>2. i - 1 \in 1..Len(q) /\ q[i - 1] = td[i]
        BY <1>6, <4>1
      <4> QED  BY <3>1, <4>2
    <3>2. ASSUME \A i \in 1..Len(td) : td[i].step = "visit" => m \notin Subtree(td[i].node),
                 NEW i \in 1..Len(q), q[i].step = "visit"
          PROVE  m \notin Subtree(q[i].node)
      <4>1. i + 1 \in 1..Len(td) /\ q[i] = td[i + 1]
        BY <1>4, <1>5
      <4> QED  BY <3>2, <4>1
    <3> QED  BY <3>1, <3>2
  <2> QED  BY <2>1 DEF Seen
<1>13. Open(q) = Open(td) \ {n}
  <2>1. ASSUME NEW m \in Open(q) PROVE m \in Open(td) /\ m # n
    <3>1. PICK i \in 1..Len(q) : q[i].step = "close" /\ q[i].node = m
      BY <2>1 DEF Open
    <3>2. i + 1 \in 1..Len(td) /\ q[i] = td[i + 1] /\ i + 1 # 1
      BY <1>4, <1>5
    <3>3. m \in Nodes
      BY <2>1 DEF Open
    <3> QED  BY <1>7, <3>1, <3>2, <3>3 DEF Open
  <2>2. ASSUME NEW m \in Open(td), m # n PROVE m \in Open(q)
    <3>1. PICK i \in 1..Len(td) : td[i].step = "close" /\ td[i].node = m
      BY <2>2 DEF Open
    <3>2. i # 1
      BY <2>2, <3>1
    <3>3. i - 1 \in 1..Len(q) /\ q[i - 1] = td[i] /\ m \in Nodes
      BY <1>6, <3>2, <2>2 DEF Open
    <3> QED  BY <3>1, <3>3 DEF Open
  <2> QED  BY <2>1, <2>2
<1>14. Open(td) = Up(n)
  BY AtClosing
<1> QED  BY <1>3, <1>11, <1>12, <1>13, <1>14

IsAfterVisit(q, td, n, b) ==
  /\ q \in Seq(Visits \cup Closings) /\ Len(q) = Len(b) + Len(td)
  /\ \A i \in 1..Len(b) : q[i].node = b[i] /\ q[i].step = "visit" /\ IsVisit(q[i])
  /\ q[Len(b) + 1].node = n /\ q[Len(b) + 1].step = "close"
  /\ \A i \in 2..Len(td) : q[Len(b) + i] = td[i]

LEMMA AfterVisit ==
  ASSUME IsTree(tree), NEW td, TodoFits(td), Len(td) >= 1, td[1].step = "visit",
         NEW q, NEW n, n = td[1].node, NEW b, b = Ascending(Children(n)), IsAfterVisit(q, td, n, b)
  PROVE  TodoFits(q) /\ Seen(q) = Seen(td) \cup {n} /\ n \notin Seen(td) /\ Open(q) = Up(n)
<1> DEFINE K == Len(b)
           L == Len(td)
           C == Children(n)
<1>1. L \in Nat /\ 1 \in 1..L /\ td \in Seq(Visits \cup Closings)
  BY DEF TodoFits
<1>2. n \in Nodes /\ n \in 0..Size
  BY <1>1, ItemsAre, TreeNumbers
<1>3. /\ \A c \in C : c \in Nodes /\ Parent(c) = n /\ c \in Subtree(n) /\ n \notin Subtree(c)
      /\ \A c, d \in C : c # d => Subtree(c) \cap Subtree(d) = {}
      /\ \A m \in Subtree(n) : m # n => \E c \in C : m \in Subtree(c)
  BY <1>2, ChildrenSplit
<1>4. /\ K \in Nat /\ \A x \in C : \E i \in 1..K : b[i] = x
      /\ \A i \in 1..K : b[i] \in C
      /\ \A i, j \in 1..K : b[i] = b[j] => i = j
  <2>1. IsFiniteSet(C) /\ C \subseteq Nat
    <3>1. C \subseteq Nodes /\ C \subseteq Nat
      BY TreeNumbers DEF Children
    <3> QED  BY <3>1, NodesAreFinite
  <2>2. b = Ascending(C)
    OBVIOUS
  <2> HIDE DEF C
  <2> DEFINE a == Ascending(C)
  <2>3. /\ Len(a) \in Nat /\ \A x \in C : \E i \in 1..Len(a) : a[i] = x
        /\ \A i \in 1..Len(a) : a[i] \in C
        /\ \A i, j \in 1..Len(a) : a[i] = a[j] => i = j
    BY <2>1, AscendingLists
  <2> HIDE DEF a
  <2> QED  BY <2>2, <2>3 DEF K, a
<1>5. Up(n) = Up(Parent(n)) \cup {n} /\ n \notin Up(Parent(n)) /\ Up(Parent(n)) \subseteq Nodes
  BY <1>2, UpFromParent DEF Up
<1>6. \A i \in 1..K : \E c \in C : q[i].node = c /\ q[i].step = "visit" /\ IsVisit(q[i])
  BY <1>4 DEF IsAfterVisit
<1>7. q[K + 1].node = n /\ q[K + 1].step = "close"
  BY DEF IsAfterVisit
<1>8. Len(q) = K + L /\ \A i \in 2..L : q[K + i] = td[i] /\ K + i \in 1..Len(q)
  BY <1>1, <1>4 DEF IsAfterVisit
<1>9. \A i \in 1..Len(q) : i \in 1..K \/ i = K + 1 \/ (i - K \in 2..L /\ q[i] = td[i - K])
  <2> TAKE i \in 1..Len(q)
  <2>1. i \in 1..K \/ i = K + 1 \/ (i - K \in 2..L /\ K + (i - K) = i)
    BY <1>1, <1>4, <1>8
  <2> QED  BY <1>8, <2>1
<1>10. \A i \in 2..L : /\ i \in 1..L /\ td[i].node \in Nodes /\ td[i].node \notin Subtree(n)
                       /\ n \in Subtree(td[i].node) <=> td[i].step = "close"
  <2> TAKE i \in 2..L
  <2>1. i \in 1..L /\ 1 < i
    BY <1>1
  <2>2. td[i].node \in Nodes
    BY <2>1, ItemsAre
  <2> QED  BY <1>1, <2>1, <2>2 DEF TodoFits
<1>11. n \in Subtree(n) /\ \A m \in Subtree(n) : Subtree(m) \subseteq Subtree(n)
  BY <1>2, SubtreesNest
<1>12. \A c \in C : c \in Subtree(c)
  <2> TAKE c \in C
  <2>1. c \in 0..Size
    BY <1>3, TreeNumbers
  <2> QED  BY <2>1, SubtreesNest
<1>13. \A i \in 2..L : \A m \in Subtree(n) : m \in Subtree(td[i].node) <=> td[i].step = "close"
  <2> TAKE i \in 2..L
  <2> TAKE m \in Subtree(n)
  <2> DEFINE x == td[i].node
  <2>1. x \in 0..Size /\ x \notin Subtree(n) /\ (n \in Subtree(x) <=> td[i].step = "close")
    BY <1>10, TreeNumbers
  <2> HIDE DEF x
  <2>2. n \in Subtree(x) => m \in Subtree(x)
    BY <2>1, SubtreesNest
  <2>3. m \in Subtree(x) => n \in Subtree(x)
    <3>1. SUFFICES ASSUME m \in Subtree(x) PROVE n \in Subtree(x)
      OBVIOUS
    <3>2. Subtree(n) \cap Subtree(x) # {}
      BY <3>1
    <3>3. x <= n \/ n <= x
      BY <1>2, <2>1, TreeNumbers
    <3> QED  BY <1>2, <2>1, <3>2, <3>3, SubtreesNest
  <2> QED  BY <2>1, <2>2, <2>3 DEF x
<1> HIDE DEF K, L, C
<1>14. ASSUME NEW i \in 1..Len(q), q[i].step = "visit" PROVE IsVisit(q[i])
  <2>1. CASE i \in 1..K
    BY <1>6, <2>1
  <2>2. CASE i = K + 1
    BY <1>7, <1>14, <2>2
  <2>3. CASE i - K \in 2..L /\ q[i] = td[i - K]
    <3>1. i - K \in 1..L
      BY <1>10, <2>3
    <3> QED  BY <1>14, <2>3, <3>1 DEF TodoFits, L
  <2> QED  BY <1>9, <2>1, <2>2, <2>3
<1>15. ASSUME NEW i \in 1..Len(q), NEW j \in 1..Len(q), i < j
       PROVE  /\ q[j].node \notin Subtree(q[i].node)
              /\ q[i].node \in Subtree(q[j].node) <=> q[j].step = "close"
  <2>1. CASE i \in 1..K
    <3>1. q[i].node = b[i] /\ b[i] \in C
      BY <1>4, <2>1 DEF IsAfterVisit, K
    <3>2. CASE j \in 1..K
      <4>1. q[j].node = b[j] /\ b[j] \in C /\ q[j].step = "visit"
        BY <1>4, <3>2 DEF IsAfterVisit, K
      <4>2. i # j
        BY <1>15
      <4>3. b[i] # b[j]
        BY <1>4, <2>1, <3>2, <4>2
      <4>4. Subtree(b[i]) \cap Subtree(b[j]) = {} /\ b[i] \in Subtree(b[i]) /\ b[j] \in Subtree(b[j])
        BY <1>3, <1>12, <3>1, <4>1, <4>3
      <4> QED  BY <3>1, <4>1, <4>4
    <3>3. CASE j = K + 1
      BY <1>3, <1>7, <3>1, <3>3
    <3>4. CASE j - K \in 2..L /\ q[j] = td[j - K]
      <4>1. b[i] \in Subtree(n) /\ Subtree(b[i]) \subseteq Subtree(n)
        BY <1>3, <1>11, <3>1
      <4>2. td[j - K].node \notin Subtree(n)
        BY <1>10, <3>4
      <4>3. b[i] \in Subtree(td[j - K].node) <=> td[j - K].step = "close"
        BY <1>13, <3>4, <4>1
      <4> QED  BY <3>1, <3>4, <4>1, <4>2, <4>3
    <3> QED  BY <1>9, <3>2, <3>3, <3>4
  <2>2. CASE i = K + 1
    <3>1. j \notin 1..K /\ j # K + 1
      BY <1>4, <1>15, <2>2
    <3>2. j - K \in 2..L /\ q[j] = td[j - K]
      BY <1>9, <3>1
    <3> QED  BY <1>7, <1>10, <2>2, <3>2
  <2>3. CASE i - K \in 2..L /\ q[i] = td[i - K]
    <3>1. j \notin 1..K /\ j # K + 1
      BY <1>1, <1>4, <1>15, <2>3
    <3>2. j - K \in 2..L /\ q[j] = td[j - K]
      BY <1>9, <3>1
    <3>3. i - K \in 1..L /\ j - K \in 1..L /\ i - K < j - K
      BY <1>1, <1>4, <1>10, <1>15, <2>3, <3>2
    <3> QED  BY <2>3, <3>2, <3>3 DEF TodoFits, L
  <2> QED  BY <1>9, <2>1, <2>2, <2>3
<1>16. \A a \in Up(n) : \E j \in 1..Len(q) : q[j].step = "close" /\ q[j].node = a
  <2> TAKE a \in Up(n)
  <2>1. K + 1 \in 1..Len(q)
    BY <1>1, <1>4, <1>8
  <2>2. CASE a = n
    BY <1>7, <2>1, <2>2
  <2>3. CASE a # n
    <3>1. PICK j \in 1..L : td[j].step = "close" /\ td[j].node = a
      BY <1>1, <1>5, <2>3 DEF TodoFits, L
    <3>2. j # 1
      BY <3>1
    <3>3. j \in 2..L
      BY <1>1, <3>2
    <3> QED  BY <1>8, <3>1, <3>3
  <2> QED  BY <2>2, <2>3
<1>17. ASSUME NEW i \in 1..Len(q), NEW a \in Up(Parent(q[i].node))
       PROVE  \E j \in 1..Len(q) : q[j].step = "close" /\ q[j].node = a
  <2>1. CASE i \in 1..K
    <3>1. Parent(q[i].node) = n
      BY <1>3, <1>6, <2>1
    <3> QED  BY <1>16, <1>17, <3>1
  <2>2. CASE i = K + 1
    BY <1>5, <1>7, <1>16, <1>17, <2>2
  <2>3. CASE i - K \in 2..L /\ q[i] = td[i - K]
    <3>1. i - K \in 1..L
      BY <1>10, <2>3
    <3>2. PICK j \in 1..L : td[j].step = "close" /\ td[j].node = a
      BY <1>17, <2>3, <3>1 DEF TodoFits, L
    <3>3. j # 1
      BY <3>2
    <3>4. j \in 2..L
      BY <1>1, <3>3
    <3> QED  BY <1>8, <3>2, <3>4
  <2> QED  BY <1>9, <2>1, <2>2, <2>3
<1>18. TodoFits(q)
  <2>1. q \in Seq(Visits \cup Closings)
    BY DEF IsAfterVisit
  <2> QED  BY <1>14, <1>15, <1>17, <2>1 DEF TodoFits
<1>19. n \notin Seen(td)
  BY <1>1, <1>11 DEF Seen, L
<1>20. ASSUME NEW m \in Seen(td) \cup {n} PROVE m \in Seen(q)
  <2>1. m \in Nodes
    BY <1>2 DEF Seen
  <2>2. ASSUME NEW i \in 1..Len(q), q[i].step = "visit" PROVE m \notin Subtree(q[i].node)
    <3>1. CASE i \in 1..K
      <4>1. q[i].node \in C
        BY <1>6, <3>1
      <4>2. m = n \/ m \notin Subtree(n)
        BY <1>1, <1>20 DEF Seen, L
      <4> QED  BY <1>3, <1>11, <4>1, <4>2
    <3>2. CASE i = K + 1
      BY <1>7, <2>2, <3>2
    <3>3. CASE i - K \in 2..L /\ q[i] = td[i - K]
      <4>1. i - K \in 1..L /\ td[i - K].step = "visit"
        BY <1>10, <2>2, <3>3
      <4>2. m \in Seen(td) => m \notin Subtree(td[i - K].node)
        BY <4>1 DEF Seen, L
      <4>3. n \notin Subtree(td[i - K].node)
        BY <1>10, <3>3, <4>1
      <4> QED  BY <1>20, <3>3, <4>2, <4>3
    <3> QED  BY <1>9, <3>1, <3>2, <3>3
  <2> QED  BY <2>1, <2>2 DEF Seen
<1>21. ASSUME NEW m \in Seen(q), m # n PROVE m \in Seen(td)
  <2>1. m \in Nodes
    BY <1>21 DEF Seen
  <2>2. ASSUME NEW i \in 1..L, td[i].step = "visit" PROVE m \notin Subtree(td[i].node)
    <3>1. CASE i = 1
      <4>1. SUFFICES ASSUME m \in Subtree(n) PROVE FALSE
        BY <3>1
      <4>2. PICK c \in C : m \in Subtree(c)
        BY <1>3, <1>21, <4>1
      <4>3. PICK k \in 1..K : b[k] = c
        BY <1>4, <4>2
      <4>4. k \in 1..Len(q) /\ q[k].node = c /\ q[k].step = "visit"
        BY <1>1, <1>4, <1>8, <4>3 DEF IsAfterVisit, K
      <4> QED  BY <1>21, <4>2, <4>4 DEF Seen
    <3>2. CASE i # 1
      <4>1. i \in 2..L
        BY <1>1, <3>2
      <4>2. q[K + i] = td[i] /\ K + i \in 1..Len(q)
        BY <1>8, <4>1
      <4> QED  BY <1>21, <2>2, <4>2 DEF Seen
    <3> QED  BY <3>1, <3>2
  <2> QED  BY <2>1, <2>2 DEF Seen, L
<1>22. Seen(q) = Seen(td) \cup {n}
  BY <1>20, <1>21
<1>23. ASSUME NEW a \in Open(q) PROVE a \in Up(n)
  <2>1. PICK i \in 1..Len(q) : q[i].step = "close" /\ q[i].node = a
    BY <1>23 DEF Open
  <2>2. a \in Nodes
    BY <1>23 DEF Open
  <2>3. CASE i \in 1..K
    <3>1. q[i].step = "visit"
      BY <1>6, <2>3
    <3> QED  BY <2>1, <3>1
  <2>4. CASE i = K + 1
    BY <1>5, <1>7, <2>1, <2>4
  <2>5. CASE i - K \in 2..L /\ q[i] = td[i - K]
    <3>1. n \in Subtree(a)
      BY <1>10, <2>1, <2>5
    <3> QED  BY <1>2, <2>2, <3>1, UpIs
  <2> QED  BY <1>9, <2>3, <2>4, <2>5
<1>24. ASSUME NEW a \in Up(n) PROVE a \in Open(q)
  <2>1. \E j \in 1..Len(q) : q[j].step = "close" /\ q[j].node = a
    BY <1>16
  <2>2. a \in Nodes
    BY DEF Up
  <2> QED  BY <2>1, <2>2 DEF Open
<1> QED  BY <1>18, <1>19, <1>22, <1>23, <1>24

-----------------------------------------------------------------------------
(* Frames.                                                                 *)

NestedIn(f, n) == Cardinality({k \in Path(f, n) : IsNesting(k)})
DepthsOf(f, O) == {0} \cup {NestedIn(f, n) : n \in O}
IsDeepest(f, d, O) == d \in DepthsOf(f, O) /\ \A x \in DepthsOf(f, O) : x <= d

FrameFields ==
  {"cyclomatic", "cognitive", "sensitive", "depth", "ncss", "ownNcss", "entryNesting",
   "entryStructural", "blocks", "open"}
IsFrame(fr) == fr = [x \in FrameFields |-> fr[x]]

(* The frame of f holds the points of H, the statements of S and, of what *)
(* is in no function or class further inside, O.                          *)
FrameFits(f, fr, H, S, O) ==
  /\ IsFrame(fr)
  /\ fr.cyclomatic = 1 + Cardinality({n \in O : IsPath(n)})
  /\ fr.cognitive = PointsIn(f, H) /\ fr.sensitive = Sensitive(H)
  /\ IsDeepest(f, fr.depth, O)
  /\ fr.ncss = Statements(S)
  /\ fr.ownNcss <=> f # 0 /\ NcssContribution(f) > 0
  /\ fr.entryNesting = Entry(f) /\ fr.entryStructural = Depth(f)

LEMMA BlocksDoNotMatter ==
  ASSUME NEW f, NEW fr, NEW H, NEW S, NEW O, FrameFits(f, fr, H, S, O), NEW bs, NEW op
  PROVE  FrameFits(f, [fr EXCEPT !.blocks = bs, !.open = op], H, S, O)
<1> DEFINE g == [fr EXCEPT !.blocks = bs, !.open = op]
<1>1. IsFrame(fr)
  BY DEF FrameFits
<1>2. /\ g.cyclomatic = fr.cyclomatic /\ g.cognitive = fr.cognitive /\ g.sensitive = fr.sensitive
      /\ g.depth = fr.depth /\ g.ncss = fr.ncss /\ g.ownNcss = fr.ownNcss
      /\ g.entryNesting = fr.entryNesting /\ g.entryStructural = fr.entryStructural
      /\ IsFrame(g)
  BY <1>1 DEF IsFrame, FrameFields
<1> HIDE DEF g
<1>3. FrameFits(f, g, H, S, O)
  BY <1>2 DEF FrameFits
<1> QED  BY <1>3 DEF g

LEMMA BlockOpenedFits ==
  ASSUME NEW f, NEW fr, NEW H, NEW S, NEW O, FrameFits(f, fr, H, S, O), NEW n
  PROVE  FrameFits(f, WithBlockOpened(fr, n), H, S, O)
<1> DEFINE op == Append(fr.open, [node |-> n, cognitive |-> fr.cognitive, sensitive |-> fr.sensitive])
<1>1. IsFrame(fr)
  BY DEF FrameFits
<1>2. WithBlockOpened(fr, n) = [fr EXCEPT !.blocks = fr.blocks, !.open = op]
  BY <1>1 DEF WithBlockOpened, IsFrame, FrameFields
<1>3. FrameFits(f, [fr EXCEPT !.blocks = fr.blocks, !.open = op], H, S, O)
  BY BlocksDoNotMatter
<1> QED  BY <1>2, <1>3

LEMMA BlockClosedFits ==
  ASSUME NEW f, NEW fr, NEW H, NEW S, NEW O, FrameFits(f, fr, H, S, O), NEW n
  PROVE  FrameFits(f, WithBlockClosed(fr, n), H, S, O)
<1> DEFINE open == Last(fr.open)
           block == [node |-> n, named |-> n \in functionNames,
                     cognitive |-> fr.cognitive - open.cognitive,
                     sensitive |-> fr.sensitive - open.sensitive]
           bs == fr.blocks \cup IF block.cognitive = 0 THEN {} ELSE {block}
           op == Front(fr.open)
<1>1. IsFrame(fr)
  BY DEF FrameFits
<1>2. WithBlockClosed(fr, n) = fr \/ WithBlockClosed(fr, n) = [fr EXCEPT !.open = op, !.blocks = bs]
  BY DEF WithBlockClosed
<1> HIDE DEF bs, op
<1>3. [fr EXCEPT !.open = op, !.blocks = bs] = [fr EXCEPT !.blocks = bs, !.open = op]
  BY <1>1 DEF IsFrame, FrameFields
<1>4. FrameFits(f, [fr EXCEPT !.blocks = bs, !.open = op], H, S, O)
  BY BlocksDoNotMatter
<1> QED  BY <1>2, <1>3, <1>4

LEMMA MaxOfTwo ==
  ASSUME NEW a \in Nat, NEW b \in Nat
  PROVE  Max({a, b}) = IF a <= b THEN b ELSE a
<1> DEFINE S == {a, b}
<1>1. S \subseteq Nat /\ S # {} /\ IsFiniteSet(S)
  <2>1. IsFiniteSet({a})
    BY FS_Singleton
  <2> DEFINE A == {a}
  <2>2. S = A \cup {b}
    OBVIOUS
  <2> HIDE DEF A, S
  <2>3. IsFiniteSet(A \cup {b})
    BY <2>1, FS_AddElement DEF A
  <2> QED  BY <2>2, <2>3 DEF S
<1> HIDE DEF S
<1>2. Max(S) \in S /\ Max(S) \in Nat /\ \A x \in S : x <= Max(S)
  BY <1>1, MaxIsGreatest
<1> QED  BY <1>2 DEF S

LEMMA ChargedFits ==
  ASSUME IsTree(tree), NEW f \in 0..Size, NEW n \in Subtree(f) \ {f},
         NEW fr, NEW H, NEW S, NEW O, FrameFits(f, fr, H, S, O),
         n \notin H, n \notin O, O \subseteq Nodes, NEW own \in BOOLEAN,
         NEW level, level = Depth(Parent(n)) + Bonus(n) - fr.entryNesting,
         NEW depth, depth = Depth(n) - fr.entryStructural
  PROVE  FrameFits(f, Charged(fr, n, level, own, depth), H \cup {n}, S, IF own THEN O \cup {n} ELSE O)
<1> DEFINE g == Charged(fr, n, level, own, depth)
           P == IF own THEN O \cup {n} ELSE O
<1>1. n \in Nodes
  BY WayDown
<1>2. /\ IsFrame(fr) /\ fr.cyclomatic = 1 + Cardinality({k \in O : IsPath(k)})
      /\ fr.cognitive = PointsIn(f, H) /\ fr.sensitive = Sensitive(H)
      /\ IsDeepest(f, fr.depth, O) /\ fr.ncss = Statements(S)
      /\ fr.ownNcss <=> f # 0 /\ NcssContribution(f) > 0
      /\ fr.entryNesting = Entry(f) /\ fr.entryStructural = Depth(f)
  BY DEF FrameFits
<1>3. /\ IsFrame(g) /\ g.cyclomatic = fr.cyclomatic + One(IsPath(n) /\ own)
      /\ g.cognitive = fr.cognitive + FlatPoints(n) + NestedPoints(n) * (1 + level)
      /\ g.sensitive = fr.sensitive + NestedPoints(n)
      /\ g.depth = (IF own THEN Max({fr.depth, depth}) ELSE fr.depth)
      /\ g.ncss = fr.ncss /\ g.ownNcss = fr.ownNcss
      /\ g.entryNesting = fr.entryNesting /\ g.entryStructural = fr.entryStructural
  <2> DEFINE v == fr.cyclomatic + One(IsPath(n) /\ own)
             w == fr.cognitive + FlatPoints(n) + NestedPoints(n) * (1 + level)
             x == fr.sensitive + NestedPoints(n)
             y == IF own THEN Max({fr.depth, depth}) ELSE fr.depth
  <2>1. g = [fr EXCEPT !.cyclomatic = v, !.cognitive = w, !.sensitive = x, !.depth = y]
    BY DEF Charged
  <2> HIDE DEF g, v, w, x, y
  <2>2. /\ IsFrame(g) /\ g.cyclomatic = v /\ g.cognitive = w /\ g.sensitive = x /\ g.depth = y
        /\ g.ncss = fr.ncss /\ g.ownNcss = fr.ownNcss
        /\ g.entryNesting = fr.entryNesting /\ g.entryStructural = fr.entryStructural
    BY <1>2, <2>1 DEF IsFrame, FrameFields
  <2> QED  BY <2>2 DEF v, w, x, y
<1> HIDE DEF g
<1>4. level = Levels(f, n) /\ depth = NestedIn(f, n)
  BY <1>2, LevelsAre, DepthsAre DEF NestedIn
<1>5. g.cyclomatic = 1 + Cardinality({k \in P : IsPath(k)})
  <2> DEFINE A == {k \in O : IsPath(k)}
             B == {k \in P : IsPath(k)}
             o == One(IsPath(n) /\ own)
  <2>1. IsFiniteSet(A) /\ Cardinality(A) \in Nat /\ n \notin A
    BY NodesAreFinite
  <2>2. IsPath(n) /\ own => B = A \cup {n} /\ o = 1
    BY DEF One
  <2>3. ~(IsPath(n) /\ own) => B = A /\ o = 0
    BY DEF One
  <2>4. fr.cyclomatic = 1 + Cardinality(A) /\ g.cyclomatic = fr.cyclomatic + o
    BY <1>2, <1>3
  <2> HIDE DEF A, B, o
  <2>5. Cardinality(A \cup {n}) = Cardinality(A) + 1
    BY <2>1, FS_AddElement
  <2>6. g.cyclomatic = 1 + Cardinality(B)
    <3>1. CASE IsPath(n) /\ own
      <4>1. Cardinality(B) = Cardinality(A) + 1 /\ o = 1
        BY <2>2, <2>5, <3>1
      <4> QED  BY <2>1, <2>4, <4>1
    <3>2. CASE ~(IsPath(n) /\ own)
      <4>1. Cardinality(B) = Cardinality(A) /\ o = 0
        BY <2>3, <3>2
      <4> QED  BY <2>1, <2>4, <4>1
    <3> QED  BY <3>1, <3>2
  <2> QED  BY <2>6 DEF B
<1>6. g.cognitive = PointsIn(f, H \cup {n}) /\ g.sensitive = Sensitive(H \cup {n})
  <2>1. PointsIn(f, H \cup {n}) = PointsIn(f, H) + Points(f, n)
    BY <1>1, TotalsWithOne
  <2>2. Sensitive(H \cup {n}) = Sensitive(H) + NestedPoints(n)
    BY <1>1, TotalsWithOne
  <2>3. Points(f, n) = FlatPoints(n) + NestedPoints(n) * (1 + Levels(f, n))
    BY DEF Points
  <2>4. FlatPoints(n) \in Nat /\ NestedPoints(n) \in Nat /\ Points(f, n) \in Nat /\ PointsIn(f, H) \in Int
    BY <1>1, NodesAreWorthNumbers, PointsAreNumbers, TotalsAreNumbers
  <2> DEFINE x == NestedPoints(n) * (1 + Levels(f, n))
  <2>5. x \in Int
    <3>1. Levels(f, n) \in Nat
      BY <1>1, PointsAreNumbers
    <3> DEFINE l == 1 + Levels(f, n)
    <3>2. l \in Nat
      BY <3>1
    <3> HIDE DEF l
    <3>3. NestedPoints(n) * l \in Int
      BY <2>4, <3>2
    <3> QED  BY <3>3 DEF l
  <2>6. g.cognitive = PointsIn(f, H) + FlatPoints(n) + x
    BY <1>2, <1>3, <1>4
  <2>7. Points(f, n) = FlatPoints(n) + x
    BY <2>3
  <2> HIDE DEF x
  <2>8. g.cognitive = PointsIn(f, H \cup {n})
    BY <2>1, <2>4, <2>5, <2>6, <2>7
  <2> QED  BY <1>2, <1>3, <2>2, <2>8
<1>7. IsDeepest(f, g.depth, P)
  <2>1. fr.depth \in Nat /\ depth \in Nat /\ \A k \in O : NestedIn(f, k) \in Nat
    <3>1. ASSUME NEW k \in Nodes PROVE NestedIn(f, k) \in Nat
      <4>1. Path(f, k) \subseteq Nodes
        <5>1. Up(k) = Up(Parent(k)) \cup {k} /\ Ancestors(k) = Up(Parent(k))
          BY UpFromParent
        <5> QED  BY <5>1 DEF Path, Up
      <4>2. {j \in Path(f, k) : IsNesting(j)} \subseteq Nodes
        BY <4>1
      <4> QED  BY <4>2, NodesAreFinite DEF NestedIn
    <3>2. \A k \in O : NestedIn(f, k) \in Nat
      BY <3>1
    <3>3. depth \in Nat
      BY <1>1, <1>4, <3>1
    <3>4. fr.depth \in DepthsOf(f, O)
      BY <1>2 DEF IsDeepest
    <3>5. fr.depth \in Nat
      BY <3>2, <3>4 DEF DepthsOf
    <3> QED  BY <3>2, <3>3, <3>5
  <2>2. CASE own
    <3>1. DepthsOf(f, P) = DepthsOf(f, O) \cup {depth}
      BY <1>4, <2>2 DEF DepthsOf
    <3>2. g.depth = IF fr.depth <= depth THEN depth ELSE fr.depth
      BY <1>3, <2>1, <2>2, MaxOfTwo
    <3>3. \A x \in DepthsOf(f, O) : x \in Nat
      BY <2>1 DEF DepthsOf
    <3>4. fr.depth \in DepthsOf(f, O) /\ \A x \in DepthsOf(f, O) : x <= fr.depth
      BY <1>2 DEF IsDeepest
    <3> HIDE DEF P
    <3> QED  BY <2>1, <3>1, <3>2, <3>3, <3>4 DEF IsDeepest
  <2>3. CASE ~own
    BY <1>2, <1>3, <2>3
  <2> QED  BY <2>2, <2>3
<1> HIDE DEF P
<1>8. FrameFits(f, g, H \cup {n}, S, P)
  BY <1>2, <1>3, <1>5, <1>6, <1>7 DEF FrameFits
<1> QED  BY <1>8 DEF g, P

LEMMA CountedFits ==
  ASSUME IsTree(tree), NEW f, NEW fr, NEW H, NEW S, NEW O, FrameFits(f, fr, H, S, O),
         NEW n \in Nodes, n \notin S
  PROVE  FrameFits(f, Counted(fr, n, FALSE), H, S \cup {n}, O)
<1> DEFINE g == Counted(fr, n, FALSE)
<1>1. IsFrame(fr) /\ fr.ncss = Statements(S)
  BY DEF FrameFits
<1>2. /\ IsFrame(g) /\ g.cyclomatic = fr.cyclomatic /\ g.cognitive = fr.cognitive
      /\ g.sensitive = fr.sensitive /\ g.depth = fr.depth /\ g.ncss = fr.ncss + NcssContribution(n)
      /\ (g.ownNcss <=> fr.ownNcss)
      /\ g.entryNesting = fr.entryNesting /\ g.entryStructural = fr.entryStructural
  <2> DEFINE x == fr.ncss + NcssContribution(n)
             y == fr.ownNcss \/ (FALSE /\ NcssContribution(n) > 0)
  <2>1. g = [fr EXCEPT !.ncss = x, !.ownNcss = y]
    BY DEF Counted
  <2>2. y <=> fr.ownNcss
    OBVIOUS
  <2> HIDE DEF g, x, y
  <2>3. /\ IsFrame(g) /\ g.cyclomatic = fr.cyclomatic /\ g.cognitive = fr.cognitive
        /\ g.sensitive = fr.sensitive /\ g.depth = fr.depth /\ g.ncss = x /\ g.ownNcss = y
        /\ g.entryNesting = fr.entryNesting /\ g.entryStructural = fr.entryStructural
    BY <1>1, <2>1 DEF IsFrame, FrameFields
  <2>4. g.ownNcss <=> fr.ownNcss
    BY <2>2, <2>3
  <2> QED  BY <2>3, <2>4 DEF x
<1> HIDE DEF g
<1>3. Statements(S \cup {n}) = Statements(S) + NcssContribution(n)
  BY TotalsWithOne
<1>4. FrameFits(f, g, H, S \cup {n}, O)
  BY <1>1, <1>2, <1>3 DEF FrameFits
<1> QED  BY <1>4 DEF g

LEMMA NewFrameFits ==
  ASSUME IsTree(tree), NEW f \in Nodes
  PROVE  FrameFits(f, Counted(Frame(Entry(f), Depth(f)), f, TRUE), {}, {f}, {})
<1> DEFINE fr == Frame(Entry(f), Depth(f))
           g == Counted(fr, f, TRUE)
<1>1. /\ IsFrame(g) /\ g.cyclomatic = 1 /\ g.cognitive = 0 /\ g.sensitive = 0 /\ g.depth = 0
      /\ g.ncss = 0 + NcssContribution(f) /\ (g.ownNcss <=> NcssContribution(f) > 0)
      /\ g.entryNesting = Entry(f) /\ g.entryStructural = Depth(f)
  <2> DEFINE x == fr.ncss + NcssContribution(f)
             y == fr.ownNcss \/ (TRUE /\ NcssContribution(f) > 0)
  <2>1. g = [fr EXCEPT !.ncss = x, !.ownNcss = y]
    BY DEF Counted
  <2>2. /\ IsFrame(fr) /\ fr.cyclomatic = 1 /\ fr.cognitive = 0 /\ fr.sensitive = 0 /\ fr.depth = 0
        /\ fr.ncss = 0 /\ fr.entryNesting = Entry(f) /\ fr.entryStructural = Depth(f)
    BY DEF Frame, IsFrame, FrameFields
  <2>3. ~fr.ownNcss
    BY DEF Frame
  <2>4. y <=> NcssContribution(f) > 0
    BY <2>3
  <2> HIDE DEF fr, g, x, y
  <2>5. /\ IsFrame(g) /\ g.cyclomatic = fr.cyclomatic /\ g.cognitive = fr.cognitive
        /\ g.sensitive = fr.sensitive /\ g.depth = fr.depth /\ g.ncss = x /\ g.ownNcss = y
        /\ g.entryNesting = fr.entryNesting /\ g.entryStructural = fr.entryStructural
    BY <2>1, <2>2 DEF IsFrame, FrameFields
  <2>6. g.ownNcss <=> NcssContribution(f) > 0
    BY <2>4, <2>5
  <2> QED  BY <2>2, <2>5, <2>6 DEF x
<1> HIDE DEF g
<1>2. PointsIn(f, {}) = 0 /\ Sensitive({}) = 0 /\ Statements({}) = 0
  BY TotalsOfNone
<1>3. Statements({f}) = 0 + NcssContribution(f)
  <2>1. Statements({} \cup {f}) = Statements({}) + NcssContribution(f)
    BY TotalsWithOne
  <2>2. {} \cup {f} = {f}
    OBVIOUS
  <2> QED  BY <1>2, <2>1, <2>2
<1>4. f # 0
  BY TreeNumbers
<1>5. 1 = 1 + Cardinality({n \in {} : IsPath(n)})
  <2>1. {n \in {} : IsPath(n)} = {}
    OBVIOUS
  <2> QED  BY <2>1, FS_EmptySet
<1>6. IsDeepest(f, 0, {})
  BY DEF IsDeepest, DepthsOf
<1>7. FrameFits(f, g, {}, {f}, {})
  BY <1>1, <1>2, <1>3, <1>4, <1>5, <1>6 DEF FrameFits
<1> QED  BY <1>7 DEF g

LEMMA FileFrameFits ==
  ASSUME IsTree(tree)
  PROVE  FrameFits(0, Frame(0, 0), {}, {}, {})
<1> DEFINE g == Frame(0, 0)
<1>1. /\ g.cyclomatic = 1 /\ g.cognitive = 0 /\ g.sensitive = 0 /\ g.depth = 0 /\ g.ncss = 0
      /\ ~g.ownNcss /\ g.entryNesting = 0 /\ g.entryStructural = 0 /\ IsFrame(g)
  BY DEF Frame, IsFrame, FrameFields
<1> HIDE DEF g
<1>2. PointsIn(0, {}) = 0 /\ Sensitive({}) = 0 /\ Statements({}) = 0
  BY TotalsOfNone
<1>3. 1 = 1 + Cardinality({n \in {} : IsPath(n)})
  <2>1. {n \in {} : IsPath(n)} = {}
    OBVIOUS
  <2> QED  BY <2>1, FS_EmptySet
<1>4. IsDeepest(0, 0, {})
  BY DEF IsDeepest, DepthsOf
<1>5. Entry(0) = 0 /\ Depth(0) = 0
  BY LevelsAboveTheRoot
<1>6. FrameFits(0, g, {}, {}, {})
  BY <1>1, <1>2, <1>3, <1>4, <1>5 DEF FrameFits
<1> QED  BY <1>6 DEF g

(* A closed function's frame, added to the one around it.                  *)
LEMMA HoistedFits ==
  ASSUME IsTree(tree), NEW p \in 0..Size, NEW f \in Subtree(p) \ {p},
         NEW closed, NEW Oc, FrameFits(f, closed, Subtree(f) \ {f}, Subtree(f), Oc),
         NEW parent, NEW H, NEW S, NEW O, FrameFits(p, parent, H, S, O),
         H \cap (Subtree(f) \ {f}) = {}, S \cap Subtree(f) = {}
  PROVE  FrameFits(p, Hoisted(closed, parent), H \cup (Subtree(f) \ {f}), S \cup Subtree(f), O)
<1> DEFINE X == Subtree(f) \ {f}
           g == Hoisted(closed, parent)
           a == parent.cognitive + closed.cognitive
                  + closed.sensitive * (closed.entryNesting - parent.entryNesting)
           b == parent.sensitive + closed.sensitive
           c == parent.ncss + closed.ncss
           d == parent.blocks \cup IF parent.open = <<>> THEN {}
                ELSE Rebased(closed.blocks, closed.entryNesting - parent.entryNesting)
<1>1. /\ closed.cognitive = PointsIn(f, X) /\ closed.sensitive = Sensitive(X)
      /\ closed.ncss = Statements(Subtree(f)) /\ closed.entryNesting = Entry(f)
  BY DEF FrameFits
<1>2. /\ parent.cognitive = PointsIn(p, H) /\ parent.sensitive = Sensitive(H)
      /\ parent.ncss = Statements(S) /\ parent.entryNesting = Entry(p)
  BY DEF FrameFits
<1>3. /\ IsFrame(parent) /\ parent.cyclomatic = 1 + Cardinality({n \in O : IsPath(n)})
      /\ IsDeepest(p, parent.depth, O) /\ (parent.ownNcss <=> p # 0 /\ NcssContribution(p) > 0)
      /\ parent.entryStructural = Depth(p)
  BY DEF FrameFits
<1>4. g = [parent EXCEPT !.cognitive = a, !.sensitive = b, !.ncss = c, !.blocks = d]
  BY DEF Hoisted
<1>5. PointsIn(p, X) = PointsIn(f, X) + Sensitive(X) * (Entry(f) - Entry(p))
  BY PointsShift
<1>6. H \cap X = {}
  OBVIOUS
<1> HIDE DEF X
<1>7. PointsIn(p, H \cup X) = PointsIn(p, H) + PointsIn(p, X) /\ Sensitive(H \cup X) = Sensitive(H) + Sensitive(X)
  <2>1. /\ \A q : PointsIn(q, H \cup X) = PointsIn(q, H) + PointsIn(q, X)
        /\ Sensitive(H \cup X) = Sensitive(H) + Sensitive(X)
    BY <1>6, TotalsOfUnion
  <2> QED  BY <2>1
<1>8. Statements(S \cup Subtree(f)) = Statements(S) + Statements(Subtree(f))
  BY TotalsOfUnion
<1>9. /\ PointsIn(p, H) \in Int /\ PointsIn(p, X) \in Int /\ PointsIn(f, X) \in Int
      /\ Sensitive(X) \in Int /\ Sensitive(H) \in Int
  BY TotalsAreNumbers
<1>10. a = PointsIn(p, H \cup X)
  <2>1. Entry(f) \in Nat /\ Entry(p) \in Nat
    BY LevelsAreNumbers
  <2> DEFINE e == Entry(f) - Entry(p)
             s == Sensitive(X)
  <2>2. e \in Int
    BY <2>1
  <2>3. a = PointsIn(p, H) + PointsIn(f, X) + s * e
    BY <1>1, <1>2
  <2>4. PointsIn(p, X) = PointsIn(f, X) + s * e
    BY <1>5
  <2>5. s \in Int
    BY <1>9
  <2> HIDE DEF e, s, a
  <2>6. s * e \in Int
    BY <2>2, <2>5
  <2> QED  BY <1>7, <1>9, <2>3, <2>4, <2>6
<1>11. b = Sensitive(H \cup X) /\ c = Statements(S \cup Subtree(f))
  BY <1>1, <1>2, <1>7, <1>8
<1> HIDE DEF g, a, b, c, d
<1>12. /\ IsFrame(g) /\ g.cyclomatic = parent.cyclomatic /\ g.cognitive = a /\ g.sensitive = b
       /\ g.depth = parent.depth /\ g.ncss = c /\ g.ownNcss = parent.ownNcss
       /\ g.entryNesting = parent.entryNesting /\ g.entryStructural = parent.entryStructural
  BY <1>3, <1>4 DEF IsFrame, FrameFields
<1>13. FrameFits(p, g, H \cup X, S \cup Subtree(f), O)
  BY <1>2, <1>3, <1>10, <1>11, <1>12 DEF FrameFits
<1> QED  BY <1>13 DEF g, X

(* What a walk of its own would find for f. *)
Alone(f, r) ==
  /\ r.cyclomatic = 1 + Cardinality({n \in OwnBody(f) : IsPath(n)})
  /\ r.cognitive = PointsIn(f, Subtree(f) \ {f})
  /\ r.depth = Max({0} \cup {Cardinality({k \in Path(f, n) : IsNesting(k)}) : n \in OwnBody(f)})
  /\ r.ncss = Statements(Subtree(f)) + One(NcssContribution(f) = 0)

LEMMA DeepestIsMax ==
  ASSUME NEW S, NEW d \in S, \A x \in S : x \in Nat, \A x \in S : x <= d
  PROVE  d = Max(S)
<1>1. \A y \in S : d >= y
  OBVIOUS
<1>2. Max(S) \in S /\ \A y \in S : Max(S) >= y
  BY <1>1 DEF Max
<1>3. d \in Nat /\ Max(S) \in Nat /\ Max(S) >= d /\ Max(S) <= d
  BY <1>2
<1> QED  BY <1>3

LEMMA NestedInIsANumber ==
  ASSUME IsTree(tree), NEW f, NEW n \in Nodes PROVE NestedIn(f, n) \in Nat
<1>1. Path(f, n) \subseteq Nodes
  <2>1. Up(n) = Up(Parent(n)) \cup {n} /\ Ancestors(n) = Up(Parent(n))
    BY UpFromParent
  <2> QED  BY <2>1 DEF Path, Up
<1>2. {j \in Path(f, n) : IsNesting(j)} \subseteq Nodes
  BY <1>1
<1> QED  BY <1>2, NodesAreFinite DEF NestedIn

LEMMA ClosedIsAlone ==
  ASSUME IsTree(tree), NEW f \in Nodes,
         NEW fr, FrameFits(f, fr, Subtree(f) \ {f}, Subtree(f), OwnBody(f))
  PROVE  Alone(f, Metrics(fr))
<1> DEFINE r == Metrics(fr)
<1>1. /\ r.cyclomatic = fr.cyclomatic /\ r.cognitive = fr.cognitive /\ r.depth = fr.depth
      /\ r.ncss = fr.ncss + One(~fr.ownNcss)
  BY DEF Metrics
<1> HIDE DEF r
<1>2. /\ fr.cyclomatic = 1 + Cardinality({n \in OwnBody(f) : IsPath(n)})
      /\ fr.cognitive = PointsIn(f, Subtree(f) \ {f}) /\ IsDeepest(f, fr.depth, OwnBody(f))
      /\ fr.ncss = Statements(Subtree(f)) /\ (fr.ownNcss <=> f # 0 /\ NcssContribution(f) > 0)
  BY DEF FrameFits
<1>3. f # 0 /\ NcssContribution(f) \in Nat /\ f \in 0..Size
  BY TreeNumbers, NodesAreWorthNumbers
<1>4. One(~fr.ownNcss) = One(NcssContribution(f) = 0)
  <2>1. ~fr.ownNcss <=> NcssContribution(f) = 0
    BY <1>2, <1>3
  <2> QED  BY <2>1 DEF One
<1>5. fr.depth = Max(DepthsOf(f, OwnBody(f)))
  <2>1. \A n \in OwnBody(f) : n \in Nodes
    BY <1>3, WayDown DEF OwnBody
  <2>2. \A x \in DepthsOf(f, OwnBody(f)) : x \in Nat
    BY <2>1, NestedInIsANumber DEF DepthsOf
  <2> QED  BY <1>2, <2>2, DeepestIsMax DEF IsDeepest
<1>6. Alone(f, r)
  BY <1>1, <1>2, <1>4, <1>5 DEF Alone, DepthsOf, NestedIn
<1> QED  BY <1>6 DEF r

-----------------------------------------------------------------------------
(* Who holds what.  Each node seen is held by the innermost open function  *)
(* around it, the file's own frame being 0's; a closed function's nodes by *)
(* the one around it.                                                      *)

Owners(open) == {0} \cup (open \cap Boundaries)
Held(f, seen, open) ==
  {m \in seen \cap (Subtree(f) \ {f}) : \A g \in open \cap Boundaries : g > f => m \notin Subtree(g) \ {g}}
HeldStatements(f, seen, open) ==
  {m \in seen \cap Subtree(f) : \A g \in open \cap Boundaries : g > f => m \notin Subtree(g)}

LEMMA OwnersHold ==
  ASSUME IsTree(tree), NEW n \in Nodes, NEW f \in Owners(Up(Parent(n)))
  PROVE  /\ f \in 0..Size /\ f < n /\ n \in Subtree(f) \ {f} /\ f \notin Subtree(n)
         /\ Subtree(n) \subseteq Subtree(f) \ {f}
         /\ f = 0 \/ f \in Up(Parent(n)) \cap Boundaries
<1>1. Size \in Nat /\ Nodes = 1..Size /\ n \in 1..Size
  BY TreeNumbers
<1>2. f = 0 \/ f \in Up(Parent(n)) \cap Boundaries
  BY DEF Owners
<1>3. f \in 0..Size /\ f < n
  <2>1. CASE f = 0
    BY <1>1, <2>1
  <2>2. CASE f \in Up(Parent(n))
    <3>1. f \in Up(n) /\ f # n /\ Up(n) \subseteq 1..n
      BY <2>2, UpFromParent
    <3>2. f \in 1..n
      BY <3>1
    <3> QED  BY <1>1, <3>1, <3>2
  <2> QED  BY <1>2, <2>1, <2>2
<1>4. n \in Subtree(f)
  <2>1. CASE f = 0
    <3>1. n \in 0..Size /\ \A k \in (0 + 1)..n : Parent(k) >= 0
      <4>1. \A k \in 1..n : k \in Nodes
        BY <1>1
      <4>2. \A k \in 1..n : Parent(k) \in Nat
        BY <4>1, TreeNumbers
      <4> QED  BY <1>1, <4>2
    <3>2. n \in f..Size /\ \A k \in (f + 1)..n : Parent(k) >= f
      BY <2>1, <3>1
    <3> QED  BY <1>3, <3>2, InSubtree
  <2>2. CASE f \in Up(Parent(n))
    <3>1. f \in Up(n)
      BY <2>2, UpFromParent
    <3> QED  BY <3>1, UpIs
  <2> QED  BY <1>2, <2>1, <2>2
<1>5. f \notin Subtree(n)
  <2>1. Subtree(n) \subseteq n..Size
    BY <1>1, SubtreesNest
  <2> QED  BY <1>1, <1>3, <2>1
<1>6. Subtree(n) \subseteq Subtree(f)
  BY <1>3, <1>4, SubtreesNest
<1> QED  BY <1>1, <1>2, <1>3, <1>4, <1>5, <1>6

IsInnermost(top, n) ==
  top \in Owners(Up(Parent(n))) /\ \A g \in Owners(Up(Parent(n))) : g <= top
SameSets(f, seen, open, seenNow, openNow) ==
  /\ Held(f, seenNow, openNow) = Held(f, seen, open)
  /\ HeldStatements(f, seenNow, openNow) = HeldStatements(f, seen, open)
  /\ OwnBody(f) \cap seenNow = OwnBody(f) \cap seen
TakesNode(f, seen, n) ==
  /\ Held(f, seen \cup {n}, Up(n)) = Held(f, seen, Up(Parent(n))) \cup {n}
  /\ n \notin Boundaries =>
       HeldStatements(f, seen \cup {n}, Up(n)) = HeldStatements(f, seen, Up(Parent(n))) \cup {n}
  /\ n \in Boundaries =>
       HeldStatements(f, seen \cup {n}, Up(n)) = HeldStatements(f, seen, Up(Parent(n)))
  /\ n \notin Boundaries /\ ~Region(n) =>
       OwnBody(f) \cap (seen \cup {n}) = (OwnBody(f) \cap seen) \cup {n}
  /\ n \in Boundaries \/ Region(n) => OwnBody(f) \cap (seen \cup {n}) = OwnBody(f) \cap seen

LEMMA HeldAtVisit ==
  ASSUME IsTree(tree), NEW n \in Nodes, NEW seen, seen \subseteq Nodes, Subtree(n) \cap seen = {},
         NEW f, f \in Owners(Up(Parent(n))), NEW top, IsInnermost(top, n)
  PROVE  /\ f = top => TakesNode(f, seen, n)
         /\ f # top => SameSets(f, seen, Up(Parent(n)), seen \cup {n}, Up(n))
<1>0. top \in Owners(Up(Parent(n))) /\ \A g \in Owners(Up(Parent(n))) : g <= top
  BY DEF IsInnermost
<1> DEFINE open == Up(Parent(n))
           B == open \cap Boundaries
           A == Up(n) \cap Boundaries
<1>1. \A g \in Owners(open) : g \in 0..Size /\ n \in Subtree(g) \ {g} /\ g \notin Subtree(n) /\ g < n
  BY OwnersHold
<1>2. \A g \in B : g \in Owners(open)
  BY DEF Owners
<1>3. Up(n) = open \cup {n}
  BY UpFromParent
<1>4. n \in Subtree(n) /\ n \in 0..Size /\ n \notin seen /\ n \in Nat
  <2>1. n \in 0..Size /\ n \in Nat
    BY TreeNumbers
  <2> QED  BY <2>1, SubtreesNest
<1>5. \A m \in seen : m \notin Subtree(n)
  OBVIOUS
<1>6. f = top \/ \E g \in B : g > f
  <2>1. f <= top /\ f \in 0..Size /\ top \in 0..Size
    BY <1>0, <1>1
  <2>2. f # top => top > f /\ top # 0
    BY <2>1
  <2> QED  BY <1>0, <2>2 DEF Owners
<1>7. f = top => \A g \in B : ~(g > f)
  BY <1>0, <1>1, <1>2
<1>8. \A g : g \in A <=> g \in B \/ (g = n /\ n \in Boundaries)
  BY <1>3
<1>9. \A g \in B : n \in Subtree(g) \ {g}
  BY <1>0, <1>1, <1>2
<1> HIDE DEF A, B
<1>10. Held(f, seen \cup {n}, Up(n)) = Held(f, seen, open) \cup IF f = top THEN {n} ELSE {}
  <2>1. \A m : m \in Held(f, seen \cup {n}, Up(n)) <=>
          /\ m \in seen \cup {n} /\ m \in Subtree(f) \ {f}
          /\ \A g \in A : g > f => m \notin Subtree(g) \ {g}
    BY DEF Held, A
  <2>2. \A m : m \in Held(f, seen, open) <=>
          m \in seen /\ m \in Subtree(f) \ {f} /\ \A g \in B : g > f => m \notin Subtree(g) \ {g}
    BY DEF Held, B
  <2>3. ASSUME NEW m \in seen PROVE m \in Held(f, seen \cup {n}, Up(n)) <=> m \in Held(f, seen, open)
    BY <1>5, <1>8, <2>1, <2>2
  <2>4. n \in Held(f, seen \cup {n}, Up(n)) <=> f = top
    BY <1>1, <1>6, <1>7, <1>8, <1>9, <2>1
  <2>5. n \notin Held(f, seen, open)
    BY <1>4, <2>2
  <2>6. \A m : m \in Held(f, seen \cup {n}, Up(n)) \cup Held(f, seen, open) => m \in seen \/ m = n
    BY <2>1, <2>2
  <2> QED  BY <2>3, <2>4, <2>5, <2>6
<1>11. HeldStatements(f, seen \cup {n}, Up(n)) =
         HeldStatements(f, seen, open) \cup IF f = top /\ n \notin Boundaries THEN {n} ELSE {}
  <2>1. \A m : m \in HeldStatements(f, seen \cup {n}, Up(n)) <=>
          /\ m \in seen \cup {n} /\ m \in Subtree(f)
          /\ \A g \in A : g > f => m \notin Subtree(g)
    BY DEF HeldStatements, A
  <2>2. \A m : m \in HeldStatements(f, seen, open) <=>
          m \in seen /\ m \in Subtree(f) /\ \A g \in B : g > f => m \notin Subtree(g)
    BY DEF HeldStatements, B
  <2>3. ASSUME NEW m \in seen
        PROVE  m \in HeldStatements(f, seen \cup {n}, Up(n)) <=> m \in HeldStatements(f, seen, open)
    BY <1>5, <1>8, <2>1, <2>2
  <2>4. n \in Subtree(f) /\ f \in Int /\ n > f
    BY <1>1, <1>4
  <2>5. n \in HeldStatements(f, seen \cup {n}, Up(n)) <=> f = top /\ n \notin Boundaries
    BY <1>4, <1>6, <1>7, <1>8, <1>9, <2>1, <2>4
  <2>6. n \notin HeldStatements(f, seen, open)
    BY <1>4, <2>2
  <2>7. \A m : m \in HeldStatements(f, seen \cup {n}, Up(n)) \cup HeldStatements(f, seen, open)
                 => m \in seen \/ m = n
    BY <2>1, <2>2
  <2> QED  BY <2>3, <2>5, <2>6, <2>7
<1>12. n \in OwnBody(f) <=> f = top /\ n \notin Boundaries /\ ~Region(n)
  <2>1. f \in 0..Size /\ n \in Subtree(f) \ {f}
    BY <1>1
  <2>2. CASE f = top
    <3>1. \A g \in Up(Parent(n)) \cap Boundaries : g <= f
      BY <1>0, <2>2 DEF Owners
    <3>2. f = 0 \/ f \in Up(Parent(n)) \cap Boundaries
      BY DEF Owners
    <3> QED  BY <2>1, <2>2, <3>1, <3>2, OwnBodyIs
  <2>3. CASE f # top
    <3>1. PICK g \in B : g > f
      BY <1>6, <2>3
    <3>2. g \in Up(n) \cap Boundaries /\ f < g
      BY <1>1, <1>2, <1>3, <2>1, <3>1 DEF B
    <3> QED  BY <2>1, <2>3, <3>2, NotInOwnBody
  <2> QED  BY <2>2, <2>3
<1>13. f = top => Held(f, seen \cup {n}, Up(n)) = Held(f, seen, open) \cup {n}
  BY <1>10
<1>14. f # top => Held(f, seen \cup {n}, Up(n)) = Held(f, seen, open)
  BY <1>10
<1>15. f = top /\ n \notin Boundaries =>
         HeldStatements(f, seen \cup {n}, Up(n)) = HeldStatements(f, seen, open) \cup {n}
  BY <1>11
<1>16. f # top \/ n \in Boundaries =>
         HeldStatements(f, seen \cup {n}, Up(n)) = HeldStatements(f, seen, open)
  BY <1>11
<1>17. f = top /\ n \notin Boundaries /\ ~Region(n) =>
         OwnBody(f) \cap (seen \cup {n}) = (OwnBody(f) \cap seen) \cup {n}
  BY <1>12
<1>18. f # top \/ n \in Boundaries \/ Region(n) =>
         OwnBody(f) \cap (seen \cup {n}) = OwnBody(f) \cap seen
  BY <1>12
<1>19. f = top => TakesNode(f, seen, n)
  BY <1>13, <1>15, <1>16, <1>17, <1>18 DEF TakesNode
<1>20. f # top => SameSets(f, seen, Up(Parent(n)), seen \cup {n}, Up(n))
  BY <1>14, <1>16, <1>18 DEF SameSets
<1> QED  BY <1>19, <1>20

(* A function just opened holds its own statement.                         *)
LEMMA HeldAtOpening ==
  ASSUME IsTree(tree), NEW n \in Nodes, NEW seen, Subtree(n) \cap seen = {}
  PROVE  /\ Held(n, seen \cup {n}, Up(n)) = {} /\ HeldStatements(n, seen \cup {n}, Up(n)) = {n}
         /\ OwnBody(n) \cap (seen \cup {n}) = {}
<1>1. n \in Subtree(n) /\ n \in 0..Size /\ Up(n) \subseteq 1..n /\ n \in Nat
  <2>1. n \in 0..Size /\ n \in Nat
    BY TreeNumbers
  <2> QED  BY <2>1, SubtreesNest, UpFromParent
<1>2. \A g \in Up(n) : ~(g > n)
  BY <1>1
<1>3. OwnBody(n) \subseteq Subtree(n) \ {n}
  BY DEF OwnBody
<1>4. HeldStatements(n, seen \cup {n}, Up(n)) = {n}
  BY <1>1, <1>2 DEF HeldStatements
<1>5. Held(n, seen \cup {n}, Up(n)) = {}
  BY DEF Held
<1> QED  BY <1>3, <1>4, <1>5

TakesSubtree(f, seen, n) ==
  /\ Held(f, seen, Up(Parent(n))) = Held(f, seen, Up(n)) \cup (Subtree(n) \ {n})
  /\ HeldStatements(f, seen, Up(Parent(n))) = HeldStatements(f, seen, Up(n)) \cup Subtree(n)
  /\ Held(f, seen, Up(n)) \cap (Subtree(n) \ {n}) = {}
  /\ HeldStatements(f, seen, Up(n)) \cap Subtree(n) = {}

LEMMA HeldAtClosing ==
  ASSUME IsTree(tree), NEW n \in Boundaries, NEW seen, Subtree(n) \subseteq seen,
         NEW f, f \in Owners(Up(Parent(n))), NEW top, IsInnermost(top, n)
  PROVE  /\ f = top => TakesSubtree(f, seen, n)
         /\ f # top => SameSets(f, seen, Up(n), seen, Up(Parent(n)))
<1>0. top \in Owners(Up(Parent(n))) /\ \A g \in Owners(Up(Parent(n))) : g <= top
  BY DEF IsInnermost
<1> DEFINE open == Up(Parent(n))
           B == open \cap Boundaries
           A == Up(n) \cap Boundaries
<1>1. n \in Nodes
  BY KindsOfNodes
<1>2. \A g \in Owners(open) : /\ g \in 0..Size /\ n \in Subtree(g) \ {g} /\ g < n
                              /\ Subtree(n) \subseteq Subtree(g) \ {g}
  BY <1>1, OwnersHold
<1>3. \A g \in B : g \in Owners(open)
  BY DEF Owners
<1>4. Up(n) = open \cup {n}
  BY <1>1, UpFromParent
<1>5. n \in Nat
  BY <1>1, TreeNumbers
<1>6. f = top \/ \E g \in B : g > f
  <2>1. f <= top /\ f \in 0..Size /\ top \in 0..Size
    BY <1>0, <1>2
  <2>2. f # top => top > f /\ top # 0
    BY <2>1
  <2> QED  BY <1>0, <2>2 DEF Owners
<1>7. f = top => \A g \in B : ~(g > f)
  BY <1>0, <1>2, <1>3
<1>8. \A g : g \in A <=> g \in B \/ g = n
  BY <1>4
<1>9. \A g \in B : \A m \in Subtree(n) : m \in Subtree(g) \ {g}
  BY <1>2, <1>3
<1>10. n > f /\ \A m \in Subtree(n) : m \in Subtree(f) \ {f} /\ m \in seen
  BY <1>2, <1>5
<1> HIDE DEF A, B
<1>11. \A m : m \in Held(f, seen, Up(n)) <=>
         m \in seen /\ m \in Subtree(f) \ {f} /\ \A g \in A : g > f => m \notin Subtree(g) \ {g}
  BY DEF Held, A
<1>12. \A m : m \in Held(f, seen, open) <=>
         m \in seen /\ m \in Subtree(f) \ {f} /\ \A g \in B : g > f => m \notin Subtree(g) \ {g}
  BY DEF Held, B
<1>13. \A m : m \in HeldStatements(f, seen, Up(n)) <=>
         m \in seen /\ m \in Subtree(f) /\ \A g \in A : g > f => m \notin Subtree(g)
  BY DEF HeldStatements, A
<1>14. \A m : m \in HeldStatements(f, seen, open) <=>
         m \in seen /\ m \in Subtree(f) /\ \A g \in B : g > f => m \notin Subtree(g)
  BY DEF HeldStatements, B
<1>15. \A m : m \in Held(f, seen, Up(n)) <=> m \in Held(f, seen, open) /\ m \notin Subtree(n) \ {n}
  BY <1>8, <1>10, <1>11, <1>12
<1>16. \A m : m \in HeldStatements(f, seen, Up(n)) <=>
         m \in HeldStatements(f, seen, open) /\ m \notin Subtree(n)
  BY <1>8, <1>10, <1>13, <1>14
<1>17. \A m \in Subtree(n) : /\ m \in HeldStatements(f, seen, open) <=> f = top
                             /\ m \in Held(f, seen, open) <=> f = top
  BY <1>6, <1>7, <1>9, <1>10, <1>12, <1>14
<1>18. f = top => TakesSubtree(f, seen, n)
  BY <1>15, <1>16, <1>17 DEF TakesSubtree
<1>19. f # top => SameSets(f, seen, Up(n), seen, open)
  BY <1>15, <1>16, <1>17 DEF SameSets
<1> QED  BY <1>18, <1>19

(* A function about to close holds all that is in it.                      *)
LEMMA HeldAtTheEnd ==
  ASSUME IsTree(tree), NEW n \in Nodes, NEW seen, Subtree(n) \subseteq seen
  PROVE  /\ Held(n, seen, Up(n)) = Subtree(n) \ {n} /\ HeldStatements(n, seen, Up(n)) = Subtree(n)
         /\ OwnBody(n) \cap seen = OwnBody(n)
<1>1. n \in Nat /\ Up(n) \subseteq 1..n
  BY TreeNumbers, UpFromParent
<1>2. \A g \in Up(n) : ~(g > n)
  BY <1>1
<1>3. OwnBody(n) \subseteq Subtree(n)
  BY DEF OwnBody
<1>4. Held(n, seen, Up(n)) = Subtree(n) \ {n}
  BY <1>2 DEF Held
<1>5. HeldStatements(n, seen, Up(n)) = Subtree(n)
  BY <1>2 DEF HeldStatements
<1> QED  BY <1>3, <1>4, <1>5

-----------------------------------------------------------------------------
(* The walk's state.                                                       *)

IsList(s) == \E T : s \in Seq(T)

(* The open functions from outermost to innermost, with their frames.      *)
FramesFit(fs, frs, seen, open) ==
  /\ fs \in Seq(Nat) /\ Len(fs) >= 1 /\ fs[1] = 0
  /\ \A i, j \in 1..Len(fs) : i < j => fs[i] < fs[j]
  /\ \A g : g \in Owners(open) <=> \E i \in 1..Len(fs) : fs[i] = g
  /\ IsList(frs) /\ Len(frs) = Len(fs)
  /\ \A i \in 1..Len(fs) : FrameFits(fs[i], frs[i], Held(fs[i], seen, open),
                                     HeldStatements(fs[i], seen, open), OwnBody(fs[i]) \cap seen)

Measured(res, seen, open) ==
  DOMAIN res = (Boundaries \cap seen) \ open /\ \A f \in DOMAIN res : Alone(f, res[f])

(* Paths that class bodies keep from the functions around them.            *)
KeptByClasses(seen) == {m \in seen : m \notin Boundaries /\ IsPath(m) /\ Region(m)}

LEMMA FrontIs ==
  ASSUME NEW T, NEW s \in Seq(T), Len(s) >= 1
  PROVE  /\ Front(s) \in Seq(T) /\ Len(Front(s)) = Len(s) - 1
         /\ \A i \in 1..(Len(s) - 1) : Front(s)[i] = s[i]
<1> DEFINE k == Len(s) - 1
<1>1. Len(s) \in Nat /\ k \in 0..Len(s) /\ Len(s) = k + 1
  OBVIOUS
<1>2. Front(s) = SubSeq(s, 1, k)
  BY DEF Front
<1> HIDE DEF k
<1>3. SubSeq(s, 1, k) \in Seq(T) /\ Len(SubSeq(s, 1, k)) = k
  BY <1>1
<1>4. \A i \in 1..k : SubSeq(s, 1, k)[i] = s[i]
  BY <1>1
<1> QED  BY <1>2, <1>3, <1>4 DEF k

Replaces(t, s, e) ==
  /\ IsList(t) /\ Len(t) = Len(s) /\ t[Len(s)] = e
  /\ \A i \in 1..Len(s) : i # Len(s) => t[i] = s[i]
ReplacesAndAdds(t, s, e, d) ==
  /\ IsList(t) /\ Len(t) = Len(s) + 1 /\ t[Len(s)] = e /\ t[Len(s) + 1] = d
  /\ \A i \in 1..Len(s) : i # Len(s) => t[i] = s[i]

LEMMA Replaced ==
  ASSUME NEW s, IsList(s), Len(s) >= 1, NEW e
  PROVE  Replaces(Front(s) \o <<e>>, s, e)
<1>0. PICK T : s \in Seq(T)
  BY DEF IsList
<1> DEFINE t == Front(s) \o <<e>>
           l == Len(s)
<1>13. l \in Nat /\ l >= 1
  BY <1>0
<1> DEFINE a == Front(s)
           b == <<e>>
           U == T \cup {e}
<1>1. a \in Seq(T) /\ Len(a) = l - 1 /\ \A i \in 1..(l - 1) : a[i] = s[i]
  BY <1>0, <1>13, FrontIs
<1>2. b \in Seq(U) /\ Len(b) = 1 /\ b[1] = e
  OBVIOUS
<1>3. t = a \o b
  OBVIOUS
<1>4. T \subseteq U
  OBVIOUS
<1> HIDE DEF a, b, U, l
<1>5. a \in Seq(U)
  BY <1>1, <1>4
<1> DEFINE c == a \o b
<1>6. c \in Seq(U) /\ Len(c) = Len(a) + Len(b)
  <2>1. b \in Seq(U)
    BY <1>2
  <2> QED  BY <1>5, <2>1, ConcatProperties
<1>7. \A i \in 1..(Len(a) + Len(b)) : c[i] = IF i <= Len(a) THEN a[i] ELSE b[i - Len(a)]
  <2>1. b \in Seq(U)
    BY <1>2
  <2> QED  BY <1>5, <2>1, ConcatProperties
<1>8. t = c
  BY <1>3
<1> HIDE DEF c, t
<1>9. Len(c) = l
  BY <1>1, <1>2, <1>6, <1>13
<1>10. c[l] = e
  <2>1. l \in 1..(Len(a) + Len(b)) /\ ~(l <= Len(a)) /\ l - Len(a) = 1
    BY <1>1, <1>2, <1>13
  <2>2. c[l] = b[l - Len(a)]
    BY <1>7, <2>1
  <2> QED  BY <1>2, <2>1, <2>2
<1>11. ASSUME NEW i \in 1..l, i # l PROVE c[i] = s[i]
  <2>1. i \in 1..(Len(a) + Len(b)) /\ i <= Len(a) /\ i \in 1..(l - 1)
    BY <1>1, <1>2, <1>11, <1>13
  <2> QED  BY <1>1, <1>7, <2>1
<1>14. IsList(c)
  BY <1>6 DEF IsList
<1>15. Replaces(c, s, e)
  BY <1>9, <1>10, <1>11, <1>14 DEF Replaces, l
<1> QED  BY <1>8, <1>15 DEF t

LEMMA ReplacedAndAdded ==
  ASSUME NEW s, IsList(s), Len(s) >= 1, NEW e, NEW d
  PROVE  ReplacesAndAdds(Front(s) \o <<e, d>>, s, e, d)
<1>0. PICK T : s \in Seq(T)
  BY DEF IsList
<1> DEFINE t == Front(s) \o <<e, d>>
           l == Len(s)
<1>13. l \in Nat /\ l >= 1
  BY <1>0
<1> DEFINE a == Front(s)
           b == <<e, d>>
           U == T \cup {e, d}
<1>1. a \in Seq(T) /\ Len(a) = l - 1 /\ \A i \in 1..(l - 1) : a[i] = s[i]
  BY <1>0, <1>13, FrontIs
<1>2. b \in Seq(U) /\ Len(b) = 2 /\ b[1] = e /\ b[2] = d
  OBVIOUS
<1>3. t = a \o b
  OBVIOUS
<1>4. T \subseteq U
  OBVIOUS
<1> HIDE DEF a, b, U, l
<1>5. a \in Seq(U)
  BY <1>1, <1>4
<1> DEFINE c == a \o b
<1>6. c \in Seq(U) /\ Len(c) = Len(a) + Len(b)
  <2>1. b \in Seq(U)
    BY <1>2
  <2> QED  BY <1>5, <2>1, ConcatProperties
<1>7. \A i \in 1..(Len(a) + Len(b)) : c[i] = IF i <= Len(a) THEN a[i] ELSE b[i - Len(a)]
  <2>1. b \in Seq(U)
    BY <1>2
  <2> QED  BY <1>5, <2>1, ConcatProperties
<1>8. t = c
  BY <1>3
<1> HIDE DEF c, t
<1>9. Len(c) = l + 1
  BY <1>1, <1>2, <1>6, <1>13
<1>10. c[l] = e
  <2>1. l \in 1..(Len(a) + Len(b)) /\ ~(l <= Len(a)) /\ l - Len(a) = 1
    BY <1>1, <1>2, <1>13
  <2>2. c[l] = b[l - Len(a)]
    BY <1>7, <2>1
  <2> QED  BY <1>2, <2>1, <2>2
<1>11. ASSUME NEW i \in 1..l, i # l PROVE c[i] = s[i]
  <2>1. i \in 1..(Len(a) + Len(b)) /\ i <= Len(a) /\ i \in 1..(l - 1)
    BY <1>1, <1>2, <1>11, <1>13
  <2> QED  BY <1>1, <1>7, <2>1
<1>12. c[l + 1] = d
  <2>1. l + 1 \in 1..(Len(a) + Len(b)) /\ ~(l + 1 <= Len(a)) /\ (l + 1) - Len(a) = 2
    BY <1>1, <1>2, <1>13
  <2>2. c[l + 1] = b[(l + 1) - Len(a)]
    BY <1>7, <2>1
  <2> QED  BY <1>2, <2>1, <2>2
<1>14. IsList(c)
  BY <1>6 DEF IsList
<1>15. ReplacesAndAdds(c, s, e, d)
  BY <1>9, <1>10, <1>11, <1>12, <1>14 DEF ReplacesAndAdds, l
<1> QED  BY <1>8, <1>15 DEF t

LEMMA InnermostIsLast ==
  ASSUME NEW fs, NEW frs, NEW seen, NEW open, FramesFit(fs, frs, seen, open)
  PROVE  /\ Len(fs) \in Nat /\ Len(fs) >= 1 /\ fs[Len(fs)] \in Owners(open)
         /\ \A i \in 1..Len(fs) : fs[i] \in Nat /\ fs[i] \in Owners(open)
         /\ \A g \in Owners(open) : g <= fs[Len(fs)]
         /\ \A i \in 1..Len(fs) : fs[i] = fs[Len(fs)] => i = Len(fs)
<1>1. /\ fs \in Seq(Nat) /\ Len(fs) >= 1
      /\ \A i, j \in 1..Len(fs) : i < j => fs[i] < fs[j]
      /\ \A g : g \in Owners(open) <=> \E i \in 1..Len(fs) : fs[i] = g
  BY DEF FramesFit
<1>2. Len(fs) \in Nat /\ Len(fs) \in 1..Len(fs)
  BY <1>1
<1>3. \A i \in 1..Len(fs) : fs[i] \in Nat /\ fs[i] \in Owners(open)
  BY <1>1
<1>4. \A i \in 1..Len(fs) : i = Len(fs) \/ (i < Len(fs) /\ fs[i] < fs[Len(fs)])
  BY <1>1, <1>2
<1>5. \A i \in 1..Len(fs) : fs[i] <= fs[Len(fs)] /\ (fs[i] = fs[Len(fs)] => i = Len(fs))
  BY <1>2, <1>3, <1>4
<1>6. \A g \in Owners(open) : g <= fs[Len(fs)]
  <2> TAKE g \in Owners(open)
  <2>1. PICK i \in 1..Len(fs) : fs[i] = g
    BY <1>1
  <2> QED  BY <1>5, <2>1
<1> QED  BY <1>1, <1>2, <1>3, <1>5, <1>6

LEMMA FramesAtVisit ==
  ASSUME IsTree(tree), NEW n \in Nodes, NEW seen, seen \subseteq Nodes, Subtree(n) \cap seen = {},
         NEW fs, NEW frs, FramesFit(fs, frs, seen, Up(Parent(n))),
         NEW top, top = fs[Len(fs)], NEW e,
         FrameFits(top, e, Held(top, seen \cup {n}, Up(n)), HeldStatements(top, seen \cup {n}, Up(n)),
                   OwnBody(top) \cap (seen \cup {n})),
         NEW d, n \in Boundaries => FrameFits(n, d, {}, {n}, {}), NEW q,
         n \in Boundaries => q = Front(frs) \o <<e, d>>,
         n \notin Boundaries => q = Front(frs) \o <<e>>
  PROVE  \E gs : FramesFit(gs, q, seen \cup {n}, Up(n))
<1> DEFINE open == Up(Parent(n))
           L == Len(fs)
           seenNow == seen \cup {n}
<1>1. /\ L \in Nat /\ L >= 1 /\ top \in Owners(open)
      /\ \A i \in 1..L : fs[i] \in Nat /\ fs[i] \in Owners(open)
      /\ \A g \in Owners(open) : g <= top
      /\ \A i \in 1..L : fs[i] = top => i = L
  BY InnermostIsLast
<1>2. /\ fs \in Seq(Nat) /\ fs[1] = 0 /\ Len(frs) = L
      /\ \A i, j \in 1..L : i < j => fs[i] < fs[j]
      /\ \A g : g \in Owners(open) <=> \E i \in 1..L : fs[i] = g
      /\ \A i \in 1..L : FrameFits(fs[i], frs[i], Held(fs[i], seen, open),
                                   HeldStatements(fs[i], seen, open), OwnBody(fs[i]) \cap seen)
  BY DEF FramesFit
<1>3. IsList(frs)
  BY DEF FramesFit
<1>4. Up(n) = open \cup {n}
  BY UpFromParent
<1>5. ASSUME NEW i \in 1..L, NEW x, x = IF i = L THEN e ELSE frs[i]
      PROVE  FrameFits(fs[i], x, Held(fs[i], seenNow, Up(n)), HeldStatements(fs[i], seenNow, Up(n)),
                       OwnBody(fs[i]) \cap seenNow)
  <2> DEFINE f == fs[i]
  <2>1. f \in Owners(open) /\ (f = top <=> i = L)
    BY <1>1
  <2> HIDE DEF f
  <2>2. top \in Owners(open)
    BY <1>1
  <2>3. \A g \in Owners(open) : g <= top
    BY <1>1
  <2>4. CASE i = L
    <3>1. f = top /\ x = e
      BY <1>5, <2>1, <2>4
    <3> QED  BY <3>1 DEF f
  <2>5. CASE i # L
    <3>1. f # top /\ x = frs[i]
      BY <1>5, <2>1, <2>5
    <3>4. f \in Owners(Up(Parent(n)))
      BY <2>1
    <3>5. IsInnermost(top, n)
      BY <2>2, <2>3 DEF IsInnermost
    <3>6. SameSets(f, seen, Up(Parent(n)), seen \cup {n}, Up(n))
      BY <3>1, <3>4, <3>5, HeldAtVisit
    <3>2. /\ Held(f, seenNow, Up(n)) = Held(f, seen, open)
          /\ HeldStatements(f, seenNow, Up(n)) = HeldStatements(f, seen, open)
          /\ OwnBody(f) \cap seenNow = OwnBody(f) \cap seen
      BY <3>6 DEF SameSets
    <3>3. FrameFits(f, frs[i], Held(f, seen, open), HeldStatements(f, seen, open), OwnBody(f) \cap seen)
      BY <1>2 DEF f
    <3> QED  BY <3>1, <3>2, <3>3 DEF f
  <2> QED  BY <2>4, <2>5
<1>6. CASE n \notin Boundaries
  <2>1. q = Front(frs) \o <<e>>
    BY <1>6
  <2>2. /\ IsList(q) /\ Len(q) = L /\ q[L] = e
        /\ \A i \in 1..L : i # L => q[i] = frs[i]
    <3>1. Replaces(q, frs, e)
      <4>1. Len(frs) >= 1
        BY <1>1, <1>2
      <4>2. Replaces(Front(frs) \o <<e>>, frs, e)
        BY <1>3, <4>1, Replaced
      <4> QED  BY <2>1, <4>2
    <3> QED  BY <1>2, <3>1 DEF Replaces
  <2>3. \A g : g \in Owners(Up(n)) <=> g \in Owners(open)
    BY <1>4, <1>6 DEF Owners
  <2>4. \A i \in 1..L : FrameFits(fs[i], q[i], Held(fs[i], seenNow, Up(n)),
                                  HeldStatements(fs[i], seenNow, Up(n)), OwnBody(fs[i]) \cap seenNow)
    BY <1>5, <2>2
  <2> HIDE DEF seenNow
  <2>6. FramesFit(fs, q, seenNow, Up(n))
    BY <1>1, <1>2, <2>2, <2>3, <2>4 DEF FramesFit
  <2> QED  BY <2>6 DEF seenNow
<1>7. CASE n \in Boundaries
  <2> DEFINE gs == Append(fs, n)
  <2>1. q = Front(frs) \o <<e, d>>
    BY <1>7
  <2>2. /\ IsList(q) /\ Len(q) = L + 1 /\ q[L + 1] = d /\ q[L] = e
        /\ \A i \in 1..L : i # L => q[i] = frs[i]
    <3>1. ReplacesAndAdds(q, frs, e, d)
      <4>1. Len(frs) >= 1
        BY <1>1, <1>2
      <4>2. ReplacesAndAdds(Front(frs) \o <<e, d>>, frs, e, d)
        BY <1>3, <4>1, ReplacedAndAdded
      <4> QED  BY <2>1, <4>2
    <3> QED  BY <1>2, <3>1 DEF ReplacesAndAdds
  <2>3. n \in Nat /\ \A i \in 1..L : fs[i] < n
    <3>1. n \in Nat
      BY TreeNumbers
    <3> QED  BY <1>1, <3>1, OwnersHold
  <2>4. /\ gs \in Seq(Nat) /\ Len(gs) = L + 1 /\ gs[L + 1] = n
        /\ \A i \in 1..L : gs[i] = fs[i]
    BY <1>1, <1>2, <2>3
  <2> HIDE DEF gs
  <2>5. \A i \in 1..(L + 1) : i \in 1..L \/ i = L + 1
    BY <1>1
  <2>6. \A i, j \in 1..(L + 1) : i < j => gs[i] < gs[j]
    <3> TAKE i, j \in 1..(L + 1)
    <3>1. i < j => i \in 1..L
      BY <1>1
    <3>2. i < j /\ j \in 1..L => gs[i] < gs[j]
      BY <1>2, <2>4, <3>1
    <3>3. i < j /\ j = L + 1 => gs[i] < gs[j]
      BY <2>3, <2>4, <3>1
    <3> QED  BY <2>5, <3>2, <3>3
  <2>7. \A g : g \in Owners(Up(n)) <=> \E i \in 1..(L + 1) : gs[i] = g
    <3> TAKE g
    <3>1. g \in Owners(Up(n)) <=> g \in Owners(open) \/ g = n
      BY <1>4, <1>7 DEF Owners
    <3>2. g \in Owners(open) <=> \E i \in 1..L : gs[i] = g
      BY <1>2, <2>4
    <3>3. \A i : i \in 1..L \/ i = L + 1 => i \in 1..(L + 1)
      BY <1>1
    <3> QED  BY <2>4, <2>5, <3>1, <3>2, <3>3
  <2>8. ASSUME NEW i \in 1..(L + 1)
        PROVE  FrameFits(gs[i], q[i], Held(gs[i], seenNow, Up(n)),
                         HeldStatements(gs[i], seenNow, Up(n)), OwnBody(gs[i]) \cap seenNow)
    <3>1. CASE i \in 1..L
      <4>1. gs[i] = fs[i] /\ q[i] = IF i = L THEN e ELSE frs[i]
        BY <2>2, <2>4, <3>1
      <4>2. FrameFits(fs[i], q[i], Held(fs[i], seenNow, Up(n)),
                      HeldStatements(fs[i], seenNow, Up(n)), OwnBody(fs[i]) \cap seenNow)
        BY <1>5, <3>1, <4>1
      <4> QED  BY <4>1, <4>2
    <3>2. CASE i = L + 1
      <4>1. gs[i] = n /\ q[i] = d
        BY <2>2, <2>4, <3>2
      <4>2. /\ Held(n, seenNow, Up(n)) = {} /\ HeldStatements(n, seenNow, Up(n)) = {n}
            /\ OwnBody(n) \cap seenNow = {}
        BY HeldAtOpening
      <4>3. FrameFits(n, d, {}, {n}, {})
        BY <1>7
      <4> QED  BY <4>1, <4>2, <4>3
    <3> QED  BY <2>5, <3>1, <3>2
  <2>9. gs[1] = 0
    BY <1>1, <1>2, <2>4
  <2>11. Len(gs) >= 1
    BY <1>1, <2>4
  <2> HIDE DEF seenNow
  <2>12. FramesFit(gs, q, seenNow, Up(n))
    BY <2>2, <2>4, <2>6, <2>7, <2>8, <2>9, <2>11 DEF FramesFit
  <2> QED  BY <2>12 DEF seenNow
<1> QED  BY <1>6, <1>7

LEMMA FramesAtClosing ==
  ASSUME IsTree(tree), NEW n \in Boundaries, NEW seen, Subtree(n) \subseteq seen,
         NEW fs, NEW frs, FramesFit(fs, frs, seen, Up(n))
  PROVE  /\ Len(fs) \in Nat /\ Len(fs) >= 2 /\ fs[Len(fs)] = n
         /\ FrameFits(n, frs[Len(fs)], Subtree(n) \ {n}, Subtree(n), OwnBody(n))
         /\ fs[Len(fs) - 1] \in Owners(Up(Parent(n)))
         /\ \A g \in Owners(Up(Parent(n))) : g <= fs[Len(fs) - 1]
         /\ \A e : LET p == fs[Len(fs) - 1]
                   IN FrameFits(p, e, Held(p, seen, Up(Parent(n))),
                                HeldStatements(p, seen, Up(Parent(n))), OwnBody(p) \cap seen)
                      => \E gs : FramesFit(gs, Front(Front(frs)) \o <<e>>, seen, Up(Parent(n)))
<1> DEFINE L == Len(fs)
           open == Up(Parent(n))
<1>1. /\ L \in Nat /\ L >= 1 /\ fs[L] \in Owners(Up(n))
      /\ \A i \in 1..L : fs[i] \in Nat /\ fs[i] \in Owners(Up(n))
      /\ \A g \in Owners(Up(n)) : g <= fs[L]
      /\ \A i \in 1..L : fs[i] = fs[L] => i = L
  BY InnermostIsLast
<1>2. /\ fs \in Seq(Nat) /\ fs[1] = 0 /\ Len(frs) = L
      /\ \A i, j \in 1..L : i < j => fs[i] < fs[j]
      /\ \A g : g \in Owners(Up(n)) <=> \E i \in 1..L : fs[i] = g
      /\ \A i \in 1..L : FrameFits(fs[i], frs[i], Held(fs[i], seen, Up(n)),
                                   HeldStatements(fs[i], seen, Up(n)), OwnBody(fs[i]) \cap seen)
  BY DEF FramesFit
<1>3. IsList(frs)
  BY DEF FramesFit
<1>4. n \in Nodes /\ n \in Nat /\ n >= 1
  <2>1. n \in Nodes
    BY KindsOfNodes
  <2> QED  BY <2>1, TreeNumbers
<1>5. Up(n) = open \cup {n} /\ n \notin open /\ Up(n) \subseteq 1..n
  BY <1>4, UpFromParent
<1>6. \A g : /\ g \in Owners(Up(n)) <=> g \in Owners(open) \/ g = n
             /\ g \in Owners(open) => g < n
  <2>1. \A g : g \in Owners(Up(n)) <=> g \in Owners(open) \/ g = n
    BY <1>5 DEF Owners
  <2> QED  BY <1>4, <2>1, OwnersHold
<1>7. fs[L] = n
  <2>1. n \in Owners(Up(n))
    BY <1>6
  <2>2. n <= fs[L] /\ fs[L] \in Nat
    BY <1>1, <2>1
  <2>3. fs[L] = n \/ fs[L] < n
    BY <1>1, <1>6
  <2> QED  BY <1>4, <2>2, <2>3
<1>8. L >= 2
  <2>1. L # 1
    BY <1>2, <1>4, <1>7
  <2>2. L \in Nat /\ L >= 1
    BY <1>1
  <2> HIDE DEF L
  <2> QED  BY <2>1, <2>2
<1>9. FrameFits(n, frs[L], Subtree(n) \ {n}, Subtree(n), OwnBody(n))
  <2>1. FrameFits(fs[L], frs[L], Held(fs[L], seen, Up(n)), HeldStatements(fs[L], seen, Up(n)),
                  OwnBody(fs[L]) \cap seen)
    BY <1>1, <1>2
  <2>2. FrameFits(n, frs[L], Held(n, seen, Up(n)), HeldStatements(n, seen, Up(n)), OwnBody(n) \cap seen)
    BY <1>7, <2>1
  <2>3. /\ Held(n, seen, Up(n)) = Subtree(n) \ {n} /\ HeldStatements(n, seen, Up(n)) = Subtree(n)
        /\ OwnBody(n) \cap seen = OwnBody(n)
    BY <1>4, HeldAtTheEnd
  <2> QED  BY <2>2, <2>3
<1> DEFINE K == L - 1
           p == fs[K]
           gs == Front(fs)
           rs == Front(frs)
<1>10. K \in Nat /\ K >= 1 /\ K \in 1..L /\ \A i \in 1..K : i \in 1..L /\ i < L
  BY <1>1, <1>8
<1>11. /\ gs \in Seq(Nat) /\ Len(gs) = K /\ \A i \in 1..K : gs[i] = fs[i]
  BY <1>1, <1>2, FrontIs
<1>12. IsList(rs) /\ Len(rs) = K /\ \A i \in 1..K : rs[i] = frs[i]
  <2>1. PICK T : frs \in Seq(T)
    BY <1>3 DEF IsList
  <2>2. Len(frs) >= 1
    BY <1>1, <1>2
  <2>3. /\ rs \in Seq(T) /\ Len(rs) = Len(frs) - 1
        /\ \A i \in 1..(Len(frs) - 1) : rs[i] = frs[i]
    BY <2>1, <2>2, FrontIs
  <2> HIDE DEF rs
  <2> QED  BY <1>2, <2>3 DEF IsList
<1> HIDE DEF gs, rs
<1>13. \A i \in 1..K : fs[i] \in Owners(open) /\ fs[i] \in Nat
  BY <1>1, <1>6, <1>7, <1>10
<1>14. p \in Owners(open) /\ p \in Nat
  BY <1>10, <1>13
<1>15. \A g : g \in Owners(open) <=> \E i \in 1..K : fs[i] = g
  <2> TAKE g
  <2>1. ASSUME g \in Owners(open) PROVE \E i \in 1..K : fs[i] = g
    <3>1. PICK i \in 1..L : fs[i] = g
      BY <1>2, <1>6, <2>1
    <3>2. g # n
      <4>1. g < n
        BY <1>6, <2>1
      <4> QED  BY <1>4, <4>1
    <3>3. i # L
      BY <1>7, <3>1, <3>2
    <3>4. i \in 1..K
      BY <1>1, <3>3
    <3> QED  BY <3>1, <3>4
  <2> QED  BY <1>13, <2>1
<1>16. \A i \in 1..K : i = K \/ (i < K /\ fs[i] < p)
  BY <1>1, <1>2, <1>10
<1>17. \A g \in Owners(open) : g <= p
  BY <1>13, <1>14, <1>15, <1>16
<1>18. ASSUME NEW e,
              FrameFits(p, e, Held(p, seen, open), HeldStatements(p, seen, open), OwnBody(p) \cap seen)
       PROVE  \E hs : FramesFit(hs, Front(Front(frs)) \o <<e>>, seen, Up(Parent(n)))
  <2> DEFINE q == Front(rs) \o <<e>>
  <2>1. IsList(q) /\ Len(q) = K /\ q[K] = e /\ \A i \in 1..K : i # K => q[i] = rs[i]
    <3>1. Len(rs) >= 1
      BY <1>10, <1>12
    <3>2. Replaces(q, rs, e)
      BY <1>12, <3>1, Replaced
    <3> HIDE DEF q
    <3> QED  BY <1>12, <3>2 DEF Replaces
  <2> HIDE DEF q
  <2>2. ASSUME NEW i \in 1..K
        PROVE  FrameFits(gs[i], q[i], Held(gs[i], seen, open), HeldStatements(gs[i], seen, open),
                         OwnBody(gs[i]) \cap seen)
    <3> DEFINE f == fs[i]
    <3>1. f \in Owners(open) /\ (f = p <=> i = K) /\ gs[i] = f
      BY <1>11, <1>13, <1>14, <1>16
    <3> HIDE DEF f
    <3>2. p \in Owners(open)
      BY <1>14
    <3>3. \A g \in Owners(open) : g <= p
      BY <1>17
    <3>4. open = Up(Parent(n))
      OBVIOUS
    <3> HIDE DEF p, open
    <3>5. CASE i = K
      <4>1. f = p /\ q[i] = e
        BY <2>1, <3>1, <3>5
      <4> QED  BY <1>18, <3>1, <4>1
    <3>6. CASE i # K
      <4>1. f # p /\ q[i] = frs[i]
        BY <1>12, <2>1, <3>1, <3>6
      <4>4. f \in Owners(Up(Parent(n)))
        BY <3>1, <3>4
      <4>5. IsInnermost(p, n)
        BY <3>2, <3>3, <3>4 DEF IsInnermost
      <4>6. SameSets(f, seen, Up(n), seen, Up(Parent(n)))
        <5>1. f # p
          BY <4>1
        <5> QED  BY <4>4, <4>5, <5>1, HeldAtClosing
      <4>2. /\ Held(f, seen, open) = Held(f, seen, Up(n))
            /\ HeldStatements(f, seen, open) = HeldStatements(f, seen, Up(n))
        BY <3>4, <4>6 DEF SameSets
      <4>3. FrameFits(f, frs[i], Held(f, seen, Up(n)), HeldStatements(f, seen, Up(n)), OwnBody(f) \cap seen)
        BY <1>2, <1>10 DEF f
      <4> QED  BY <3>1, <4>1, <4>2, <4>3
    <3> QED  BY <3>5, <3>6
  <2>3. gs[1] = 0 /\ Len(gs) >= 1 /\ Len(gs) = Len(q)
    <3>1. 1 \in 1..K
      BY <1>10
    <3>2. gs[1] = fs[1]
      BY <1>11, <3>1
    <3> QED  BY <1>2, <1>10, <1>11, <2>1, <3>2
  <2>4. \A i, j \in 1..K : i < j => gs[i] < gs[j]
    BY <1>2, <1>10, <1>11
  <2>5. \A g : g \in Owners(open) <=> \E i \in 1..K : gs[i] = g
    BY <1>11, <1>15
  <2> HIDE DEF open, K
  <2>7. FramesFit(gs, q, seen, open)
    BY <1>11, <2>1, <2>2, <2>3, <2>4, <2>5 DEF FramesFit
  <2> QED  BY <2>7 DEF q, rs, open
<1> QED  BY <1>1, <1>7, <1>8, <1>9, <1>14, <1>17, <1>18

-----------------------------------------------------------------------------
(* A visit.                                                                *)

(* What it does to the frame the node stands in.                           *)
LEMMA VisitedFrame ==
  ASSUME IsTree(tree), NEW n \in Nodes, NEW seen, seen \subseteq Nodes, Subtree(n) \cap seen = {},
         NEW f, f \in Owners(Up(Parent(n))), IsInnermost(f, n), NEW fr,
         FrameFits(f, fr, Held(f, seen, Up(Parent(n))), HeldStatements(f, seen, Up(Parent(n))),
                   OwnBody(f) \cap seen),
         NEW own \in BOOLEAN, own <=> n \notin Boundaries /\ ~Region(n),
         NEW level, level = Depth(Parent(n)) + Bonus(n) - fr.entryNesting,
         NEW depth, depth = Depth(n) - fr.entryStructural,
         NEW e, n \in Boundaries => e = Charged(fr, n, level, own, depth),
         n \notin Boundaries => e = Counted(Charged(fr, n, level, own, depth), n, FALSE)
  PROVE  FrameFits(f, e, Held(f, seen \cup {n}, Up(n)), HeldStatements(f, seen \cup {n}, Up(n)),
                   OwnBody(f) \cap (seen \cup {n}))
<1> DEFINE H == Held(f, seen, Up(Parent(n)))
           S == HeldStatements(f, seen, Up(Parent(n)))
           O == OwnBody(f) \cap seen
           g == Charged(fr, n, level, own, depth)
           P == IF own THEN O \cup {n} ELSE O
<1>1. f \in 0..Size /\ n \in Subtree(f) \ {f}
  BY OwnersHold
<1>2. n \notin seen
  <2>1. n \in Subtree(n)
    <3>1. n \in 0..Size
      BY TreeNumbers
    <3> QED  BY <3>1, SubtreesNest
  <2> QED  BY <2>1
<1>3. n \notin H /\ n \notin S /\ n \notin O /\ O \subseteq Nodes
  BY <1>2 DEF Held, HeldStatements
<1>4. FrameFits(f, fr, H, S, O)
  OBVIOUS
<1>5. FrameFits(f, g, H \cup {n}, S, P)
  <2> HIDE DEF H, S, O
  <2>1. f \in 0..Size
    BY <1>1
  <2>2. n \in Subtree(f) \ {f}
    BY <1>1
  <2> QED  BY <1>3, <1>4, <2>1, <2>2, ChargedFits
<1>6. TakesNode(f, seen, n)
  BY HeldAtVisit
<1>7. Held(f, seen \cup {n}, Up(n)) = H \cup {n} /\ OwnBody(f) \cap (seen \cup {n}) = P
  BY <1>6 DEF TakesNode
<1>8. n \in Boundaries => HeldStatements(f, seen \cup {n}, Up(n)) = S
  BY <1>6 DEF TakesNode
<1>9. n \notin Boundaries => HeldStatements(f, seen \cup {n}, Up(n)) = S \cup {n}
  BY <1>6 DEF TakesNode
<1> HIDE DEF H, S, O, P, g
<1>10. CASE n \in Boundaries
  <2>1. e = g
    BY <1>10 DEF g
  <2> QED  BY <1>5, <1>7, <1>8, <1>10, <2>1
<1>11. CASE n \notin Boundaries
  <2>1. e = Counted(g, n, FALSE)
    BY <1>11 DEF g
  <2>2. FrameFits(f, Counted(g, n, FALSE), H \cup {n}, S \cup {n}, P)
    BY <1>3, <1>5, CountedFits
  <2> QED  BY <1>7, <1>9, <1>11, <2>1, <2>2
<1> QED  BY <1>10, <1>11

IsJoin(q, a, c, r, X) ==
  /\ q \in Seq(X) /\ Len(q) = Len(a) + 1 + Len(r) /\ q[Len(a) + 1] = c
  /\ \A i \in 1..Len(a) : q[i] = a[i]
  /\ \A i \in 1..Len(r) : q[Len(a) + 1 + i] = r[i]

LEMMA Joined ==
  ASSUME NEW X, NEW a, a \in Seq(X), NEW c, c \in X, NEW r, r \in Seq(X)
  PROVE  IsJoin(a \o <<c>> \o r, a, c, r, X)
<1> DEFINE q == a \o <<c>> \o r
           b == <<c>>
           d == a \o b
           z == d \o r
<1>1. b \in Seq(X) /\ Len(b) = 1 /\ b[1] = c
  OBVIOUS
<1>2. q = z
  OBVIOUS
<1>3. Len(a) \in Nat /\ Len(r) \in Nat
  OBVIOUS
<1> HIDE DEF b, q
<1>4. b \in Seq(X)
  BY <1>1
<1>5. d \in Seq(X) /\ Len(d) = Len(a) + Len(b)
  BY <1>4, ConcatProperties
<1>6. \A i \in 1..(Len(a) + Len(b)) : d[i] = IF i <= Len(a) THEN a[i] ELSE b[i - Len(a)]
  BY <1>4, ConcatProperties
<1> HIDE DEF d
<1>7. d \in Seq(X)
  BY <1>5
<1>8. z \in Seq(X) /\ Len(z) = Len(d) + Len(r)
  BY <1>7, ConcatProperties
<1>9. \A i \in 1..(Len(d) + Len(r)) : z[i] = IF i <= Len(d) THEN d[i] ELSE r[i - Len(d)]
  BY <1>7, ConcatProperties
<1> HIDE DEF z
<1>10. Len(d) = Len(a) + 1 /\ Len(z) = Len(a) + 1 + Len(r)
  BY <1>1, <1>3, <1>5, <1>8
<1>11. z[Len(a) + 1] = c
  <2>1. Len(a) + 1 \in 1..(Len(d) + Len(r)) /\ Len(a) + 1 \in 1..(Len(a) + Len(b))
    BY <1>1, <1>3, <1>10
  <2>2. z[Len(a) + 1] = d[Len(a) + 1]
    BY <1>3, <1>9, <1>10, <2>1
  <2>3. d[Len(a) + 1] = b[(Len(a) + 1) - Len(a)]
    BY <1>3, <1>6, <2>1
  <2>4. (Len(a) + 1) - Len(a) = 1
    BY <1>3
  <2> QED  BY <1>1, <2>2, <2>3, <2>4
<1>12. ASSUME NEW i \in 1..Len(a) PROVE z[i] = a[i]
  <2>1. i \in 1..(Len(d) + Len(r)) /\ i \in 1..(Len(a) + Len(b)) /\ i <= Len(d)
    BY <1>1, <1>3, <1>10
  <2>2. z[i] = d[i] /\ d[i] = a[i]
    BY <1>3, <1>6, <1>9, <2>1
  <2> QED  BY <2>2
<1>13. ASSUME NEW i \in 1..Len(r) PROVE z[Len(a) + 1 + i] = r[i]
  <2> DEFINE k == Len(a) + 1 + i
  <2>1. k \in 1..(Len(d) + Len(r)) /\ ~(k <= Len(d)) /\ k - Len(d) = i
    BY <1>3, <1>10
  <2> HIDE DEF k
  <2>2. z[k] = r[k - Len(d)]
    BY <1>9, <2>1
  <2>3. z[k] = r[i]
    BY <2>1, <2>2
  <2> QED  BY <2>3 DEF k
<1>14. IsJoin(z, a, c, r, X)
  BY <1>8, <1>10, <1>11, <1>12, <1>13 DEF IsJoin
<1> QED  BY <1>2, <1>14 DEF q

(* What it puts before the rest.                                           *)
VisitsOf(below, depth, bonus, inFunction, inRegion, members) ==
  [i \in DOMAIN below |-> Visit(below[i], depth, bonus, inFunction, inRegion, members[below[i]])]

LEMMA TodoOfVisit ==
  ASSUME IsTree(tree), NEW td, TodoFits(td), Len(td) >= 1, NEW n \in Nodes,
         NEW depth, depth = Depth(n), NEW bonus, bonus = Bonus(n),
         NEW inFunction \in BOOLEAN, inFunction <=> HoldsFunction(n),
         NEW inRegion \in BOOLEAN, inRegion <=> Region(n),
         NEW below, below = Ascending(Children(n)), NEW members,
         \A c \in Children(n) : members[c] \in BOOLEAN /\ (members[c] <=> IsMember(c)),
         NEW q,
         q = VisitsOf(below, depth, bonus, inFunction, inRegion, members) \o <<Closing(n)>> \o Tail(td)
  PROVE  IsAfterVisit(q, td, n, below)
<1> DEFINE X == Visits \cup Closings
           K == Len(below)
           a == VisitsOf(below, depth, bonus, inFunction, inRegion, members)
           r == Tail(td)
<1>1. Children(n) \subseteq Nat /\ IsFiniteSet(Children(n)) /\ Children(n) \subseteq Nodes
  <2>1. Children(n) \subseteq Nodes
    BY DEF Children
  <2>2. Nodes \subseteq Nat
    BY TreeNumbers
  <2> QED  BY <2>1, <2>2, NodesAreFinite
<1>2. below \in Seq(Children(n)) /\ K \in Nat /\ \A i \in 1..K : below[i] \in Children(n)
  <2>1. /\ Ascending(Children(n)) \in Seq(Children(n)) /\ Len(Ascending(Children(n))) \in Nat
        /\ \A i \in 1..Len(Ascending(Children(n))) : Ascending(Children(n))[i] \in Children(n)
    BY <1>1, AscendingLists
  <2> QED  BY <2>1
<1>3. DOMAIN below = 1..K
  BY <1>2
<1>4. depth \in Nat /\ bonus \in Nat
  BY LevelsAreNumbers
<1>5. ASSUME NEW i \in 1..K
      PROVE  a[i] \in X /\ a[i].node = below[i] /\ a[i].step = "visit" /\ IsVisit(a[i])
  <2> DEFINE c == below[i]
             w == Visit(c, depth, bonus, inFunction, inRegion, members[c])
  <2>1. a[i] = w
    BY <1>3 DEF VisitsOf
  <2>2. c \in Children(n) /\ c \in Nodes /\ Parent(c) = n
    BY <1>1, <1>2 DEF Children
  <2> HIDE DEF c
  <2>3. members[c] \in BOOLEAN /\ (members[c] <=> IsMember(c))
    BY <2>2
  <2>4. /\ w.step = "visit" /\ w.node = c /\ w.nesting = depth /\ w.bonus = bonus
        /\ w.inFunction = inFunction /\ w.inRegion = inRegion /\ w.inClass = members[c]
    BY DEF Visit
  <2>5. w \in Visits
    BY <1>4, <2>2, <2>3 DEF Visit, Visits
  <2> HIDE DEF w
  <2>6. IsVisit(w)
    BY <2>2, <2>3, <2>4 DEF IsVisit
  <2> QED  BY <2>1, <2>4, <2>5, <2>6 DEF c
<1>6. a \in Seq(X) /\ Len(a) = K
  <2>1. a \in [1..K -> X]
    BY <1>3, <1>5 DEF VisitsOf
  <2> HIDE DEF a
  <2> QED  BY <1>2, <2>1
<1>7. Closing(n) \in X /\ Closing(n).node = n /\ Closing(n).step = "close"
  BY DEF Closing, Closings
<1>8. r \in Seq(X) /\ Len(r) = Len(td) - 1 /\ \A i \in 1..(Len(td) - 1) : r[i] = td[i + 1]
  <2>1. td \in Seq(X) /\ td # <<>>
    BY DEF TodoFits
  <2> HIDE DEF X
  <2> QED  BY <2>1
<1>9. q = a \o <<Closing(n)>> \o r
  OBVIOUS
<1>10. Len(td) \in Nat
  BY DEF TodoFits
<1> HIDE DEF a, r, X
<1>11. /\ q \in Seq(X) /\ Len(q) = Len(a) + 1 + Len(r) /\ q[Len(a) + 1] = Closing(n)
       /\ \A i \in 1..Len(a) : q[i] = a[i]
       /\ \A i \in 1..Len(r) : q[Len(a) + 1 + i] = r[i]
  <2>1. a \in Seq(X)
    BY <1>6
  <2>2. r \in Seq(X)
    BY <1>8
  <2>3. Closing(n) \in X
    BY <1>7
  <2>4. IsJoin(a \o <<Closing(n)>> \o r, a, Closing(n), r, X)
    BY <2>1, <2>2, <2>3, Joined
  <2>5. IsJoin(q, a, Closing(n), r, X)
    BY <1>9, <2>4
  <2> QED  BY <2>5 DEF IsJoin
<1>12. Len(q) = K + Len(td)
  BY <1>2, <1>6, <1>8, <1>10, <1>11
<1>13. \A i \in 1..K : q[i].node = below[i] /\ q[i].step = "visit" /\ IsVisit(q[i])
  BY <1>5, <1>6, <1>11
<1>14. q[K + 1].node = n /\ q[K + 1].step = "close"
  BY <1>6, <1>7, <1>11
<1>15. ASSUME NEW i \in 2..Len(td) PROVE q[K + i] = td[i]
  <2>1. i - 1 \in 1..Len(r) /\ i - 1 \in 1..(Len(td) - 1) /\ (i - 1) + 1 = i /\ K + 1 + (i - 1) = K + i
    BY <1>2, <1>8, <1>10
  <2>2. q[K + 1 + (i - 1)] = r[i - 1] /\ r[i - 1] = td[(i - 1) + 1]
    BY <1>6, <1>8, <1>11, <2>1
  <2> QED  BY <2>1, <2>2
<1> QED  BY <1>11, <1>12, <1>13, <1>14, <1>15 DEF IsAfterVisit, X

-----------------------------------------------------------------------------
(* The whole state: what is to come fits the tree, every open function's   *)
(* frame holds what the walk has seen of it, and the closed ones have got  *)
(* what a walk of their own would give them.                               *)

StandingFits(frs, res, kept, seen, open) ==
  /\ \E fs : FramesFit(fs, frs, seen, open)
  /\ Measured(res, seen, open)
  /\ kept = Cardinality(KeptByClasses(seen))
WalkFits(td, frs, res, kept) ==
  /\ TodoFits(td)
  /\ \E seen, open : seen = Seen(td) /\ open = Open(td) /\ StandingFits(frs, res, kept, seen, open)

LEMMA TheWalkStarts ==
  ASSUME IsTree(tree)
  PROVE  WalkFits(<<Visit(Root, 0, 0, FALSE, FALSE, FALSE)>>, <<Frame(0, 0)>>, <<>>, 0)
<1> DEFINE v == Visit(Root, 0, 0, FALSE, FALSE, FALSE)
           td == <<v>>
<1>1. Size \in Nat /\ Size >= 1 /\ Nodes = 1..Size
  BY TreeNumbers
<1>2. Root = 1 /\ Root \in Nodes /\ Root \in 0..Size
  BY <1>1 DEF Root
<1>3. Parent(Root) = 0
  <2>1. tree[1].parent = NoNode
    BY DEF IsTree
  <2> QED  BY <2>1 DEF Parent, Root, NoNode
<1>4. ~IsMember(Root)
  <2>1. 0 \notin ClassBodies
    BY <1>1, KindsOfNodes
  <2>2. Kind(0) = ""
    BY DEF Kind, NoNode
  <2> QED  BY <1>3, <2>1, <2>2 DEF IsMember
<1>5. v \in Visits /\ v.node = Root /\ v.step = "visit" /\ IsVisit(v)
  <2>1. v \in Visits
    BY <1>2 DEF Visit, Visits
  <2>2. /\ v.node = Root /\ v.step = "visit" /\ v.nesting = 0 /\ v.bonus = 0
        /\ ~v.inFunction /\ ~v.inRegion /\ ~v.inClass
    BY DEF Visit
  <2>3. Depth(0) = 0 /\ Bonus(0) = 0 /\ ~HoldsFunction(0) /\ ~Region(0)
    BY LevelsAboveTheRoot
  <2> HIDE DEF v
  <2>4. IsVisit(v)
    BY <1>3, <1>4, <2>2, <2>3 DEF IsVisit
  <2> QED  BY <2>1, <2>2, <2>4
<1> HIDE DEF v
<1>6. Len(td) = 1 /\ td[1] = v /\ td \in Seq(Visits \cup Closings)
  BY <1>5
<1> HIDE DEF td
<1>7. \A i \in 1..Len(td) : i = 1 /\ td[i] = v
  BY <1>6
<1>8. Up(0) = {}
  BY UpIs
<1>9. TodoFits(td)
  BY <1>3, <1>5, <1>6, <1>7, <1>8 DEF TodoFits
<1>10. Seen(td) = {}
  <2>1. ASSUME NEW m \in Nodes PROVE m \in Subtree(Root)
    <3>1. m \in 1..Size /\ \A k \in 2..m : k \in Nodes /\ k # 1
      BY <1>1
    <3>2. \A k \in 2..m : Parent(k) >= 1
      BY <3>1, TreeNumbers
    <3>3. m \in Root..Size /\ \A k \in (Root + 1)..m : Parent(k) >= Root
      BY <1>2, <3>1, <3>2
    <3> QED  BY <1>2, <3>3, InSubtree
  <2> QED  BY <1>5, <1>6, <1>7, <2>1 DEF Seen
<1>11. Open(td) = {}
  BY <1>5, <1>7 DEF Open
<1>12. FramesFit(<<0>>, <<Frame(0, 0)>>, {}, {})
  <2> DEFINE fs == <<0>>
             e == Frame(0, 0)
             frs == <<e>>
  <2>1. Held(0, {}, {}) = {} /\ HeldStatements(0, {}, {}) = {} /\ OwnBody(0) \cap {} = {}
    BY DEF Held, HeldStatements
  <2>2. FrameFits(0, e, {}, {}, {})
    BY FileFrameFits
  <2> HIDE DEF e
  <2>3. FrameFits(0, e, Held(0, {}, {}), HeldStatements(0, {}, {}), OwnBody(0) \cap {})
    BY <2>1, <2>2
  <2>4. fs \in Seq(Nat) /\ Len(fs) = 1 /\ fs[1] = 0
    OBVIOUS
  <2>5. Len(frs) = 1 /\ frs[1] = e /\ frs \in Seq({e})
    OBVIOUS
  <2> HIDE DEF fs, frs
  <2>6. IsList(frs)
    BY <2>5 DEF IsList
  <2>7. \A g : g \in Owners({}) <=> g = 0
    BY DEF Owners
  <2>8. \A i \in 1..Len(fs) : i = 1
    BY <2>4
  <2>9. FramesFit(fs, frs, {}, {})
    BY <2>3, <2>4, <2>5, <2>6, <2>7, <2>8 DEF FramesFit
  <2> QED  BY <2>9 DEF fs, frs, e
<1>13. Measured(<<>>, {}, {})
  <2>1. DOMAIN <<>> = {}
    OBVIOUS
  <2>2. (Boundaries \cap {}) \ {} = {}
    OBVIOUS
  <2> QED  BY <2>1, <2>2 DEF Measured
<1>14. 0 = Cardinality(KeptByClasses({}))
  <2>1. KeptByClasses({}) = {}
    BY DEF KeptByClasses
  <2> QED  BY <2>1, FS_EmptySet
<1>15. WalkFits(td, <<Frame(0, 0)>>, <<>>, 0)
  BY <1>9, <1>10, <1>11, <1>12, <1>13, <1>14 DEF WalkFits, StandingFits
<1> QED  BY <1>15 DEF td, v

(* A visit counts a path that a class body keeps from the functions around it. *)
LEMMA KeptAtVisit ==
  ASSUME IsTree(tree), NEW n \in Nodes, NEW seen, seen \subseteq Nodes, n \notin seen,
         NEW kept, kept = Cardinality(KeptByClasses(seen)),
         NEW b, b <=> IsPath(n) /\ n \notin Boundaries /\ Region(n)
  PROVE  kept + One(b) = Cardinality(KeptByClasses(seen \cup {n}))
<1> DEFINE K == KeptByClasses(seen)
<1>1. K \subseteq Nodes /\ n \notin K
  BY DEF KeptByClasses
<1>2. KeptByClasses(seen \cup {n}) = IF b THEN K \cup {n} ELSE K
  BY DEF KeptByClasses
<1> HIDE DEF K
<1>3. IsFiniteSet(K) /\ Cardinality(K) \in Nat
  BY <1>1, NodesAreFinite
<1>4. Cardinality(K \cup {n}) = Cardinality(K) + 1
  BY <1>1, <1>3, FS_AddElement
<1>5. kept = Cardinality(K)
  BY DEF K
<1>6. CASE b
  <2>1. One(b) = 1
    BY <1>6 DEF One
  <2>2. KeptByClasses(seen \cup {n}) = K \cup {n}
    BY <1>2, <1>6
  <2> QED  BY <1>4, <1>5, <2>1, <2>2
<1>7. CASE ~b
  <2>1. One(b) = 0
    BY <1>7 DEF One
  <2>2. KeptByClasses(seen \cup {n}) = K
    BY <1>2, <1>7
  <2>3. kept + 0 = kept
    BY <1>3, <1>5
  <2> QED  BY <1>5, <2>1, <2>2, <2>3
<1> QED  BY <1>6, <1>7

(* What VisitNode reads of the walk's state, by the names it gives to it. *)
LEMMA WhatAVisitKnows ==
  ASSUME IsTree(tree), NEW td, TodoFits(td), td # <<>>, NEW v, v = td[1], v.step = "visit"
  PROVE  LET n == v.node
             classBody == Kind(n) = "class_body" /\ v.inFunction
             opens == IsFunctionBoundary(n)
             bonus == v.bonus + One(classBody) + One(opens /\ v.inFunction /\ ~v.inClass)
             inRegion == v.inRegion \/ classBody
             depth == v.nesting + One(IsNesting(n))
         IN /\ n \in Nodes /\ v.nesting = Depth(Parent(n))
            /\ depth = Depth(n) /\ bonus = Bonus(n)
            /\ opens <=> n \in Boundaries
            /\ v.inFunction \/ opens <=> HoldsFunction(n)
            /\ inRegion /\ ~opens <=> Region(n)
            /\ classBody <=> n \in ClassBodies
            /\ v.inClass <=> IsMember(n)
<1> DEFINE n == v.node
           classBody == Kind(n) = "class_body" /\ v.inFunction
           opens == IsFunctionBoundary(n)
           raises == opens /\ v.inFunction /\ ~v.inClass
           bonus == v.bonus + One(classBody) + One(raises)
           inRegion == v.inRegion \/ classBody
           depth == v.nesting + One(IsNesting(n))
<1>1. Len(td) \in Nat /\ Len(td) >= 1 /\ 1 \in 1..Len(td)
  BY DEF TodoFits
<1>2. n \in Nodes
  BY <1>1, ItemsAre
<1>3. IsVisit(v)
  BY <1>1 DEF TodoFits
<1>4. /\ v.nesting = Depth(Parent(n)) /\ v.bonus = Bonus(Parent(n))
      /\ v.inFunction <=> HoldsFunction(Parent(n))
      /\ v.inRegion <=> Region(Parent(n))
      /\ v.inClass <=> IsMember(n)
  BY <1>3 DEF IsVisit
<1>5. /\ Depth(n) = Depth(Parent(n)) + One(IsNesting(n))
      /\ Bonus(n) = Bonus(Parent(n)) + One(n \in ClassBodies) + One(n \in Raising)
      /\ HoldsFunction(n) <=> HoldsFunction(Parent(n)) \/ n \in Boundaries
      /\ Region(n) <=> n \notin Boundaries /\ (Region(Parent(n)) \/ n \in ClassBodies)
      /\ n \in ClassBodies <=> Kind(n) = "class_body" /\ HoldsFunction(Parent(n))
      /\ n \in Raising <=> IsFunctionBoundary(n) /\ HoldsFunction(Parent(n)) /\ ~IsMember(n)
      /\ n \in Boundaries <=> IsFunctionBoundary(n)
  BY <1>2, LevelsFromParent
<1>6. /\ classBody <=> n \in ClassBodies
      /\ raises <=> n \in Raising
      /\ opens <=> n \in Boundaries
      /\ v.inFunction \/ opens <=> HoldsFunction(n)
      /\ inRegion /\ ~opens <=> Region(n)
  BY <1>4, <1>5
<1>7. depth = Depth(n)
  BY <1>4, <1>5
<1>8. bonus = Bonus(n)
  <2>1. One(classBody) = One(n \in ClassBodies)
    BY <1>6 DEF One
  <2>2. One(raises) = One(n \in Raising)
    BY <1>6 DEF One
  <2> QED  BY <1>4, <1>5, <2>1, <2>2
<1> QED  BY <1>2, <1>4, <1>6, <1>7, <1>8

(* A visit leaves what it met measured: no function closes.               *)
LEMMA MeasuredAtVisit ==
  ASSUME NEW n, NEW seen, NEW open, n \notin seen, NEW res, Measured(res, seen, open)
  PROVE  Measured(res, seen \cup {n}, open \cup {n})
BY DEF Measured

LEMMA AVisitFits ==
  ASSUME IsTree(tree), WalkFits(todo, frames, results, nestedClassDecisions), VisitNode
  PROVE  WalkFits(todo', frames', results', nestedClassDecisions')
<1> DEFINE v == Head(todo)
           n == v.node
           seen == Seen(todo)
           open == Up(Parent(n))
           classBody == Kind(n) = "class_body" /\ v.inFunction
           opens == IsFunctionBoundary(n)
           bonus == v.bonus + One(classBody) + One(opens /\ v.inFunction /\ ~v.inClass)
           inFunction == v.inFunction \/ opens
           inRegion == v.inRegion \/ classBody
           inRegionBelow == inRegion /\ ~opens
           own == ~inRegion /\ ~opens
           depth == v.nesting + One(IsNesting(n))
           top == Last(frames)
           blocked == IF Len(frames) > 1 /\ (opens \/ IsSwitchLike(n) \/ IsNesting(n))
                      THEN WithBlockOpened(top, n) ELSE top
           level == v.nesting + bonus - top.entryNesting
           relative == depth - top.entryStructural
           charged == Charged(blocked, n, level, own, relative)
           memberOf(c) == \/ classBody
                          \/ /\ v.inClass /\ Kind(n) = "property_declaration"
                             /\ Kind(c) \in {"getter", "setter"}
           members == [c \in Children(n) |-> memberOf(c)]
           below == Ascending(Children(n))
           opened == Counted(Frame(depth + bonus, depth), n, TRUE)
           counted == Counted(charged, n, FALSE)
           keeps == IsPath(n) /\ ~own /\ ~opens
<1>1. /\ todo # <<>> /\ v.step = "visit" /\ results' = results
      /\ frames' = IF opens THEN Front(frames) \o <<charged, opened>> ELSE Front(frames) \o <<counted>>
      /\ nestedClassDecisions' = nestedClassDecisions + One(keeps)
      /\ todo' = [i \in DOMAIN below |-> Visit(below[i], depth, bonus, inFunction,
                                               inRegionBelow, memberOf(below[i]))]
                 \o <<Closing(n)>> \o Tail(todo)
  BY DEF VisitNode
<1>2. TodoFits(todo) /\ Measured(results, seen, Open(todo))
      /\ nestedClassDecisions = Cardinality(KeptByClasses(seen))
  BY DEF WalkFits, StandingFits
<1>3. Len(todo) \in Nat /\ Len(todo) >= 1 /\ v = todo[1]
  <2>1. todo \in Seq(Visits \cup Closings)
    BY <1>2 DEF TodoFits
  <2>2. todo # <<>>
    BY <1>1
  <2>3. Len(todo) \in Nat /\ Len(todo) >= 1 /\ Head(todo) = todo[1]
    <3> DEFINE X == Visits \cup Closings
    <3>1. todo \in Seq(X)
      BY <2>1
    <3> HIDE DEF X
    <3> QED  BY <2>2, <3>1
  <2> QED  BY <2>3
<1>4. Open(todo) = open /\ Subtree(n) \cap seen = {}
  <2>1. todo[1].step = "visit" /\ n = todo[1].node
    BY <1>1, <1>3
  <2> HIDE DEF n
  <2> QED  BY <1>2, <1>3, <2>1, AtVisit
<1>5. PICK fs : FramesFit(fs, frames, seen, open)
  BY <1>4 DEF WalkFits, StandingFits
<1>6. /\ n \in Nodes /\ v.nesting = Depth(Parent(n)) /\ depth = Depth(n) /\ bonus = Bonus(n)
      /\ opens <=> n \in Boundaries
      /\ inFunction <=> HoldsFunction(n)
      /\ inRegionBelow <=> Region(n)
      /\ classBody <=> n \in ClassBodies
      /\ v.inClass <=> IsMember(n)
  BY <1>1, <1>2, <1>3, WhatAVisitKnows
<1>7. seen \subseteq Nodes
  BY DEF Seen
<1>8. own \in BOOLEAN /\ (own <=> n \notin Boundaries /\ ~Region(n)) /\ (keeps <=> IsPath(n) /\ n \notin Boundaries /\ Region(n))
  BY <1>6
<1> DEFINE f == fs[Len(fs)]
<1>9. IsInnermost(f, n) /\ f \in Owners(open) /\ Len(fs) \in Nat /\ Len(fs) >= 1
  BY <1>5, InnermostIsLast DEF IsInnermost
<1>10. FrameFits(f, top, Held(f, seen, open), HeldStatements(f, seen, open), OwnBody(f) \cap seen)
  <2>1. /\ IsList(frames) /\ Len(frames) = Len(fs)
        /\ \A i \in 1..Len(fs) : FrameFits(fs[i], frames[i], Held(fs[i], seen, open),
                                           HeldStatements(fs[i], seen, open), OwnBody(fs[i]) \cap seen)
    BY <1>5 DEF FramesFit
  <2>2. top = frames[Len(fs)] /\ Len(fs) \in 1..Len(fs)
    BY <1>9, <2>1 DEF Last
  <2> QED  BY <2>1, <2>2
<1>11. FrameFits(f, blocked, Held(f, seen, open), HeldStatements(f, seen, open), OwnBody(f) \cap seen)
  BY <1>10, BlockOpenedFits
<1>12. /\ level = Depth(Parent(n)) + Bonus(n) - blocked.entryNesting
       /\ relative = Depth(n) - blocked.entryStructural
  <2>1. blocked.entryNesting = Entry(f) /\ blocked.entryStructural = Depth(f)
    BY <1>11 DEF FrameFits
  <2>2. top.entryNesting = Entry(f) /\ top.entryStructural = Depth(f)
    BY <1>10 DEF FrameFits
  <2> QED  BY <1>6, <2>1, <2>2
<1> DEFINE e == IF opens THEN charged ELSE counted
<1> HIDE DEF blocked, top, bonus, depth, level, relative
<1>13. FrameFits(f, e, Held(f, seen \cup {n}, Up(n)), HeldStatements(f, seen \cup {n}, Up(n)),
                 OwnBody(f) \cap (seen \cup {n}))
  <2>1. n \in Boundaries => e = Charged(blocked, n, level, own, relative)
    BY <1>6
  <2>2. n \notin Boundaries => e = Counted(Charged(blocked, n, level, own, relative), n, FALSE)
    BY <1>6
  <2> HIDE DEF e, own, seen, open, n
  <2>3. FrameFits(f, blocked, Held(f, seen, Up(Parent(n))), HeldStatements(f, seen, Up(Parent(n))),
                  OwnBody(f) \cap seen)
    BY <1>11 DEF open
  <2>4. Subtree(n) \cap seen = {} /\ seen \subseteq Nodes /\ n \in Nodes /\ f \in Owners(Up(Parent(n)))
    BY <1>4, <1>6, <1>7, <1>9 DEF open
  <2> HIDE DEF f
  <2> QED  BY <1>8, <1>9, <1>12, <2>1, <2>2, <2>3, <2>4, VisitedFrame
<1>14. n \in Boundaries => FrameFits(n, opened, {}, {n}, {})
  <2>1. depth + bonus = Entry(n) /\ depth = Depth(n)
    BY <1>6 DEF Entry
  <2> QED  BY <1>6, <2>1, NewFrameFits
<1>15. \E gs : FramesFit(gs, frames', seen \cup {n}, Up(n))
  <2>1. n \in Boundaries => frames' = Front(frames) \o <<e, opened>>
    BY <1>1, <1>6
  <2>2. n \notin Boundaries => frames' = Front(frames) \o <<e>>
    BY <1>1, <1>6
  <2> HIDE DEF e, opened, seen, open, n
  <2>3. FramesFit(fs, frames, seen, Up(Parent(n))) /\ n \in Nodes /\ seen \subseteq Nodes /\ Subtree(n) \cap seen = {}
    BY <1>4, <1>5, <1>6, <1>7 DEF open
  <2> HIDE DEF f
  <2>4. f = fs[Len(fs)]
    BY DEF f
  <2> QED  BY <1>13, <1>14, <2>1, <2>2, <2>3, <2>4, FramesAtVisit
<1>16. IsAfterVisit(todo', todo, n, below)
  <2>1. \A c \in Children(n) : members[c] \in BOOLEAN /\ (members[c] <=> IsMember(c))
    <3> TAKE c \in Children(n)
    <3>1. Parent(c) = n
      BY DEF Children
    <3>2. memberOf(c) <=> IsMember(c)
      BY <1>6, <3>1, MembersFromParent
    <3>3. members[c] = memberOf(c)
      OBVIOUS
    <3>4. memberOf(c) \in BOOLEAN
      OBVIOUS
    <3> HIDE DEF memberOf, members
    <3> QED  BY <3>2, <3>3, <3>4
  <2>2. \A i \in DOMAIN below : below[i] \in Children(n)
    <3>1. Children(n) \subseteq Nodes
      BY DEF Children
    <3>2. Children(n) \subseteq Nat /\ IsFiniteSet(Children(n))
      BY <3>1, TreeNumbers, NodesAreFinite
    <3> DEFINE K == Children(n)
    <3>3. K \subseteq Nat /\ IsFiniteSet(K) /\ below = Ascending(K)
      BY <3>2
    <3> HIDE DEF K, below
    <3>4. Ascending(K) \in Seq(K)
      BY <3>3, AscendingLists
    <3>5. \A i \in DOMAIN below : below[i] \in K
      BY <3>3, <3>4
    <3> QED  BY <3>5 DEF K
  <2>3. \A i \in DOMAIN below : memberOf(below[i]) = members[below[i]]
    BY <2>2
  <2> HIDE DEF memberOf, members, below, inFunction, inRegionBelow
  <2>4. [i \in DOMAIN below |-> Visit(below[i], depth, bonus, inFunction, inRegionBelow, memberOf(below[i]))]
        = VisitsOf(below, depth, bonus, inFunction, inRegionBelow, members)
    BY <2>3 DEF VisitsOf
  <2>5. todo' = VisitsOf(below, depth, bonus, inFunction, inRegionBelow, members) \o <<Closing(n)>> \o Tail(todo)
    BY <1>1, <2>4
  <2>6. depth = Depth(n) /\ bonus = Bonus(n)
    BY <1>6
  <2>7. inFunction \in BOOLEAN /\ inRegionBelow \in BOOLEAN
    BY DEF inFunction, inRegionBelow
  <2>8. (inFunction <=> HoldsFunction(n)) /\ (inRegionBelow <=> Region(n))
    BY <1>6
  <2>9. below = Ascending(Children(n)) /\ n \in Nodes
    BY <1>6 DEF below
  <2>10. TodoFits(todo) /\ Len(todo) >= 1
    BY <1>2, <1>3
  <2> HIDE DEF n
  <2> QED  BY <2>1, <2>5, <2>6, <2>7, <2>8, <2>9, <2>10, TodoOfVisit
<1>17. TodoFits(todo') /\ Seen(todo') = seen \cup {n} /\ n \notin seen /\ Open(todo') = Up(n)
  <2>1. n = todo[1].node /\ todo[1].step = "visit"
    BY <1>1, <1>3
  <2>2. below = Ascending(Children(n))
    OBVIOUS
  <2> HIDE DEF n, below
  <2>3. /\ TodoFits(todo') /\ Seen(todo') = Seen(todo) \cup {n} /\ n \notin Seen(todo)
        /\ Open(todo') = Up(n)
    BY <1>2, <1>3, <1>16, <2>1, <2>2, AfterVisit
  <2> QED  BY <2>3
<1>18. Up(n) = open \cup {n}
  BY <1>6, UpFromParent
<1>19. Measured(results', seen \cup {n}, Up(n))
  <2>1. Measured(results, seen \cup {n}, open \cup {n})
    BY <1>2, <1>4, <1>17, MeasuredAtVisit
  <2> QED  BY <1>1, <1>18, <2>1
<1>20. nestedClassDecisions' = Cardinality(KeptByClasses(seen \cup {n}))
  <2> HIDE DEF keeps, seen, n
  <2> QED  BY <1>1, <1>2, <1>6, <1>7, <1>8, <1>17, KeptAtVisit
<1> HIDE DEF n, seen
<1> QED  BY <1>15, <1>17, <1>19, <1>20 DEF WalkFits, StandingFits

-----------------------------------------------------------------------------
(* A closing.                                                              *)

(* The last frame replaced by another that fits.                           *)
LEMMA LastFrameReplaced ==
  ASSUME NEW fs, NEW frs, NEW seen, NEW open, FramesFit(fs, frs, seen, open),
         NEW top, top = fs[Len(fs)], NEW e,
         FrameFits(top, e, Held(top, seen, open), HeldStatements(top, seen, open), OwnBody(top) \cap seen)
  PROVE  FramesFit(fs, Front(frs) \o <<e>>, seen, open)
<1> DEFINE q == Front(frs) \o <<e>>
           L == Len(fs)
<1>1. /\ fs \in Seq(Nat) /\ L >= 1 /\ fs[1] = 0 /\ IsList(frs) /\ Len(frs) = L
      /\ \A i, j \in 1..L : i < j => fs[i] < fs[j]
      /\ \A g : g \in Owners(open) <=> \E i \in 1..L : fs[i] = g
      /\ \A i \in 1..L : FrameFits(fs[i], frs[i], Held(fs[i], seen, open),
                                   HeldStatements(fs[i], seen, open), OwnBody(fs[i]) \cap seen)
  BY DEF FramesFit
<1>2. IsList(frs) /\ Len(frs) >= 1
  BY <1>1
<1>3. Replaces(q, frs, e)
  BY <1>2, Replaced
<1> HIDE DEF q
<1>4. IsList(q) /\ Len(q) = L /\ q[L] = e /\ \A i \in 1..L : i # L => q[i] = frs[i]
  BY <1>1, <1>3 DEF Replaces
<1>5. ASSUME NEW i \in 1..L
      PROVE  FrameFits(fs[i], q[i], Held(fs[i], seen, open), HeldStatements(fs[i], seen, open),
                       OwnBody(fs[i]) \cap seen)
  <2>1. CASE i = L
    <3>1. fs[i] = top /\ q[i] = e
      BY <1>4, <2>1
    <3> QED  BY <3>1
  <2>2. CASE i # L
    <3>1. q[i] = frs[i]
      BY <1>4, <2>2
    <3> QED  BY <1>1, <3>1
  <2> QED  BY <2>1, <2>2
<1>6. FramesFit(fs, q, seen, open)
  BY <1>1, <1>4, <1>5 DEF FramesFit
<1> QED  BY <1>6 DEF q

(* Only the functions among the open nodes matter.                         *)
LEMMA OpenFunctionsMatter ==
  ASSUME NEW open, NEW other, open \cap Boundaries = other \cap Boundaries,
         NEW fs, NEW frs, NEW seen, NEW res
  PROVE  /\ FramesFit(fs, frs, seen, open) => FramesFit(fs, frs, seen, other)
         /\ Measured(res, seen, open) => Measured(res, seen, other)
<1>1. Owners(open) = Owners(other)
  BY DEF Owners
<1>2. \A f : Held(f, seen, open) = Held(f, seen, other)
  BY DEF Held
<1>3. \A f : HeldStatements(f, seen, open) = HeldStatements(f, seen, other)
  BY DEF HeldStatements
<1>4. (Boundaries \cap seen) \ open = (Boundaries \cap seen) \ other
  OBVIOUS
<1>5. FramesFit(fs, frs, seen, open) => FramesFit(fs, frs, seen, other)
  BY <1>1, <1>2, <1>3 DEF FramesFit
<1>6. Measured(res, seen, open) => Measured(res, seen, other)
  BY <1>4 DEF Measured
<1> QED  BY <1>5, <1>6

(* A node that is no function closes. *)
LEMMA FramesAtPlainClosing ==
  ASSUME IsTree(tree), NEW n \in Nodes, n \notin Boundaries, NEW seen, NEW fs, NEW frs,
         FramesFit(fs, frs, seen, Up(n))
  PROVE  FramesFit(fs, Front(frs) \o <<WithBlockClosed(Last(frs), n)>>, seen, Up(Parent(n)))
<1> DEFINE top == fs[Len(fs)]
           closed == Last(frs)
           e == WithBlockClosed(closed, n)
<1>1. Len(fs) \in Nat /\ Len(fs) >= 1 /\ Len(fs) \in 1..Len(fs)
  BY InnermostIsLast
<1>2. FrameFits(top, closed, Held(top, seen, Up(n)), HeldStatements(top, seen, Up(n)), OwnBody(top) \cap seen)
  <2>1. /\ Len(frs) = Len(fs)
        /\ \A i \in 1..Len(fs) : FrameFits(fs[i], frs[i], Held(fs[i], seen, Up(n)),
                                           HeldStatements(fs[i], seen, Up(n)), OwnBody(fs[i]) \cap seen)
    BY DEF FramesFit
  <2>2. closed = frs[Len(fs)]
    BY <2>1 DEF Last
  <2> QED  BY <1>1, <2>1, <2>2
<1> HIDE DEF closed
<1>3. FrameFits(top, e, Held(top, seen, Up(n)), HeldStatements(top, seen, Up(n)), OwnBody(top) \cap seen)
  BY <1>2, BlockClosedFits
<1> HIDE DEF e
<1>4. FramesFit(fs, Front(frs) \o <<e>>, seen, Up(n))
  BY <1>3, LastFrameReplaced
<1>5. Up(n) \cap Boundaries = Up(Parent(n)) \cap Boundaries
  BY UpFromParent
<1>6. FramesFit(fs, Front(frs) \o <<e>>, seen, Up(Parent(n)))
  BY <1>4, <1>5, OpenFunctionsMatter
<1> QED  BY <1>6 DEF e, closed

(* A function closes, and leaves its totals to the one around it. *)
LEMMA FramesAtFunctionClosing ==
  ASSUME IsTree(tree), NEW n \in Boundaries, NEW seen, Subtree(n) \subseteq seen, NEW fs, NEW frs,
         FramesFit(fs, frs, seen, Up(n))
  PROVE  /\ \E gs : FramesFit(gs, Front(Front(frs)) \o <<WithBlockClosed(Hoisted(Last(frs), Last(Front(frs))), n)>>,
                              seen, Up(Parent(n)))
         /\ Alone(n, Metrics(Last(frs)))
<1> DEFINE L == Len(fs)
           p == fs[L - 1]
           closed == Last(frs)
           around == Last(Front(frs))
           hoisted == Hoisted(closed, around)
           e == WithBlockClosed(hoisted, n)
           H == Held(p, seen, Up(n))
           S == HeldStatements(p, seen, Up(n))
           O == OwnBody(p) \cap seen
<1>1. /\ L \in Nat /\ L >= 2 /\ fs[L] = n
      /\ FrameFits(n, frs[L], Subtree(n) \ {n}, Subtree(n), OwnBody(n))
      /\ p \in Owners(Up(Parent(n))) /\ \A g \in Owners(Up(Parent(n))) : g <= p
  BY FramesAtClosing
<1>2. \A x : FrameFits(p, x, Held(p, seen, Up(Parent(n))), HeldStatements(p, seen, Up(Parent(n))), O)
             => \E gs : FramesFit(gs, Front(Front(frs)) \o <<x>>, seen, Up(Parent(n)))
  BY FramesAtClosing
<1>3. /\ IsList(frs) /\ Len(frs) = L
      /\ \A i \in 1..L : FrameFits(fs[i], frs[i], Held(fs[i], seen, Up(n)),
                                   HeldStatements(fs[i], seen, Up(n)), OwnBody(fs[i]) \cap seen)
  BY DEF FramesFit
<1>4. closed = frs[L] /\ around = frs[L - 1]
  <2>1. PICK T : frs \in Seq(T)
    BY <1>3 DEF IsList
  <2>2. Len(frs) >= 1
    BY <1>1, <1>3
  <2>3. Front(frs) \in Seq(T) /\ Len(Front(frs)) = L - 1 /\ \A i \in 1..(L - 1) : Front(frs)[i] = frs[i]
    BY <1>3, <2>1, <2>2, FrontIs
  <2>4. L - 1 \in 1..(L - 1)
    BY <1>1
  <2> QED  BY <1>3, <2>3, <2>4 DEF Last
<1>5. FrameFits(n, closed, Subtree(n) \ {n}, Subtree(n), OwnBody(n))
  BY <1>1, <1>4
<1>6. FrameFits(p, around, H, S, O)
  <2>1. L - 1 \in 1..L
    BY <1>1
  <2> QED  BY <1>3, <1>4, <2>1
<1>7. n \in Nodes
  BY KindsOfNodes
<1>8. IsInnermost(p, n)
  BY <1>1 DEF IsInnermost
<1>9. TakesSubtree(p, seen, n)
  <2>1. p \in Owners(Up(Parent(n)))
    BY <1>1
  <2> HIDE DEF p
  <2> QED  BY <1>8, <2>1, HeldAtClosing
<1>10. p \in 0..Size /\ n \in Subtree(p) \ {p}
  <2>1. p \in Owners(Up(Parent(n)))
    BY <1>1
  <2> HIDE DEF p
  <2> QED  BY <1>7, <2>1, OwnersHold
<1>11. H \cap (Subtree(n) \ {n}) = {} /\ S \cap Subtree(n) = {}
  BY <1>9 DEF TakesSubtree
<1>12. /\ Held(p, seen, Up(Parent(n))) = H \cup (Subtree(n) \ {n})
       /\ HeldStatements(p, seen, Up(Parent(n))) = S \cup Subtree(n)
  BY <1>9 DEF TakesSubtree
<1> HIDE DEF closed, around, H, S, O, p
<1>13. FrameFits(p, hoisted, H \cup (Subtree(n) \ {n}), S \cup Subtree(n), O)
  <2>1. p \in 0..Size
    BY <1>10
  <2>2. n \in Subtree(p) \ {p}
    BY <1>10
  <2> QED  BY <1>5, <1>6, <1>11, <2>1, <2>2, HoistedFits
<1> HIDE DEF hoisted
<1>14. FrameFits(p, e, H \cup (Subtree(n) \ {n}), S \cup Subtree(n), O)
  BY <1>13, BlockClosedFits
<1> HIDE DEF e
<1>15. FrameFits(p, e, Held(p, seen, Up(Parent(n))), HeldStatements(p, seen, Up(Parent(n))), O)
  BY <1>12, <1>14
<1>16. \E gs : FramesFit(gs, Front(Front(frs)) \o <<e>>, seen, Up(Parent(n)))
  BY <1>2, <1>15
<1>17. Alone(n, Metrics(closed))
  BY <1>5, <1>7, ClosedIsAlone
<1> QED  BY <1>16, <1>17 DEF e, hoisted, closed, around

LEMMA MeasuredAtClosing ==
  ASSUME IsTree(tree), NEW n \in Boundaries, NEW seen, Subtree(n) \subseteq seen,
         NEW res, Measured(res, seen, Up(n)), NEW r, Alone(n, r)
  PROVE  Measured(WithMetrics(res, n, r), seen, Up(Parent(n)))
<1> DEFINE t == WithMetrics(res, n, r)
<1>1. n \in Nodes
  BY KindsOfNodes
<1>2. Up(n) = Up(Parent(n)) \cup {n} /\ n \notin Up(Parent(n))
  BY <1>1, UpFromParent
<1>3. n \in seen
  <2>1. n \in 0..Size
    BY <1>1, TreeNumbers
  <2> QED  BY <2>1, SubtreesNest
<1>4. DOMAIN res = (Boundaries \cap seen) \ Up(n) /\ \A f \in DOMAIN res : Alone(f, res[f])
  BY DEF Measured
<1>5. n \notin DOMAIN res
  BY <1>2, <1>4
<1>6. /\ DOMAIN t = DOMAIN res \cup {n} /\ t[n] = r
      /\ \A f \in DOMAIN res : t[f] = res[f]
  BY <1>5 DEF WithMetrics
<1> HIDE DEF t
<1>7. DOMAIN t = (Boundaries \cap seen) \ Up(Parent(n))
  BY <1>2, <1>3, <1>4, <1>6
<1>8. \A f \in DOMAIN t : Alone(f, t[f])
  BY <1>4, <1>6
<1>9. Measured(t, seen, Up(Parent(n)))
  BY <1>7, <1>8 DEF Measured
<1> QED  BY <1>9 DEF t

LEMMA AClosingFits ==
  ASSUME IsTree(tree), WalkFits(todo, frames, results, nestedClassDecisions), CloseNode
  PROVE  WalkFits(todo', frames', results', nestedClassDecisions')
<1> DEFINE n == Head(todo).node
           seen == Seen(todo)
           opened == IsFunctionBoundary(n)
           closed == Last(frames)
           around == IF opened THEN Front(frames) ELSE frames
           parent == IF opened THEN Hoisted(closed, Last(around)) ELSE closed
<1>1. /\ todo # <<>> /\ Head(todo).step = "close" /\ todo' = Tail(todo)
      /\ nestedClassDecisions' = nestedClassDecisions
      /\ frames' = Front(around) \o <<WithBlockClosed(parent, n)>>
      /\ results' = IF opened THEN WithMetrics(results, n, Metrics(closed)) ELSE results
  BY DEF CloseNode
<1>2. TodoFits(todo) /\ Measured(results, seen, Open(todo))
      /\ nestedClassDecisions = Cardinality(KeptByClasses(seen))
  BY DEF WalkFits, StandingFits
<1>3. Len(todo) >= 1 /\ todo[1].step = "close" /\ n = todo[1].node /\ 1 \in 1..Len(todo)
  <2>1. todo \in Seq(Visits \cup Closings)
    BY <1>2 DEF TodoFits
  <2>2. todo # <<>>
    BY <1>1
  <2>3. Len(todo) \in Nat /\ Len(todo) >= 1 /\ Head(todo) = todo[1] /\ 1 \in 1..Len(todo)
    <3> DEFINE X == Visits \cup Closings
    <3>1. todo \in Seq(X)
      BY <2>1
    <3> HIDE DEF X
    <3> QED  BY <2>2, <3>1
  <2> QED  BY <1>1, <2>3
<1> HIDE DEF n
<1>4. n \in Nodes
  BY <1>2, <1>3, ItemsAre
<1>5. Open(todo) = Up(n) /\ Subtree(n) \subseteq seen
  BY <1>2, <1>3, AtClosing
<1>6. TodoFits(todo') /\ Seen(todo') = seen /\ Open(todo') = Up(Parent(n))
  BY <1>1, <1>2, <1>3, AfterClosing
<1>7. PICK fs : FramesFit(fs, frames, seen, Up(n))
  BY <1>5 DEF WalkFits, StandingFits
<1>8. opened <=> n \in Boundaries
  BY <1>4 DEF Boundaries
<1> HIDE DEF seen
<1>9. /\ \E gs : FramesFit(gs, frames', seen, Up(Parent(n)))
      /\ Measured(results', seen, Up(Parent(n)))
  <2>1. CASE opened
    <3>1. /\ frames' = Front(Front(frames)) \o <<WithBlockClosed(Hoisted(Last(frames), Last(Front(frames))), n)>>
          /\ results' = WithMetrics(results, n, Metrics(Last(frames)))
      BY <1>1, <2>1
    <3>2. n \in Boundaries
      BY <1>8, <2>1
    <3>3. /\ \E gs : FramesFit(gs, Front(Front(frames))
                                     \o <<WithBlockClosed(Hoisted(Last(frames), Last(Front(frames))), n)>>,
                               seen, Up(Parent(n)))
          /\ Alone(n, Metrics(Last(frames)))
      BY <1>5, <1>7, <3>2, FramesAtFunctionClosing
    <3>4. Measured(results, seen, Up(n))
      BY <1>2, <1>5
    <3>5. Measured(WithMetrics(results, n, Metrics(Last(frames))), seen, Up(Parent(n)))
      BY <1>5, <3>2, <3>3, <3>4, MeasuredAtClosing
    <3> QED  BY <3>1, <3>3, <3>5
  <2>2. CASE ~opened
    <3>1. /\ frames' = Front(frames) \o <<WithBlockClosed(Last(frames), n)>>
          /\ results' = results
      BY <1>1, <2>2
    <3>2. n \notin Boundaries
      BY <1>8, <2>2
    <3>3. FramesFit(fs, Front(frames) \o <<WithBlockClosed(Last(frames), n)>>, seen, Up(Parent(n)))
      BY <1>4, <1>7, <3>2, FramesAtPlainClosing
    <3>4. Up(n) \cap Boundaries = Up(Parent(n)) \cap Boundaries
      BY <1>4, <3>2, UpFromParent
    <3>5. Measured(results, seen, Up(Parent(n)))
      BY <1>2, <1>5, <3>4, OpenFunctionsMatter
    <3> QED  BY <3>1, <3>3, <3>5
  <2> QED  BY <2>1, <2>2
<1> QED  BY <1>1, <1>2, <1>6, <1>9 DEF WalkFits, StandingFits

-----------------------------------------------------------------------------
(* The tree and its language never change, and nothing that is read of     *)
(* them does.                                                              *)

LEMMA SameShape ==
  ASSUME UNCHANGED <<tree, language>>, NEW n, NEW m
  PROVE  /\ Nodes' = Nodes /\ Size' = Size /\ Kind(n)' = Kind(n) /\ Parent(n)' = Parent(n)
         /\ Subtree(n)' = Subtree(n) /\ Ancestors(n)' = Ancestors(n) /\ Path(n, m)' = Path(n, m)
         /\ Up(n)' = Up(n)
BY DEF Nodes, Size, Kind, Parent, Subtree, Ancestors, Path, Up

LEMMA SameFunctions ==
  ASSUME UNCHANGED <<tree, language>>, NEW n
  PROVE  IsFunctionBoundary(n)' = IsFunctionBoundary(n)
BY DEF IsFunctionBoundary, IsImplementedFunction, Kind, NamedChildren, Named, Children, Parent,
       Nodes, ChildByField, IsExtra, HasField, IsLambdaBodyBlock, Rules

LEMMA SamePaths ==
  ASSUME UNCHANGED <<tree, language>>, NEW n
  PROVE  IsPath(n)' = IsPath(n)
BY DEF IsPath, IsPatternGuard, Kind, Named, Children, Parent, Nodes, ChildByField, IsExtra,
       IsBooleanOperator, IsDecision, IsPathlessBranch, IsDefaultBranch, NamedChildren,
       IsPythonIrrefutable, NonCommentChildren, ChildKinds, IsWrappedPattern, Path, Subtree,
       Ancestors, HasField, IsCSharpCatchAll, StackedLabels, IsLabelOnlyCase, HasPatternGuard,
       IsElseIfClause, Rules

LEMMA SameNesting ==
  ASSUME UNCHANGED <<tree, language>>, NEW n
  PROVE  IsNesting(n)' = IsNesting(n)
BY DEF IsNesting, IsChainContinuation, Parent, ChildByField, IsExtra, Kind, Children, Nodes,
       IsElseIfClause, HasField, IsDecision, IsPathlessBranch, IsDefaultBranch, NamedChildren,
       Named, IsPythonIrrefutable, NonCommentChildren, ChildKinds, IsWrappedPattern, Path, Subtree,
       Ancestors, IsCSharpCatchAll, StackedLabels, IsLabelOnlyCase, HasPatternGuard, IsPatternGuard,
       Rules, IsCaseElse

LEMMA SameFlatPoints ==
  ASSUME UNCHANGED <<tree, language>>, NEW n
  PROVE  FlatPoints(n)' = FlatPoints(n)
BY DEF FlatPoints, StartsOperatorSequence, Kind, OperatorOf, Named, Children, Parent, Nodes,
       ChildByField, IsExtra, HasField, AncestorBeyond, Ancestors, IsBooleanOperator,
       IsPatternGuard, IsFlowBreakingJump, NonCommentChildren, NamedChildren, PlainElseBranches,
       FieldChildren, FillsField, IsElseIfClause, IsCaseElse, IsChainContinuation, IsCaseClause,
       IsDecision, IsPathlessBranch, IsDefaultBranch, IsPythonIrrefutable, ChildKinds,
       IsWrappedPattern, Path, Subtree, IsCSharpCatchAll, StackedLabels, IsLabelOnlyCase,
       HasPatternGuard, Rules

LEMMA SameNestedPoints ==
  ASSUME UNCHANGED <<tree, language>>, NEW n
  PROVE  NestedPoints(n)' = NestedPoints(n)
BY DEF NestedPoints, IsSwitchLike, Kind, Named, IsChainContinuation, Parent, ChildByField, IsExtra,
       Children, Nodes, IsElseIfClause, HasField, IsCaseClause, IsDecision, IsPathlessBranch,
       IsDefaultBranch, NamedChildren, IsPythonIrrefutable, NonCommentChildren, ChildKinds,
       IsWrappedPattern, Path, Subtree, Ancestors, IsCSharpCatchAll, StackedLabels, IsLabelOnlyCase,
       HasPatternGuard, IsPatternGuard, Rules

LEMMA SameStatements ==
  ASSUME UNCHANGED <<tree, language>>, NEW n
  PROVE  NcssContribution(n)' = NcssContribution(n)
BY DEF NcssContribution, BareAlternatives, Kind, IsExtra, FieldChildren, FillsField, Parent,
       Children, Nodes, IsElseIfClause, HasField, ChildByField, IsDeclarationWrapper, Rules,
       CountsContextually, InGoDeclaredType, NamedChildren, Named, Fills, CountsByPosition,
       IsKotlinTry, IsBareBody, InContainerPosition, AncestorBeyond, Ancestors, CountsThroughKind,
       IsImplementedFunction, IsForHeader

LEMMA SameKinds ==
  ASSUME UNCHANGED <<tree, language>>
  PROVE  /\ Boundaries' = Boundaries /\ ClassBodies' = ClassBodies /\ NestingNodes' = NestingNodes
         /\ Raising' = Raising /\ \A n : IsMember(n)' = IsMember(n)
<1>1. Boundaries' = Boundaries
  BY SameShape, SameFunctions DEF Boundaries
<1>2. \A n : InsideFunction(n)' = InsideFunction(n)
  BY <1>1, SameShape DEF InsideFunction
<1>3. ClassBodies' = ClassBodies
  BY <1>2, SameShape DEF ClassBodies
<1>4. NestingNodes' = NestingNodes
  BY SameShape, SameNesting DEF NestingNodes
<1>5. \A n : IsMember(n)' = IsMember(n)
  BY <1>3, SameShape DEF IsMember
<1>6. Raising' = Raising
  BY <1>1, <1>2, <1>5 DEF Raising
<1> QED  BY <1>1, <1>3, <1>4, <1>5, <1>6

LEMMA SameLevels ==
  ASSUME UNCHANGED <<tree, language>>, NEW n
  PROVE  /\ Depth(n)' = Depth(n) /\ Bonus(n)' = Bonus(n) /\ Entry(n)' = Entry(n)
         /\ HoldsFunction(n)' = HoldsFunction(n) /\ Region(n)' = Region(n)
<1>1. Depth(n)' = Depth(n)
  BY SameShape, SameKinds DEF Depth
<1>2. Bonus(n)' = Bonus(n)
  BY SameShape, SameKinds DEF Bonus
<1>3. Entry(n)' = Entry(n)
  BY <1>1, <1>2 DEF Entry
<1>4. HoldsFunction(n)' = HoldsFunction(n)
  BY SameShape, SameKinds DEF HoldsFunction
<1>5. Region(n)' = Region(n)
  BY SameShape, SameKinds DEF Region
<1> QED  BY <1>1, <1>2, <1>3, <1>4, <1>5

LEMMA SameBodies ==
  ASSUME UNCHANGED <<tree, language>>, NEW f, NEW n
  PROVE  /\ OwnBody(f)' = OwnBody(f) /\ NestedIn(f, n)' = NestedIn(f, n) /\ Levels(f, n)' = Levels(f, n)
         /\ Points(f, n)' = Points(f, n)
<1>1. OwnBody(f)' = OwnBody(f)
  BY SameShape, SameKinds DEF OwnBody
<1>2. NestedIn(f, n)' = NestedIn(f, n)
  BY SameShape, SameNesting DEF NestedIn
<1>3. \A k : InsideFunction(k)' = InsideFunction(k)
  BY SameShape, SameKinds DEF InsideFunction
<1>4. Levels(f, n)' = Levels(f, n)
  BY <1>3, SameShape, SameNesting, SameKinds DEF Levels
<1>5. Points(f, n)' = Points(f, n)
  BY <1>4, SameFlatPoints, SameNestedPoints DEF Points
<1> QED  BY <1>1, <1>2, <1>4, <1>5

LEMMA SameTotals ==
  ASSUME UNCHANGED <<tree, language>>, NEW f, NEW X
  PROVE  /\ PointsIn(f, X)' = PointsIn(f, X) /\ Statements(X)' = Statements(X)
         /\ Sensitive(X)' = Sensitive(X)
<1>1. PointsIn(f, X)' = PointsIn(f, X)
  BY SameShape, SameBodies DEF PointsIn
<1>2. Statements(X)' = Statements(X)
  BY SameShape, SameStatements DEF Statements
<1>3. SensitiveWorth' = SensitiveWorth
  BY SameShape, SameNestedPoints DEF SensitiveWorth
<1>4. Sensitive(X)' = Sensitive(X)
  BY <1>3, SameShape DEF Sensitive
<1> QED  BY <1>1, <1>2, <1>4

LEMMA SameTodo ==
  ASSUME UNCHANGED <<tree, language>>, NEW td
  PROVE  /\ TodoFits(td)' <=> TodoFits(td)
         /\ Seen(td)' = Seen(td) /\ Open(td)' = Open(td)
<1>1. Visits' = Visits /\ Closings' = Closings
  BY SameShape DEF Visits, Closings
<1>2. \A v : IsVisit(v)' = IsVisit(v)
  BY SameShape, SameLevels, SameKinds DEF IsVisit
<1>3. TodoFits(td)' <=> TodoFits(td)
  <2>1. (td \in Seq(Visits \cup Closings))' <=> td \in Seq(Visits \cup Closings)
    BY <1>1
  <2>2. (\A i \in 1..Len(td) : td[i].step = "visit" => IsVisit(td[i]))'
        <=> \A i \in 1..Len(td) : td[i].step = "visit" => IsVisit(td[i])
    BY <1>2
  <2>3. \A n : Subtree(n)' = Subtree(n) /\ Up(n)' = Up(n) /\ Parent(n)' = Parent(n)
    BY SameShape
  <2>4. \A n : Up(Parent(n))' = Up(Parent(n))
    BY SameShape DEF Up, Ancestors, Parent, Nodes
  <2> QED  BY <2>1, <2>2, <2>3, <2>4 DEF TodoFits
<1>4. Seen(td)' = Seen(td)
  BY SameShape DEF Seen
<1>5. Open(td)' = Open(td)
  BY SameShape DEF Open
<1> QED  BY <1>3, <1>4, <1>5

LEMMA SameFrame ==
  ASSUME UNCHANGED <<tree, language>>, NEW f, NEW fr, NEW H, NEW S, NEW O
  PROVE  FrameFits(f, fr, H, S, O)' <=> FrameFits(f, fr, H, S, O)
<1>1. \A n \in O : IsPath(n)' = IsPath(n)
  BY SamePaths
<1>2. {n \in O : IsPath(n)}' = {n \in O : IsPath(n)}
  BY <1>1
<1>3. DepthsOf(f, O)' = DepthsOf(f, O)
  BY SameBodies DEF DepthsOf
<1>4. IsDeepest(f, fr.depth, O)' = IsDeepest(f, fr.depth, O)
  BY <1>3 DEF IsDeepest
<1>5. /\ PointsIn(f, H)' = PointsIn(f, H) /\ Statements(S)' = Statements(S)
      /\ Sensitive(H)' = Sensitive(H)
  BY SameTotals
<1>6. /\ NcssContribution(f)' = NcssContribution(f) /\ Entry(f)' = Entry(f) /\ Depth(f)' = Depth(f)
  BY SameStatements, SameLevels
<1> QED  BY <1>2, <1>4, <1>5, <1>6 DEF FrameFits

LEMMA SameFrames ==
  ASSUME UNCHANGED <<tree, language>>, NEW fs, NEW frs, NEW seen, NEW open
  PROVE  FramesFit(fs, frs, seen, open)' <=> FramesFit(fs, frs, seen, open)
<1>1. Owners(open)' = Owners(open)
  BY SameKinds DEF Owners
<1>2. \A f : /\ Held(f, seen, open)' = Held(f, seen, open)
             /\ HeldStatements(f, seen, open)' = HeldStatements(f, seen, open)
             /\ OwnBody(f)' = OwnBody(f)
  BY SameShape, SameKinds, SameBodies DEF Held, HeldStatements
<1> DEFINE Fits(i) == FrameFits(fs[i], frs[i], Held(fs[i], seen, open),
                                HeldStatements(fs[i], seen, open), OwnBody(fs[i]) \cap seen)
<1>3. \A i : Fits(i)' <=> Fits(i)
  <2> TAKE i
  <2>1. \A H, S, O : FrameFits(fs[i], frs[i], H, S, O)' <=> FrameFits(fs[i], frs[i], H, S, O)
    BY SameFrame
  <2> QED  BY <1>2, <2>1
<1>4. (\A i \in 1..Len(fs) : Fits(i))' <=> \A i \in 1..Len(fs) : Fits(i)
  <2> HIDE DEF Fits
  <2> QED  BY <1>3
<1>5. (\A g : g \in Owners(open) <=> \E i \in 1..Len(fs) : fs[i] = g)'
      <=> \A g : g \in Owners(open) <=> \E i \in 1..Len(fs) : fs[i] = g
  BY <1>1
<1> QED  BY <1>4, <1>5 DEF FramesFit

LEMMA SameAlone ==
  ASSUME UNCHANGED <<tree, language>>, NEW f, NEW r
  PROVE  Alone(f, r)' = Alone(f, r)
<1>1. OwnBody(f)' = OwnBody(f) /\ Subtree(f)' = Subtree(f)
  BY SameBodies, SameShape
<1>2. {n \in OwnBody(f) : IsPath(n)}' = {n \in OwnBody(f) : IsPath(n)}
  BY <1>1, SamePaths
<1>3. {Cardinality({k \in Path(f, n) : IsNesting(k)}) : n \in OwnBody(f)}'
      = {Cardinality({k \in Path(f, n) : IsNesting(k)}) : n \in OwnBody(f)}
  BY <1>1, SameBodies DEF NestedIn
<1>4. \A X : PointsIn(f, X)' = PointsIn(f, X) /\ Statements(X)' = Statements(X)
  BY SameTotals
<1>5. NcssContribution(f)' = NcssContribution(f)
  BY SameStatements
<1> QED  BY <1>1, <1>2, <1>3, <1>4, <1>5 DEF Alone

LEMMA SameStanding ==
  ASSUME UNCHANGED <<tree, language>>, NEW frs, NEW res, NEW kept, NEW seen, NEW open
  PROVE  StandingFits(frs, res, kept, seen, open)' <=> StandingFits(frs, res, kept, seen, open)
<1>1. \A fs : FramesFit(fs, frs, seen, open)' <=> FramesFit(fs, frs, seen, open)
  BY SameFrames
<1>2. Measured(res, seen, open)' <=> Measured(res, seen, open)
  BY SameKinds, SameAlone DEF Measured
<1>3. KeptByClasses(seen)' = KeptByClasses(seen)
  BY SameKinds, SamePaths, SameLevels DEF KeptByClasses
<1> QED  BY <1>1, <1>2, <1>3 DEF StandingFits

LEMMA SameWalk ==
  ASSUME UNCHANGED <<tree, language>>, NEW td, NEW frs, NEW res, NEW kept
  PROVE  WalkFits(td, frs, res, kept)' <=> WalkFits(td, frs, res, kept)
<1>1. TodoFits(td)' <=> TodoFits(td)
  BY SameTodo
<1>2. Seen(td)' = Seen(td) /\ Open(td)' = Open(td)
  BY SameTodo
<1>3. \A seen, open :
        StandingFits(frs, res, kept, seen, open)' <=> StandingFits(frs, res, kept, seen, open)
  BY SameStanding
<1>4. (\E seen, open : seen = Seen(td) /\ open = Open(td) /\ StandingFits(frs, res, kept, seen, open))'
      <=> \E seen, open : seen = Seen(td) /\ open = Open(td) /\ StandingFits(frs, res, kept, seen, open)
  BY <1>2, <1>3
<1> QED  BY <1>1, <1>4 DEF WalkFits

-----------------------------------------------------------------------------
(* The end of the walk.                                                    *)

OwnPaths(f) == {n \in OwnBody(f) : IsPath(n)}

(* A function's own body is no other's, and what class bodies keep is no function's. *)
LEMMA OwnBodiesAreApart ==
  ASSUME IsTree(tree), NEW f \in 0..Size, NEW g \in Boundaries, f < g
  PROVE  OwnBody(f) \cap OwnBody(g) = {}
<1> SUFFICES ASSUME NEW n \in OwnBody(f), n \in OwnBody(g) PROVE FALSE
  OBVIOUS
<1>1. g \in Nodes /\ g \in 0..Size
  BY KindsOfNodes, TreeNumbers
<1>2. n \in Subtree(g) \ {g}
  BY DEF OwnBody
<1>3. n \in Nodes
  BY <1>1, <1>2, WayDown
<1>4. g \in Up(n) \cap Boundaries
  BY <1>1, <1>2, <1>3, UpIs
<1> QED  BY <1>3, <1>4, NotInOwnBody

LEMMA OwnBodiesHold ==
  ASSUME IsTree(tree), NEW f \in {0} \cup Boundaries, NEW n \in OwnBody(f)
  PROVE  n \in Nodes /\ n \notin Boundaries /\ ~Region(n)
<1>1. f \in 0..Size /\ Size \in Nat
  BY KindsOfNodes, TreeNumbers
<1>2. n \in Subtree(f) \ {f}
  BY DEF OwnBody
<1>3. n \in Nodes /\ f < n
  BY <1>1, <1>2, WayDown
<1>4. Up(n) = Up(Parent(n)) \cup {n} /\ Up(n) \subseteq 1..n
  BY <1>3, UpFromParent
<1>5. \A g \in Up(Parent(n)) \cap Boundaries : g <= f
  <2> TAKE g \in Up(Parent(n)) \cap Boundaries
  <2>1. g \in Up(n) \cap Boundaries /\ g \in Int
    BY <1>4
  <2>2. ~(f < g)
    BY <1>1, <1>3, <2>1, NotInOwnBody
  <2> QED  BY <1>1, <2>1, <2>2
<1>6. f = 0 \/ f \in Up(Parent(n)) \cap Boundaries
  <2>1. CASE f \in Boundaries
    <3>1. f \in Nodes
      BY <2>1, KindsOfNodes
    <3>2. f \in Up(n)
      BY <1>2, <1>3, <3>1, UpIs
    <3> QED  BY <1>2, <1>4, <2>1, <3>2
  <2> QED  BY <2>1
<1>7. n \in OwnBody(f) <=> n \notin Boundaries /\ ~Region(n)
  BY <1>1, <1>2, <1>5, <1>6, OwnBodyIs
<1> QED  BY <1>3, <1>7

(* What no class body keeps is in some function's own body, or the file's. *)
LEMMA SomeoneOwns ==
  ASSUME IsTree(tree), NEW n \in Nodes, n \notin Boundaries, ~Region(n)
  PROVE  \E f \in {0} \cup Boundaries : n \in OwnBody(f)
<1> DEFINE S == Owners(Up(Parent(n)))
           f == Max(S)
<1>1. \A g \in S : g \in 0..Size /\ g < n /\ n \in Subtree(g) \ {g}
                   /\ (g = 0 \/ g \in Up(Parent(n)) \cap Boundaries)
  BY OwnersHold
<1>2. Size \in Nat
  BY TreeNumbers
<1>3. 0 \in S
  BY DEF Owners
<1>4. S \subseteq Nat /\ S # {} /\ IsFiniteSet(S)
  <2>1. S \subseteq 0..Size
    BY <1>1
  <2>2. 0 \in Int /\ Size \in Int
    BY <1>2
  <2>3. IsFiniteSet(0..Size)
    BY <2>2, FS_Interval
  <2> HIDE DEF S
  <2>4. IsFiniteSet(S)
    BY <2>1, <2>3, FS_Subset
  <2> QED  BY <1>2, <1>3, <2>1, <2>4
<1>5. \A g \in Up(Parent(n)) \cap Boundaries : g \in S
  BY DEF Owners
<1> HIDE DEF S
<1>6. f \in S /\ \A g \in S : g <= f
  BY <1>4, MaxIsGreatest
<1> HIDE DEF f
<1>7. f \in 0..Size
  BY <1>1, <1>6
<1>8. n \in Subtree(f) \ {f}
  BY <1>1, <1>6
<1>9. f = 0 \/ f \in Up(Parent(n)) \cap Boundaries
  BY <1>1, <1>6
<1>10. n \in OwnBody(f)
  BY <1>5, <1>6, <1>7, <1>8, <1>9, OwnBodyIs
<1> QED  BY <1>9, <1>10

(* Each path has one owner.                                                *)
LEMMA PathsAreOwned ==
  ASSUME IsTree(tree), NEW res, DOMAIN res = Boundaries, \A f \in Boundaries : Alone(f, res[f])
  PROVE  Cardinality(OwnPaths(0)) + Cardinality(KeptByClasses(Nodes))
           + Total([n \in Nodes |-> IF n \in DOMAIN res THEN res[n].cyclomatic - 1 ELSE 0])
         = Cardinality({n \in Nodes \ Boundaries : IsPath(n)})
<1> DEFINE w == [n \in Nodes |-> IF n \in DOMAIN res THEN res[n].cyclomatic - 1 ELSE 0]
           Part == [n \in 1..Size |-> IF n \in Boundaries THEN OwnPaths(n) ELSE {}]
           A == OwnPaths(0)
           K == KeptByClasses(Nodes)
           U == {x \in 1..Size : \E k \in 1..Size : x \in Part[k]}
           P == {n \in Nodes \ Boundaries : IsPath(n)}
<1>1. Size \in Nat /\ Nodes = 1..Size /\ Boundaries \subseteq Nodes
  BY TreeNumbers, KindsOfNodes
<1>2. \A f \in {0} \cup Boundaries : OwnPaths(f) \subseteq Nodes
  BY OwnBodiesHold DEF OwnPaths
<1>3. \A f \in {0} \cup Boundaries : Cardinality(OwnPaths(f)) \in Nat
  BY <1>2, NodesAreFinite
<1>4. \A k \in 1..Size : w[k] = Cardinality(Part[k]) /\ w[k] \in Int
  <2> TAKE k \in 1..Size
  <2>1. CASE k \in Boundaries
    <3>1. res[k].cyclomatic = 1 + Cardinality(OwnPaths(k))
      BY <2>1 DEF Alone, OwnPaths
    <3>2. Cardinality(OwnPaths(k)) \in Nat
      BY <1>3, <2>1
    <3>3. w[k] = res[k].cyclomatic - 1 /\ Part[k] = OwnPaths(k)
      BY <1>1, <2>1
    <3> HIDE DEF w, Part
    <3> QED  BY <3>1, <3>2, <3>3
  <2>2. CASE k \notin Boundaries
    <3>1. w[k] = 0 /\ Part[k] = {}
      BY <1>1, <2>2
    <3> HIDE DEF w, Part
    <3> QED  BY <3>1, FS_EmptySet
  <2> QED  BY <2>1, <2>2
<1>5. IsWorth(w, Size)
  <2>1. w \in [1..Size -> Int]
    BY <1>1, <1>4
  <2> HIDE DEF w
  <2> QED  BY <1>1, <2>1 DEF IsWorth
<1>6. Part \in [1..Size -> SUBSET (1..Size)]
  BY <1>1, <1>2
<1>7. \A f, g \in {0} \cup Boundaries : f # g => OwnPaths(f) \cap OwnPaths(g) = {}
  <2> TAKE f, g \in {0} \cup Boundaries
  <2>1. f \in 0..Size /\ g \in 0..Size
    BY <1>1
  <2>2. f < g => OwnBody(f) \cap OwnBody(g) = {}
    BY <1>1, <2>1, OwnBodiesAreApart
  <2>3. g < f => OwnBody(f) \cap OwnBody(g) = {}
    BY <1>1, <2>1, OwnBodiesAreApart
  <2>4. f # g => f < g \/ g < f
    BY <1>1, <2>1
  <2> QED  BY <2>2, <2>3, <2>4 DEF OwnPaths
<1>8. \A i, j \in 1..Size : i # j => Part[i] \cap Part[j] = {}
  BY <1>7
<1>9. \A x : x \in U <=> \E k \in Boundaries : x \in OwnPaths(k)
  BY <1>1, <1>2
<1> HIDE DEF w, Part
<1>10. Total(w) = Cardinality(U)
  <2>1. AreParts(Part, w, Size)
    BY <1>4, <1>6, <1>8 DEF AreParts
  <2>2. Total(w) = Cardinality(Together(Part, Size))
    BY <1>5, <2>1, TotalOfFamily
  <2> QED  BY <2>2 DEF Together
<1>11. \A x \in K : x \in Nodes /\ x \notin Boundaries /\ IsPath(x) /\ Region(x)
  BY DEF KeptByClasses
<1>12. \A f \in {0} \cup Boundaries : \A x \in OwnPaths(f) :
         x \in Nodes /\ x \notin Boundaries /\ IsPath(x) /\ ~Region(x)
  BY OwnBodiesHold DEF OwnPaths
<1>13. \A x \in P : Region(x) => x \in K
  BY DEF KeptByClasses
<1>14. \A x \in P : ~Region(x) => \E f \in {0} \cup Boundaries : x \in OwnPaths(f)
  BY SomeoneOwns DEF OwnPaths
<1>15. P = (A \cup K) \cup U
  <2>1. \A x \in P : x \in A \/ x \in K \/ x \in U
    BY <1>9, <1>13, <1>14
  <2>2. \A x \in K : x \in P
    BY <1>11
  <2>3. \A x \in A : x \in P
    BY <1>12
  <2>4. \A x \in U : x \in P
    BY <1>9, <1>12
  <2> HIDE DEF P, A, K, U
  <2> QED  BY <2>1, <2>2, <2>3, <2>4
<1>16. A \cap K = {} /\ (A \cup K) \cap U = {}
  <2>1. \A x \in A : x \notin K
    BY <1>11, <1>12
  <2>2. \A x \in U : x \notin K
    BY <1>9, <1>11, <1>12
  <2>3. \A x \in U : x \notin A
    <3> TAKE x \in U
    <3>1. PICK k \in Boundaries : x \in OwnPaths(k)
      BY <1>9
    <3>2. k # 0 /\ k \in {0} \cup Boundaries /\ 0 \in {0} \cup Boundaries
      BY <1>1
    <3>3. OwnPaths(0) \cap OwnPaths(k) = {}
      BY <1>7, <3>2
    <3> QED  BY <3>1, <3>3
  <2> HIDE DEF A, K, U
  <2> QED  BY <2>1, <2>2, <2>3
<1>17. P \subseteq Nodes
  OBVIOUS
<1> HIDE DEF A, K, U, P
<1>18. A \subseteq Nodes /\ K \subseteq Nodes /\ U \subseteq Nodes /\ A \cup K \subseteq Nodes
  BY <1>15, <1>17
<1>19. IsFiniteSet(A) /\ IsFiniteSet(K) /\ IsFiniteSet(U) /\ IsFiniteSet(A \cup K)
  BY <1>18, NodesAreFinite
<1>20. Cardinality(A \cup K) = Cardinality(A) + Cardinality(K)
  <2>1. Cardinality(A \cup K) = Cardinality(A) + Cardinality(K) - Cardinality(A \cap K)
    BY <1>19, FS_Union
  <2>2. Cardinality(A \cap K) = 0
    BY <1>16, FS_EmptySet
  <2>3. Cardinality(A) \in Nat /\ Cardinality(K) \in Nat
    BY <1>19, FS_CardinalityType
  <2> QED  BY <2>1, <2>2, <2>3
<1>21. Cardinality(P) = Cardinality(A \cup K) + Cardinality(U)
  <2> DEFINE X == A \cup K
  <2>1. P = X \cup U /\ X \cap U = {} /\ IsFiniteSet(X) /\ IsFiniteSet(U)
    BY <1>15, <1>16, <1>19
  <2> HIDE DEF X
  <2>2. Cardinality(X \cup U) = Cardinality(X) + Cardinality(U) - Cardinality(X \cap U)
    BY <2>1, FS_Union
  <2>3. Cardinality(X \cap U) = 0
    BY <2>1, FS_EmptySet
  <2>4. Cardinality(X) \in Nat /\ Cardinality(U) \in Nat
    BY <2>1, FS_CardinalityType
  <2>5. Cardinality(P) = Cardinality(X) + Cardinality(U)
    BY <2>1, <2>2, <2>3, <2>4
  <2> QED  BY <2>5 DEF X
<1>22. Cardinality(A) + Cardinality(K) + Total(w) = Cardinality(P)
  BY <1>10, <1>20, <1>21
<1> QED  BY <1>22 DEF A, K, w, P

(* Nothing is to come: every node is seen, none is open, and the file's frame is the only one. *)
LEMMA TheWalkEnds ==
  ASSUME IsTree(tree), NEW frs, NEW res, NEW kept, WalkFits(<<>>, frs, res, kept)
  PROVE  /\ DOMAIN res = Boundaries /\ \A f \in Boundaries : Alone(f, res[f])
         /\ kept = Cardinality(KeptByClasses(Nodes))
         /\ FrameFits(0, frs[1], Nodes, Nodes, OwnBody(0))
<1>1. Len(<<>>) = 0 /\ 1..0 = {}
  OBVIOUS
<1>2. Seen(<<>>) = Nodes
  BY <1>1 DEF Seen
<1>3. Open(<<>>) = {}
  BY <1>1 DEF Open
<1>4. /\ \E fs : FramesFit(fs, frs, Nodes, {})
      /\ Measured(res, Nodes, {}) /\ kept = Cardinality(KeptByClasses(Nodes))
  BY <1>2, <1>3 DEF WalkFits, StandingFits
<1>5. Boundaries \subseteq Nodes /\ Size \in Nat /\ Nodes = 1..Size
  BY KindsOfNodes, TreeNumbers
<1>6. DOMAIN res = Boundaries /\ \A f \in Boundaries : Alone(f, res[f])
  BY <1>4, <1>5 DEF Measured
<1>7. PICK fs : FramesFit(fs, frs, Nodes, {})
  BY <1>4
<1>8. /\ Len(fs) \in Nat /\ Len(fs) >= 1 /\ fs[1] = 0
      /\ \A i \in 1..Len(fs) : FrameFits(fs[i], frs[i], Held(fs[i], Nodes, {}),
                                         HeldStatements(fs[i], Nodes, {}), OwnBody(fs[i]) \cap Nodes)
  BY <1>7, InnermostIsLast DEF FramesFit
<1>9. Subtree(0) = 0..Size
  <2>1. \A m \in 0..Size : \A k \in (0 + 1)..m : k \in Nodes
    BY <1>5
  <2>2. \A m \in 0..Size : \A k \in (0 + 1)..m : Parent(k) \in Nat
    BY <2>1, TreeNumbers
  <2>3. 0 \in 0..Size
    BY <1>5
  <2>4. \A m \in 0..Size : \A k \in (0 + 1)..m : Parent(k) >= 0
    BY <2>2
  <2>5. \A m : m \in Subtree(0) <=> m \in 0..Size /\ \A k \in (0 + 1)..m : Parent(k) >= 0
    BY <2>3, InSubtree
  <2> QED  BY <2>4, <2>5
<1>10. Held(0, Nodes, {}) = Nodes
  BY <1>5, <1>9 DEF Held
<1>11. HeldStatements(0, Nodes, {}) = Nodes
  BY <1>5, <1>9 DEF HeldStatements
<1>12. OwnBody(0) \cap Nodes = OwnBody(0)
  BY <1>5, <1>9 DEF OwnBody
<1>13. FrameFits(0, frs[1], Nodes, Nodes, OwnBody(0))
  <2>1. 1 \in 1..Len(fs)
    BY <1>8
  <2>2. FrameFits(fs[1], frs[1], Held(fs[1], Nodes, {}), HeldStatements(fs[1], Nodes, {}),
                  OwnBody(fs[1]) \cap Nodes)
    BY <1>8, <2>1
  <2> QED  BY <1>8, <1>10, <1>11, <1>12, <2>2
<1> QED  BY <1>4, <1>6, <1>13

-----------------------------------------------------------------------------
(* The invariant of the walk, and what it comes to.                        *)

WalkInvariant ==
  IsTree(tree) /\ WalkFits(todo, frames, results, nestedClassDecisions)

LEMMA InitWalkInvariant == Init => WalkInvariant
<1> SUFFICES ASSUME Init PROVE WalkInvariant
  OBVIOUS
<1>1. IsTree(tree)
  BY FilesAssumption DEF Init
<1>2. /\ todo = <<Visit(Root, 0, 0, FALSE, FALSE, FALSE)>> /\ frames = <<Frame(0, 0)>>
      /\ results = <<>> /\ nestedClassDecisions = 0
  BY DEF Init
<1>3. WalkFits(<<Visit(Root, 0, 0, FALSE, FALSE, FALSE)>>, <<Frame(0, 0)>>, <<>>, 0)
  BY <1>1, TheWalkStarts
<1> QED  BY <1>1, <1>2, <1>3 DEF WalkInvariant

LEMMA NextWalkInvariant == WalkInvariant /\ [Next]_vars => WalkInvariant'
<1> SUFFICES ASSUME WalkInvariant, [Next]_vars PROVE WalkInvariant'
  OBVIOUS
<1>1. UNCHANGED <<tree, language>>
  BY DEF Next, VisitNode, CloseNode, Finished, vars
<1>2. IsTree(tree) /\ WalkFits(todo, frames, results, nestedClassDecisions)
  BY DEF WalkInvariant
<1>3. WalkFits(todo', frames', results', nestedClassDecisions')
  <2>1. CASE VisitNode
    BY <1>2, <2>1, AVisitFits
  <2>2. CASE CloseNode
    BY <1>2, <2>2, AClosingFits
  <2>3. CASE UNCHANGED vars
    BY <1>2, <2>3 DEF vars
  <2> QED  BY <2>1, <2>2, <2>3 DEF Next, Finished
<1> QED  BY <1>1, <1>2, <1>3, SameWalk DEF WalkInvariant

LEMMA TheEndOfTheInvariant == WalkInvariant => FunctionsAreMeasuredAlone
<1> SUFFICES ASSUME WalkInvariant, todo = <<>>
             PROVE  /\ DOMAIN results = Boundaries
                    /\ \A f \in Boundaries : MeasuredAlone(f)
                    /\ EveryPathHasOneOwner
  BY DEF FunctionsAreMeasuredAlone
<1>1. IsTree(tree) /\ WalkFits(<<>>, frames, results, nestedClassDecisions)
  BY DEF WalkInvariant
<1>2. /\ DOMAIN results = Boundaries /\ \A f \in Boundaries : Alone(f, results[f])
      /\ nestedClassDecisions = Cardinality(KeptByClasses(Nodes))
      /\ FrameFits(0, frames[1], Nodes, Nodes, OwnBody(0))
  BY <1>1, TheWalkEnds
<1>3. \A f \in Boundaries : MeasuredAlone(f)
  BY <1>2 DEF Alone, MeasuredAlone
<1>4. /\ frames[1].cognitive = PointsIn(0, Nodes) /\ frames[1].ncss = Statements(Nodes)
      /\ frames[1].cyclomatic = 1 + Cardinality(OwnPaths(0))
  BY <1>2 DEF FrameFits, OwnPaths
<1>5. Cardinality(OwnPaths(0)) + Cardinality(KeptByClasses(Nodes))
        + Total([n \in Nodes |-> IF n \in DOMAIN results THEN results[n].cyclomatic - 1 ELSE 0])
      = Cardinality({n \in Nodes \ Boundaries : IsPath(n)})
  BY <1>1, <1>2, PathsAreOwned
<1>6. Cardinality(OwnPaths(0)) \in Nat
  <2>1. OwnPaths(0) \subseteq Nodes
    BY <1>1, OwnBodiesHold DEF OwnPaths
  <2> QED  BY <1>1, <2>1, NodesAreFinite
<1>7. frames[1].cyclomatic - 1 = Cardinality(OwnPaths(0))
  BY <1>4, <1>6
<1>8. /\ FileMetrics.cognitive = frames[1].cognitive /\ FileMetrics.ncss = frames[1].ncss
      /\ FileMetrics.topLevelDecisions = frames[1].cyclomatic - 1 + nestedClassDecisions
  BY DEF FileMetrics
<1>9. EveryPathHasOneOwner
  <2>1. FileMetrics.topLevelDecisions = Cardinality(OwnPaths(0)) + Cardinality(KeptByClasses(Nodes))
    BY <1>2, <1>7, <1>8
  <2> QED  BY <1>4, <1>5, <1>8, <2>1 DEF EveryPathHasOneOwner, NoNode
<1> QED  BY <1>2, <1>3, <1>9

(* For every file, whatever its tree: once the walk is over, each function has got what a *)
(* walk of its own subtree would give it, the file's totals are those of the whole tree,   *)
(* and each path is counted for one function or for the top level, never for two.          *)
THEOREM EachFunctionIsMeasuredAlone == Spec => []FunctionsAreMeasuredAlone
<1>1. Init => WalkInvariant
  BY InitWalkInvariant
<1>2. WalkInvariant /\ [Next]_vars => WalkInvariant'
  BY NextWalkInvariant
<1>3. WalkInvariant => FunctionsAreMeasuredAlone
  BY TheEndOfTheInvariant
<1> QED  BY <1>1, <1>2, <1>3, PTL DEF Spec
=============================================================================
