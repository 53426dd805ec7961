------------------------- MODULE NearMissGroupsProofs -------------------------
(***************************************************************************)
(* Proofs about NearMissGroups: whatever blocks match and whatever groups  *)
(* the clusters take over, what was reported stays reported, every group   *)
(* has two copies, and the two sides of a kept pair end as copies of one   *)
(* group.                                                                  *)
(***************************************************************************)
EXTENDS NearMissGroups, ArrangementProofs

-----------------------------------------------------------------------------
(* Ranges of tokens and their unions.                                      *)

LEMMA RangeIs ==
  ASSUME NEW r \in RangeType
  PROVE  r[1] \in Nat /\ r[2] \in Nat /\ r[1] < r[2] /\ r = <<r[1], r[2]>>
BY DEF RangeType

LEMMA TokensAre ==
  ASSUME NEW r \in RangeType
  PROVE  /\ r[1] \in Tokens(r) /\ r[2] - 1 \in Tokens(r) /\ Tokens(r) \subseteq Nat
         /\ \A t \in Nat : t \in Tokens(r) <=> r[1] <= t /\ t < r[2]
<1>1. r[1] \in Nat /\ r[2] \in Nat /\ r[1] < r[2]
  BY RangeIs
<1> QED  BY <1>1 DEF Tokens

LEMMA OverlapIs ==
  ASSUME NEW r \in RangeType, NEW s \in RangeType
  PROVE  Overlap(r, s) <=> Tokens(r) \cap Tokens(s) # {}
<1>1. /\ r[1] \in Nat /\ r[2] \in Nat /\ r[1] < r[2]
      /\ s[1] \in Nat /\ s[2] \in Nat /\ s[1] < s[2]
  BY RangeIs
<1>2. CASE Overlap(r, s)
  <2>1. r[1] <= s[1] => s[1] \in Tokens(r) \cap Tokens(s)
    BY <1>1, <1>2 DEF Overlap, Tokens
  <2>2. s[1] <= r[1] => r[1] \in Tokens(r) \cap Tokens(s)
    BY <1>1, <1>2 DEF Overlap, Tokens
  <2> QED  BY <1>1, <1>2, <2>1, <2>2
<1>3. CASE ~Overlap(r, s)
  BY <1>1, <1>3 DEF Overlap, Tokens
<1> QED  BY <1>2, <1>3

LEMMA WithinIs ==
  ASSUME NEW r \in RangeType, NEW s \in RangeType, Within(r, s)
  PROVE  Tokens(r) \subseteq Tokens(s)
<1>1. /\ r[1] \in Nat /\ r[2] \in Nat /\ s[1] \in Nat /\ s[2] \in Nat
  BY RangeIs
<1> QED  BY <1>1 DEF Within, Tokens

(* A token boundary inside a range. *)
Inner(rs, at) == \E r \in rs : r[1] < at /\ at < r[2]
Starts(rs) == {r[1] : r \in rs}
Ends(rs) == {r[2] : r \in rs}

LEMMA MergedIs ==
  ASSUME NEW rs, NEW s, NEW e
  PROVE  <<s, e>> \in MergedRanges(rs) <=>
           /\ s \in Starts(rs) /\ e \in Ends(rs) /\ s < e /\ ~Inner(rs, s) /\ ~Inner(rs, e)
           /\ \A at \in (s + 1)..(e - 1) : Inner(rs, at)
<1> DEFINE Bounds == Starts(rs) \X Ends(rs)
           Keeps(m) == /\ m[1] < m[2] /\ ~Inner(rs, m[1]) /\ ~Inner(rs, m[2])
                       /\ \A at \in (m[1] + 1)..(m[2] - 1) : Inner(rs, at)
<1>1. MergedRanges(rs) = {m \in Bounds : Keeps(m)}
  BY DEF MergedRanges, Inner, Starts, Ends
<1>2. <<s, e>> \in Bounds <=> s \in Starts(rs) /\ e \in Ends(rs)
  OBVIOUS
<1>3. Keeps(<<s, e>>) <=>
           /\ s < e /\ ~Inner(rs, s) /\ ~Inner(rs, e)
           /\ \A at \in (s + 1)..(e - 1) : Inner(rs, at)
  OBVIOUS
<1> HIDE DEF Bounds, Keeps
<1> QED  BY <1>1, <1>2, <1>3

LEMMA MergedArePairs ==
  ASSUME NEW rs, NEW m \in MergedRanges(rs)
  PROVE  m = <<m[1], m[2]>> /\ m[1] \in Starts(rs) /\ m[2] \in Ends(rs)
BY DEF MergedRanges, Starts, Ends

(* Every range lies in one of the unions. *)
LEMMA MergedCover ==
  ASSUME NEW rs, rs \subseteq RangeType, IsFiniteSet(rs), NEW r \in rs
  PROVE  \E m \in MergedRanges(rs) : Within(r, m)
<1>1. \A x \in rs : x[1] \in Nat /\ x[2] \in Nat /\ x[1] < x[2]
  BY RangeIs
<1>2. Starts(rs) \subseteq Nat /\ Ends(rs) \subseteq Nat
  BY <1>1 DEF Starts, Ends
<1>3. IsFiniteSet(Starts(rs))
  <2> DEFINE f == [x \in rs |-> x[1]]
  <2>1. f \in [rs -> Starts(rs)] /\ \A y \in Starts(rs) : \E x \in rs : f[x] = y
    BY DEF Starts
  <2> HIDE DEF f
  <2> QED  BY <2>1, ImageIsFinite
<1> DEFINE Before == {x \in Starts(rs) : x <= r[1] /\ ~Inner(rs, x)}
           After == {x \in Ends(rs) : r[2] <= x /\ ~Inner(rs, x)}
<1>4. r[1] \in Starts(rs) /\ r[2] \in Ends(rs)
  BY DEF Starts, Ends
<1>5. Before # {}
  <2>1. Min(Starts(rs)) \in Starts(rs) /\ \A x \in Starts(rs) : Min(Starts(rs)) <= x
    BY <1>2, <1>4, MinIsLeast
  <2>2. ~Inner(rs, Min(Starts(rs)))
    <3>1. SUFFICES ASSUME NEW x \in rs, x[1] < Min(Starts(rs)) PROVE FALSE
      BY DEF Inner
    <3>2. x[1] \in Starts(rs) /\ x[1] \in Nat /\ Min(Starts(rs)) \in Nat
      BY <1>1, <1>2, <2>1 DEF Starts
    <3> QED  BY <2>1, <3>1, <3>2
  <2> QED  BY <1>4, <2>1, <2>2
<1>6. Before \subseteq Nat /\ IsFiniteSet(Before)
  BY <1>2, <1>3, FS_Subset
<1>7. PICK s \in Before : \A x \in Before : x <= s
  <2> HIDE DEF Before
  <2> QED  BY <1>5, <1>6, MaxIsGreatest
<1>8. After # {}
  <2>1. IsFiniteSet(Ends(rs))
    <3> DEFINE f == [x \in rs |-> x[2]]
    <3>1. f \in [rs -> Ends(rs)] /\ \A y \in Ends(rs) : \E x \in rs : f[x] = y
      BY DEF Ends
    <3> HIDE DEF f
    <3> QED  BY <3>1, ImageIsFinite
  <2>2. Max(Ends(rs)) \in Ends(rs) /\ \A x \in Ends(rs) : x <= Max(Ends(rs))
    BY <1>2, <1>4, <2>1, MaxIsGreatest
  <2>3. ~Inner(rs, Max(Ends(rs)))
    <3>1. SUFFICES ASSUME NEW x \in rs, Max(Ends(rs)) < x[2] PROVE FALSE
      BY DEF Inner
    <3>2. x[2] \in Ends(rs) /\ x[2] \in Nat /\ Max(Ends(rs)) \in Nat
      BY <1>1, <1>2, <2>2 DEF Ends
    <3> QED  BY <2>2, <3>1, <3>2
  <2> QED  BY <1>4, <2>2, <2>3
<1>9. PICK e \in After : \A x \in After : e <= x
  <2>1. After \subseteq Nat
    BY <1>2
  <2> HIDE DEF After
  <2> QED  BY <1>8, <2>1, LeastOf
<1>10. /\ s \in Nat /\ s \in Starts(rs) /\ s <= r[1] /\ ~Inner(rs, s)
       /\ e \in Nat /\ e \in Ends(rs) /\ r[2] <= e /\ ~Inner(rs, e)
  BY <1>2, <1>7, <1>9
(* Between the last boundary before r and r, every boundary is inner. *)
<1>11. ASSUME NEW at \in Nat, s < at, at <= r[1], ~Inner(rs, at) PROVE FALSE
  <2> DEFINE Later == {x \in Starts(rs) : at <= x}
  <2>1. Later \subseteq Nat /\ r[1] \in Later
    BY <1>2, <1>4, <1>11
  <2>2. PICK next \in Later : \A x \in Later : next <= x
    <3> HIDE DEF Later
    <3> QED  BY <2>1, LeastOf
  <2>3. next \in Nat /\ at <= next /\ next <= r[1] /\ next \in Starts(rs)
    BY <2>1, <2>2
  <2>4. ~Inner(rs, next)
    <3>1. SUFFICES ASSUME NEW x \in rs, x[1] < next, next < x[2] PROVE FALSE
      BY DEF Inner
    <3>2. x[1] \in Starts(rs) /\ x[1] \in Nat /\ x[2] \in Nat
      BY <1>1 DEF Starts
    <3>3. x[1] \notin Later
      <4> HIDE DEF Later
      <4> QED  BY <2>2, <2>3, <3>1, <3>2
    <3>4. x[1] < at
      BY <1>11, <3>2, <3>3
    <3>5. at < x[2]
      BY <1>11, <2>3, <3>1, <3>2
    <3> QED  BY <1>11, <3>4, <3>5 DEF Inner
  <2>5. next \in Before
    BY <2>3, <2>4
  <2>6. next <= s
    BY <1>7, <2>5
  <2> QED  BY <1>10, <1>11, <2>3, <2>6
<1>12. ASSUME NEW at \in Nat, r[2] <= at, at < e, ~Inner(rs, at) PROVE FALSE
  <2> DEFINE Earlier == {x \in Ends(rs) : x <= at}
  <2>1. Earlier \subseteq Nat /\ r[2] \in Earlier
    BY <1>2, <1>4, <1>12
  <2>2. Earlier # {} /\ IsFiniteSet(Earlier)
    <3>1. Earlier \subseteq 0..at
      BY <1>2
    <3>2. IsFiniteSet(0..at)
      <4>1. 0 \in Int
        OBVIOUS
      <4> QED  BY <4>1, FS_Interval
    <3> HIDE DEF Earlier
    <3> QED  BY <2>1, <3>1, <3>2, FS_Subset
  <2>3. PICK last \in Earlier : \A x \in Earlier : x <= last
    <3> HIDE DEF Earlier
    <3> QED  BY <2>1, <2>2, MaxIsGreatest
  <2>4. last \in Nat /\ last <= at /\ r[2] <= last /\ last \in Ends(rs)
    BY <2>1, <2>3
  <2>5. ~Inner(rs, last)
    <3>1. SUFFICES ASSUME NEW x \in rs, x[1] < last, last < x[2] PROVE FALSE
      BY DEF Inner
    <3>2. x[2] \in Ends(rs) /\ x[1] \in Nat /\ x[2] \in Nat
      BY <1>1 DEF Ends
    <3>3. x[2] \notin Earlier
      <4> HIDE DEF Earlier
      <4> QED  BY <2>3, <2>4, <3>1, <3>2
    <3>4. at < x[2]
      BY <1>12, <3>2, <3>3
    <3>5. x[1] < at
      BY <1>12, <2>4, <3>1, <3>2
    <3> QED  BY <1>12, <3>4, <3>5 DEF Inner
  <2>6. last \in After
    BY <2>4, <2>5
  <2>7. e <= last
    BY <1>9, <2>6
  <2> QED  BY <1>10, <1>12, <2>4, <2>7
<1>13. ASSUME NEW at \in (s + 1)..(e - 1) PROVE Inner(rs, at)
  <2>1. at \in Nat /\ s < at /\ at < e
    BY <1>10
  <2>2. r[1] \in Nat /\ r[2] \in Nat
    BY <1>1
  <2>3. CASE at <= r[1]
    BY <1>11, <2>1, <2>3
  <2>4. CASE r[2] <= at
    BY <1>12, <2>1, <2>4
  <2>5. CASE r[1] < at /\ at < r[2]
    BY <2>5 DEF Inner
  <2> QED  BY <2>1, <2>2, <2>3, <2>4, <2>5
<1>14. s < e
  BY <1>1, <1>10
<1>15. <<s, e>> \in MergedRanges(rs)
  BY <1>10, <1>13, <1>14, MergedIs
<1>16. Within(r, <<s, e>>)
  BY <1>10 DEF Within
<1> QED  BY <1>15, <1>16

(* The unions are ranges, made of the tokens of the ranges. *)
LEMMA MergedTokens ==
  ASSUME NEW rs, rs \subseteq RangeType, IsFiniteSet(rs)
  PROVE  /\ MergedRanges(rs) \subseteq RangeType /\ IsFiniteSet(MergedRanges(rs))
         /\ TokensOf(MergedRanges(rs)) = TokensOf(rs)
<1>1. \A x \in rs : x[1] \in Nat /\ x[2] \in Nat /\ x[1] < x[2]
  BY RangeIs
<1>2. ASSUME NEW m \in MergedRanges(rs)
      PROVE  m \in RangeType /\ Tokens(m) \subseteq TokensOf(rs)
  <2>1. /\ m = <<m[1], m[2]>> /\ m[1] \in Starts(rs) /\ m[2] \in Ends(rs)
    BY MergedArePairs
  <2> DEFINE s == m[1]  e == m[2]
  <2>2. /\ s \in Starts(rs) /\ e \in Ends(rs) /\ s < e
        /\ \A at \in (s + 1)..(e - 1) : Inner(rs, at)
    <3>1. <<s, e>> \in MergedRanges(rs)
      BY <2>1
    <3> HIDE DEF s, e
    <3> QED  BY <3>1, MergedIs
  <2>3. s \in Nat /\ e \in Nat
    BY <1>1, <2>1 DEF Starts, Ends
  <2>4. m \in RangeType
    BY <2>1, <2>2, <2>3 DEF RangeType
  <2>5. ASSUME NEW t \in Tokens(m) PROVE t \in TokensOf(rs)
    <3>1. t \in Nat /\ s <= t /\ t <= e - 1
      BY <2>3 DEF Tokens
    <3>2. CASE t = s
      <4>1. PICK r \in rs : r[1] = s
        BY <2>2 DEF Starts
      <4>2. t \in Tokens(r)
        BY <1>1, <3>2, <4>1 DEF Tokens
      <4> QED  BY <4>2 DEF TokensOf
    <3>3. CASE t # s
      <4>1. t \in (s + 1)..(e - 1)
        BY <2>3, <3>1, <3>3
      <4>2. PICK r \in rs : r[1] < t /\ t < r[2]
        BY <2>2, <4>1 DEF Inner
      <4>3. t \in Tokens(r)
        BY <1>1, <3>1, <4>2 DEF Tokens
      <4> QED  BY <4>3 DEF TokensOf
    <3> QED  BY <3>2, <3>3
  <2> QED  BY <2>4, <2>5
<1>3. IsFiniteSet(MergedRanges(rs))
  <2>1. IsFiniteSet(Starts(rs))
    <3> DEFINE f == [x \in rs |-> x[1]]
    <3>1. f \in [rs -> Starts(rs)] /\ \A y \in Starts(rs) : \E x \in rs : f[x] = y
      BY DEF Starts
    <3> HIDE DEF f
    <3> QED  BY <3>1, ImageIsFinite
  <2>2. IsFiniteSet(Ends(rs))
    <3> DEFINE f == [x \in rs |-> x[2]]
    <3>1. f \in [rs -> Ends(rs)] /\ \A y \in Ends(rs) : \E x \in rs : f[x] = y
      BY DEF Ends
    <3> HIDE DEF f
    <3> QED  BY <3>1, ImageIsFinite
  <2>3. IsFiniteSet(Starts(rs) \X Ends(rs))
    BY <2>1, <2>2, FS_Product
  <2>4. MergedRanges(rs) \subseteq Starts(rs) \X Ends(rs)
    BY DEF MergedRanges, Starts, Ends
  <2> QED  BY <2>3, <2>4, FS_Subset
<1>4. ASSUME NEW r \in rs PROVE Tokens(r) \subseteq TokensOf(MergedRanges(rs))
  <2>1. PICK m \in MergedRanges(rs) : Within(r, m)
    BY MergedCover
  <2>2. m \in RangeType /\ r \in RangeType
    BY <1>2
  <2>3. Tokens(r) \subseteq Tokens(m)
    BY <2>1, <2>2, WithinIs
  <2> QED  BY <2>3 DEF TokensOf
<1>5. TokensOf(MergedRanges(rs)) \subseteq TokensOf(rs)
  BY <1>2 DEF TokensOf
<1>6. TokensOf(rs) \subseteq TokensOf(MergedRanges(rs))
  BY <1>4 DEF TokensOf
<1> QED  BY <1>2, <1>3, <1>5, <1>6

(* Two unions have no token in common. *)
LEMMA MergedAreApart ==
  ASSUME NEW rs, rs \subseteq RangeType, IsFiniteSet(rs),
         NEW m \in MergedRanges(rs), NEW n \in MergedRanges(rs), m # n
  PROVE  m[2] <= n[1] \/ n[2] <= m[1]
<1>1. m \in RangeType /\ n \in RangeType
  BY MergedTokens
<1> DEFINE s == m[1]  e == m[2]  u == n[1]  v == n[2]
<1>2. /\ s \in Nat /\ e \in Nat /\ u \in Nat /\ v \in Nat /\ m = <<s, e>> /\ n = <<u, v>>
  BY <1>1, RangeIs
<1>3. /\ ~Inner(rs, s) /\ ~Inner(rs, e)
      /\ \A at \in (s + 1)..(e - 1) : Inner(rs, at)
  <2>1. <<s, e>> \in MergedRanges(rs)
    BY <1>2
  <2> HIDE DEF s, e
  <2> QED  BY <2>1, MergedIs
<1>4. /\ ~Inner(rs, u) /\ ~Inner(rs, v)
      /\ \A at \in (u + 1)..(v - 1) : Inner(rs, at)
  <2>1. <<u, v>> \in MergedRanges(rs)
    BY <1>2
  <2> HIDE DEF u, v
  <2> QED  BY <2>1, MergedIs
<1>5. s # u \/ e # v
  BY <1>2
<1> SUFFICES e <= u \/ v <= s
  OBVIOUS
<1> HIDE DEF s, e, u, v
<1>6. u \notin (s + 1)..(e - 1) /\ v \notin (s + 1)..(e - 1)
  BY <1>3, <1>4
<1>7. s \notin (u + 1)..(v - 1) /\ e \notin (u + 1)..(v - 1)
  BY <1>3, <1>4
<1>8. s < e /\ u < v
  BY <1>1, RangeIs DEF s, e, u, v
<1> QED  BY <1>2, <1>5, <1>6, <1>7, <1>8

-----------------------------------------------------------------------------
(* Occurrences: their first and last tokens, and their order in the file.  *)

IsListed(o) == o.segments \subseteq RangeType /\ o.segments # {} /\ IsFiniteSet(o.segments)

LEMMA ListedTokens ==
  ASSUME NEW o, IsListed(o)
  PROVE  /\ Start(o) \in Listed(o) /\ End(o) - 1 \in Listed(o)
         /\ Start(o) \in Nat /\ End(o) \in Nat /\ Start(o) < End(o)
         /\ \A t \in Listed(o) : t \in Nat /\ Start(o) <= t /\ t < End(o)
<1> DEFINE S == {s[1] : s \in o.segments}  E == {s[2] : s \in o.segments}
<1>1. \A s \in o.segments : s[1] \in Nat /\ s[2] \in Nat /\ s[1] < s[2]
  BY RangeIs DEF IsListed
<1>2. S \subseteq Nat /\ S # {} /\ E \subseteq Nat /\ E # {}
  BY <1>1 DEF IsListed
<1>3. IsFiniteSet(E)
  <2> DEFINE f == [s \in o.segments |-> s[2]]
  <2>1. f \in [o.segments -> E] /\ \A y \in E : \E x \in o.segments : f[x] = y
    OBVIOUS
  <2> HIDE DEF f, E
  <2> QED  BY <2>1, ImageIsFinite DEF IsListed
<1>4. Start(o) \in S /\ Start(o) \in Nat /\ \A x \in S : Start(o) <= x
  <2> HIDE DEF S
  <2>1. Min(S) \in S /\ Min(S) \in Nat /\ \A x \in S : Min(S) <= x
    BY <1>2, MinIsLeast
  <2> QED  BY <2>1 DEF Start, S
<1>5. End(o) \in E /\ End(o) \in Nat /\ \A x \in E : x <= End(o)
  <2> HIDE DEF E
  <2>1. Max(E) \in E /\ Max(E) \in Nat /\ \A x \in E : x <= Max(E)
    BY <1>2, <1>3, MaxIsGreatest
  <2> QED  BY <2>1 DEF End, E
<1>6. \A s \in o.segments : s \in RangeType /\ Start(o) <= s[1] /\ s[2] <= End(o)
  BY <1>4, <1>5 DEF IsListed
<1>7. PICK s \in o.segments : s[1] = Start(o)
  BY <1>4
<1>8. PICK e \in o.segments : e[2] = End(o)
  BY <1>5
<1>9. Start(o) \in Listed(o)
  <2>1. s[1] \in Tokens(s)
    BY <1>6, TokensAre
  <2> QED  BY <1>7, <2>1 DEF Listed, TokensOf
<1>10. End(o) - 1 \in Listed(o)
  <2>1. e[2] - 1 \in Tokens(e)
    BY <1>6, TokensAre
  <2> QED  BY <1>8, <2>1 DEF Listed, TokensOf
<1>11. ASSUME NEW t \in Listed(o) PROVE t \in Nat /\ Start(o) <= t /\ t < End(o)
  <2>1. PICK r \in o.segments : t \in Tokens(r)
    BY DEF Listed, TokensOf
  <2>2. t \in Nat /\ r[1] <= t /\ t < r[2]
    BY <1>6, <2>1, TokensAre
  <2> QED  BY <1>1, <1>4, <1>5, <1>6, <2>2
<1>12. Start(o) < End(o)
  BY <1>4, <1>5, <1>9, <1>11
<1> QED  BY <1>4, <1>5, <1>9, <1>10, <1>11, <1>12

LEMMA MatchesWithinIs ==
  ASSUME NEW o, IsListed(o), NEW r \in RangeType
  PROVE  MatchesWithin(o, r) <=> Listed(o) \cap Tokens(r) # {}
<1>1. \A s \in o.segments : Overlap(s, r) <=> Tokens(s) \cap Tokens(r) # {}
  BY OverlapIs DEF IsListed
<1> QED  BY <1>1 DEF MatchesWithin, Listed, TokensOf

(* No two occurrences begin and end at the same tokens. *)
NoTies(S) == \A o, p \in S : Start(o) = Start(p) /\ End(o) = End(p) => o = p

LEMMA FileOrder ==
  ASSUME NEW S, IsFiniteSet(S), \A o \in S : IsListed(o), NoTies(S)
  PROVE  /\ InFileOrder(S) \in Seq(S) /\ Len(InFileOrder(S)) = Cardinality(S)
         /\ ToSet(InFileOrder(S)) = S
         /\ \A i, j \in DOMAIN InFileOrder(S) : InFileOrder(S)[i] = InFileOrder(S)[j] => i = j
<1> DEFINE q == InFileOrder(S)
           Comes(o, p) == Start(o) < Start(p) \/ (Start(o) = Start(p) /\ End(o) < End(p))
           place(k) == CHOOSE x \in S : Cardinality({y \in S : Comes(y, x)}) = k - 1
           R == {x \in S \X S : Comes(x[1], x[2])}
<1>1. q = [k \in 1..Cardinality(S) |-> place(k)]
  BY DEF InFileOrder, Arranged
<1>2. \A o \in S : Start(o) \in Nat /\ End(o) \in Nat
  BY ListedTokens
<1>3. \A o, p \in S : <<o, p>> \in R <=> Comes(o, p)
  OBVIOUS
<1>4. \A o \in S : ~Comes(o, o)
  BY <1>2
<1>5. \A o, p \in S : o = p \/ Comes(o, p) \/ Comes(p, o)
  BY <1>2 DEF NoTies
<1>6. \A o, p, u \in S : Comes(o, p) /\ Comes(p, u) => Comes(o, u)
  BY <1>2
<1> HIDE DEF q, Comes, R
<1>7. IsOrder(R, S)
  BY <1>3, <1>4, <1>5, <1>6 DEF IsOrder
<1>8. \A x \in S : Rank(R, S, x) = Cardinality({y \in S : Comes(y, x)})
  <2> TAKE x \in S
  <2>1. {y \in S : <<y, x>> \in R} = {y \in S : Comes(y, x)}
    BY <1>3
  <2> QED  BY <2>1 DEF Rank
<1>9. \A k \in 1..Cardinality(S) : place(k) \in S /\ Rank(R, S, place(k)) = k - 1
  <2> TAKE k \in 1..Cardinality(S)
  <2>1. \E x \in S : Rank(R, S, x) = k - 1
    BY <1>7, RanksAreTaken
  <2>2. \E x \in S : Cardinality({y \in S : Comes(y, x)}) = k - 1
    BY <1>8, <2>1
  <2>3. place(k) \in S /\ Cardinality({y \in S : Comes(y, place(k))}) = k - 1
    BY <2>2
  <2> QED  BY <1>8, <2>3
<1> HIDE DEF place
<1>10. q \in [1..Cardinality(S) -> S]
  BY <1>1, <1>9
<1>11. \A k \in 1..Cardinality(S) : Rank(R, S, q[k]) = k - 1
  BY <1>1, <1>9
<1>12. IsArrangement(q, R, S)
  BY <1>7, <1>10, <1>11, ArrangementOf
<1>13. Len(q) = Cardinality(S)
  BY <1>12 DEF IsArrangement
<1>14. /\ q \in Seq(S) /\ ToSet(q) = S
       /\ \A i, j \in DOMAIN q : q[i] = q[j] => i = j
  BY <1>7, <1>12, ArrangementLists
<1> QED  BY <1>13, <1>14 DEF q

-----------------------------------------------------------------------------
(* The inductive invariant.                                                *)

(* Blocks are large enough to be copies and apart from each other. *)
AreBlocks(bs) ==
  /\ bs \in Seq(RangeType)
  /\ \A b \in DOMAIN bs : bs[b][2] - bs[b][1] >= MinCopyTokens
  /\ \A b, c \in DOMAIN bs : b < c => bs[b][2] <= bs[c][1]

NodeType == [block : Nat, span : RangeType, whole : BOOLEAN]

(* Nodes lie in their blocks, are large enough to be copies and share no token. *)
AreNodes(bs, ns) ==
  /\ ns \in Seq(NodeType)
  /\ \A n \in DOMAIN ns :
       /\ ns[n].block \in DOMAIN bs /\ Within(ns[n].span, bs[ns[n].block])
       /\ ns[n].span[2] - ns[n].span[1] >= MinCopyTokens
  /\ \A n, m \in DOMAIN ns : n # m => Tokens(ns[n].span) \cap Tokens(ns[m].span) = {}

(* A side of a pair has a node, in its block, that holds all it matches. *)
NodeIn(ns, b, core) ==
  CHOOSE n \in DOMAIN ns : ns[n].block = b /\ (ns[n].whole \/ Within(core, ns[n].span))
HoldsSide(ns, b, core, runs) ==
  /\ NodeIn(ns, b, core) \in DOMAIN ns /\ ns[NodeIn(ns, b, core)].block = b
  /\ runs \subseteq Tokens(ns[NodeIn(ns, b, core)].span)
HoldsEdge(ns, e) ==
  HoldsSide(ns, e.left, e.leftCore, e.leftRuns) /\ HoldsSide(ns, e.right, e.rightCore, e.rightRuns)

(* Groups of several occurrences. *)
IsGroup(g) ==
  /\ IsFiniteSet(ToSet(g)) /\ (\E o, p \in ToSet(g) : o # p)
  /\ \A i, j \in DOMAIN g : g[i] = g[j] => i = j
  /\ \A o \in ToSet(g) : IsListed(o)

ListedIn(gs) == UNION {Listed(o) : o \in UNION gs}
ListsTogether(gs, e) ==
  \E g \in gs : \E o, p \in g :
    o # p /\ e.leftRuns \subseteq Listed(o) /\ e.rightRuns \subseteq Listed(p)
IsSettled(e) ==
  \/ e.leftRuns \cup e.rightRuns \subseteq ListedBy(before)
  \/ ListsTogether(AllGroups, e)

EdgesInv ==
  /\ matches \in Seq(MatchType) /\ edges \in Seq(MatchType)
  /\ \A i \in DOMAIN matches : IsMatch(blocks, matches[i])
  /\ \A i \in DOMAIN edges : IsMatch(blocks, edges[i])

ReportedInv ==
  /\ DOMAIN reported = DOMAIN before /\ DOMAIN before \subseteq Nat /\ IsFiniteSet(DOMAIN before)
  /\ \A g \in DOMAIN reported : reported[g] = <<>> \/ IsGroup(reported[g])
  /\ \A g \in groups : IsGroup(g)
  /\ ListedBy(before) \subseteq ListedIn(AllGroups)

NodesInv ==
  /\ AreNodes(blocks, nodes)
  /\ \A i \in DOMAIN edges : HoldsEdge(nodes, edges[i])
  /\ root \in [DOMAIN nodes -> DOMAIN nodes]

(* A pair's cluster is still to group, or what the pair matches is listed as it should be. *)
ClustersInv ==
  /\ clusters \subseteq Nat
  /\ \A i \in DOMAIN edges :
       /\ LeftRoot(edges[i]) = RightRoot(edges[i])
       /\ LeftRoot(edges[i]) \in clusters \/ IsSettled(edges[i])

GroupsInv ==
  /\ phase \in {"filter", "join", "group", "done"}
  /\ AreBlocks(blocks) /\ EdgesInv /\ ReportedInv
  /\ phase # "filter" => NodesInv
  /\ phase \in {"group", "done"} => ClustersInv
  /\ phase = "done" => clusters = {}

-----------------------------------------------------------------------------
(* The steps that only collect or join.                                    *)

LEMMA TwoOccurrences ==
  ASSUME NEW q \in Seq(OccurrenceType), IsReportedGroup(q)
  PROVE  IsGroup(q)
<1>1. Len(q) \in Nat /\ Len(q) >= 2 /\ DOMAIN q = 1..Len(q) /\ \A i, j \in DOMAIN q : q[i] = q[j] => i = j
  BY DEF IsReportedGroup, IsInjective
<1>2. ToSet(q) = {q[i] : i \in 1..Len(q)} /\ \A i \in 1..Len(q) : q[i] \in ToSet(q) /\ q[i] \in OccurrenceType
  BY <1>1 DEF ToSet
<1>3. IsFiniteSet(ToSet(q))
  <2> DEFINE f == [i \in 1..Len(q) |-> q[i]]
  <2>1. f \in [1..Len(q) -> ToSet(q)] /\ \A y \in ToSet(q) : \E x \in 1..Len(q) : f[x] = y
    BY <1>2
  <2>2. IsFiniteSet(1..Len(q))
    <3>1. 1 \in Int /\ Len(q) \in Int
      BY <1>1
    <3> QED  BY <3>1, FS_Interval
  <2> HIDE DEF f
  <2> QED  BY <2>1, <2>2, ImageIsFinite
<1>4. \E o, p \in ToSet(q) : o # p
  <2>1. 1 \in 1..Len(q) /\ 2 \in 1..Len(q) /\ 1 \in DOMAIN q /\ 2 \in DOMAIN q
    BY <1>1
  <2>2. q[1] = q[2] => 1 = 2
    BY <1>1, <2>1
  <2>3. q[1] # q[2] /\ q[1] \in ToSet(q) /\ q[2] \in ToSet(q)
    BY <1>2, <2>1, <2>2
  <2> QED  BY <2>3
<1>5. ASSUME NEW o \in ToSet(q) PROVE IsListed(o)
  <2>1. o \in OccurrenceType
    BY <1>2
  <2>2. o.segments \subseteq RangeType
    BY <2>1 DEF OccurrenceType
  <2> QED  BY <2>2 DEF IsListed, IsReportedGroup
<1> QED  BY <1>1, <1>3, <1>4, <1>5 DEF IsGroup

LEMMA InitGroupsInv == GroupsInit => GroupsInv
<1> SUFFICES ASSUME GroupsInit PROVE GroupsInv
  OBVIOUS
<1>1. PICK case \in Cases : blocks = case.blocks /\ before = case.reported
                            /\ matches = case.matches /\ reported = case.reported
  BY DEF GroupsInit
<1>2. edges = <<>> /\ groups = {} /\ clusters = {} /\ phase = "filter"
  BY DEF GroupsInit
<1>3. AreBlocks(blocks)
  BY <1>1, CasesAssumption DEF AreBlocks
<1>4. EdgesInv
  <2>1. matches \in Seq(MatchType) /\ \A m \in ToSet(matches) : IsMatch(blocks, m)
    BY <1>1, CasesAssumption
  <2>2. \A i \in DOMAIN matches : IsMatch(blocks, matches[i])
    BY <2>1 DEF ToSet
  <2>3. edges \in Seq(MatchType) /\ DOMAIN edges = {}
    BY <1>2
  <2> QED  BY <2>1, <2>2, <2>3 DEF EdgesInv
<1>5. ReportedInv
  <2>1. before \in Seq(Seq(OccurrenceType)) /\ \A g \in ToSet(before) : IsReportedGroup(g)
    BY <1>1, CasesAssumption
  <2>2. \A g \in DOMAIN before : before[g] \in Seq(OccurrenceType) /\ IsReportedGroup(before[g])
    BY <2>1 DEF ToSet
  <2>3. \A g \in DOMAIN before : IsGroup(before[g])
    BY <2>2, TwoOccurrences
  <2>4. \A g \in DOMAIN before : ToSet(before[g]) \in AllGroups
    <3> TAKE g \in DOMAIN before
    <3>1. ToSet(before[g]) # {}
      BY <2>3 DEF IsGroup
    <3> QED  BY <1>1, <3>1 DEF AllGroups
  <2>5. ListedBy(before) \subseteq ListedIn(AllGroups)
    BY <2>4 DEF ListedBy, ListedIn
  <2>6. DOMAIN before = 1..Len(before) /\ DOMAIN before \subseteq Nat /\ Len(before) \in Int /\ 1 \in Int
    BY <2>1
  <2>7. IsFiniteSet(DOMAIN before)
    BY <2>6, FS_Interval
  <2> QED  BY <1>1, <1>2, <2>3, <2>5, <2>6, <2>7 DEF ReportedInv
<1> QED  BY <1>2, <1>3, <1>4, <1>5 DEF GroupsInv

LEMMA KeepMatchStep == ASSUME GroupsInv, KeepMatch PROVE GroupsInv'
<1>1. /\ phase = "filter" /\ phase' = phase /\ matches # <<>> /\ matches' = Tail(matches)
      /\ UNCHANGED <<blocks, before, reported, groups>>
      /\ edges' = edges \/ edges' = Append(edges, Head(matches))
  BY DEF KeepMatch
<1>2. EdgesInv
  BY DEF GroupsInv
<1>3. Head(matches) = matches[1] /\ 1 \in DOMAIN matches /\ Head(matches) \in MatchType
  BY <1>1, <1>2 DEF EdgesInv
<1>4. IsMatch(blocks, Head(matches))
  BY <1>2, <1>3 DEF EdgesInv
<1>5. EdgesInv'
  <2>1. matches' \in Seq(MatchType) /\ edges' \in Seq(MatchType)
    BY <1>1, <1>2, <1>3 DEF EdgesInv
  <2>2. \A i \in DOMAIN matches' : IsMatch(blocks, matches'[i])
    <3> TAKE i \in DOMAIN matches'
    <3>1. i + 1 \in DOMAIN matches /\ matches'[i] = matches[i + 1]
      BY <1>1, <1>2 DEF EdgesInv
    <3> QED  BY <1>2, <3>1 DEF EdgesInv
  <2>3. \A i \in DOMAIN edges' : IsMatch(blocks, edges'[i])
    <3> TAKE i \in DOMAIN edges'
    <3>1. CASE edges' = edges
      BY <1>2, <3>1 DEF EdgesInv
    <3>2. CASE edges' = Append(edges, Head(matches))
      <4>1. i \in 1..(Len(edges) + 1) /\ Len(edges) \in Nat /\ DOMAIN edges = 1..Len(edges)
        BY <1>2, <3>2 DEF EdgesInv
      <4>2. CASE i = Len(edges) + 1
        <5>1. edges'[i] = Head(matches)
          BY <1>2, <3>2, <4>1, <4>2 DEF EdgesInv
        <5> QED  BY <1>4, <5>1
      <4>3. CASE i # Len(edges) + 1
        <5>1. i \in DOMAIN edges /\ edges'[i] = edges[i]
          BY <1>2, <3>2, <4>1, <4>3 DEF EdgesInv
        <5> QED  BY <1>2, <5>1 DEF EdgesInv
      <4> QED  BY <4>2, <4>3
    <3> QED  BY <1>1, <3>1, <3>2
  <2> QED  BY <1>1, <2>1, <2>2, <2>3 DEF EdgesInv
<1>6. ReportedInv'
  BY <1>1 DEF GroupsInv, ReportedInv, AllGroups
<1> QED  BY <1>1, <1>5, <1>6 DEF GroupsInv

LEMMA JoinStep == ASSUME GroupsInv, Join PROVE GroupsInv'
<1>1. /\ phase = "join" /\ phase' = phase
      /\ UNCHANGED <<blocks, before, matches, edges, nodes, clusters, reported, groups>>
  BY DEF Join
<1>2. NodesInv /\ EdgesInv
  BY <1>1 DEF GroupsInv
<1> DEFINE apart == {i \in DOMAIN edges : LeftRoot(edges[i]) # RightRoot(edges[i])}
           e == edges[Min(apart)]
           left == LeftRoot(e)  right == RightRoot(e)
<1>3. root' = [n \in DOMAIN root |-> IF root[n] = Max({left, right}) THEN Min({left, right}) ELSE root[n]]
  BY DEF Join
<1>4. Min(apart) \in DOMAIN edges
  <2>1. apart # {} /\ apart \subseteq Nat /\ apart \subseteq DOMAIN edges
    <3>1. DOMAIN edges \subseteq Nat
      BY <1>2 DEF EdgesInv
    <3> QED  BY <3>1 DEF Join, AllJoined
  <2> HIDE DEF apart
  <2> QED  BY <2>1, MinIsLeast
<1>5. HoldsEdge(nodes, e)
  BY <1>2, <1>4 DEF NodesInv
<1>6. left \in DOMAIN nodes /\ right \in DOMAIN nodes
  <2>1. NodeOf(e.left, e.leftCore) \in DOMAIN nodes /\ NodeOf(e.right, e.rightCore) \in DOMAIN nodes
    BY <1>5 DEF HoldsEdge, HoldsSide, NodeOf, NodeIn
  <2> QED  BY <1>2, <2>1 DEF NodesInv, LeftRoot, RightRoot
<1> HIDE DEF left, right
<1>7. Min({left, right}) \in {left, right}
  <2>1. left \in Nat /\ right \in Nat
    BY <1>2, <1>6 DEF NodesInv, AreNodes
  <2> DEFINE S == {left, right}
  <2>2. S \subseteq Nat /\ S # {}
    BY <2>1
  <2> HIDE DEF S
  <2>3. Min(S) \in S
    BY <2>2, MinIsLeast
  <2> QED  BY <2>3 DEF S
<1>8. root' \in [DOMAIN nodes -> DOMAIN nodes]
  BY <1>2, <1>3, <1>6, <1>7 DEF NodesInv
<1>9. NodesInv'
  BY <1>1, <1>2, <1>8 DEF NodesInv
<1> QED  BY <1>1, <1>9 DEF GroupsInv, EdgesInv, ReportedInv, AllGroups

LEMMA JoinedStep == ASSUME GroupsInv, Joined PROVE GroupsInv'
<1>1. /\ phase = "join" /\ phase' = "group" /\ AllJoined /\ clusters' = ToSet(root)
      /\ UNCHANGED <<blocks, before, matches, edges, nodes, root, reported, groups>>
  BY DEF Joined
<1>2. NodesInv /\ NodesInv' /\ EdgesInv'
  BY <1>1 DEF GroupsInv, NodesInv, EdgesInv
<1>3. ClustersInv'
  <2>1. clusters' \subseteq Nat
    BY <1>1, <1>2 DEF NodesInv, AreNodes, ToSet
  <2>2. ASSUME NEW i \in DOMAIN edges
        PROVE  LeftRoot(edges[i])' = RightRoot(edges[i])' /\ LeftRoot(edges[i])' \in clusters'
    <3>1. LeftRoot(edges[i]) = RightRoot(edges[i])
      BY <1>1 DEF AllJoined
    <3>2. NodeOf(edges[i].left, edges[i].leftCore) \in DOMAIN nodes
      BY <1>2 DEF NodesInv, HoldsEdge, HoldsSide, NodeOf, NodeIn
    <3>3. LeftRoot(edges[i]) \in ToSet(root)
      BY <1>2, <3>2 DEF NodesInv, LeftRoot, ToSet
    <3> QED  BY <1>1, <3>1, <3>3 DEF LeftRoot, RightRoot, NodeOf
  <2> QED  BY <1>1, <2>1, <2>2 DEF ClustersInv
<1> QED  BY <1>1, <1>2, <1>3 DEF GroupsInv, ReportedInv, AllGroups

LEMMA GroupsUnchangedStep ==
  ASSUME GroupsInv, UNCHANGED <<blocks, before, matches, edges, nodes, root, clusters, reported, groups>>,
         phase' = phase \/ (phase = "group" /\ clusters = {} /\ phase' = "done")
  PROVE  GroupsInv'
<1>1. EdgesInv' = EdgesInv
  BY DEF EdgesInv
<1>2. ReportedInv' = ReportedInv
  BY DEF ReportedInv, AllGroups
<1>3. NodesInv' = NodesInv
  BY DEF NodesInv
<1>4. ClustersInv' = ClustersInv
  BY DEF ClustersInv, LeftRoot, RightRoot, NodeOf, IsSettled, AllGroups
<1> QED  BY <1>1, <1>2, <1>3, <1>4 DEF GroupsInv

-----------------------------------------------------------------------------
(* The nodes of the blocks.                                                *)

LEMMA BlockIs ==
  ASSUME AreBlocks(blocks), NEW b \in DOMAIN blocks
  PROVE  /\ b \in Nat /\ blocks[b] \in RangeType /\ blocks[b][2] - blocks[b][1] >= MinCopyTokens
         /\ blocks[b][1] \in Nat /\ blocks[b][2] \in Nat /\ blocks[b][1] < blocks[b][2]
<1>1. blocks[b] \in RangeType /\ b \in Nat
  BY DEF AreBlocks
<1> QED  BY <1>1, RangeIs DEF AreBlocks

LEMMA BlocksAreApart ==
  ASSUME AreBlocks(blocks), NEW b \in DOMAIN blocks, NEW c \in DOMAIN blocks, b # c
  PROVE  Tokens(blocks[b]) \cap Tokens(blocks[c]) = {}
<1>1. /\ blocks[b][1] \in Nat /\ blocks[b][2] \in Nat /\ b \in Nat
      /\ blocks[c][1] \in Nat /\ blocks[c][2] \in Nat /\ c \in Nat
  BY BlockIs
<1>2. blocks[b][2] <= blocks[c][1] \/ blocks[c][2] <= blocks[b][1]
  <2>1. b < c \/ c < b
    BY <1>1
  <2> QED  BY <2>1 DEF AreBlocks
<1> QED  BY <1>1, <1>2 DEF Tokens

LEMMA SideIs ==
  ASSUME EdgesInv, AreBlocks(blocks), NEW s \in Sides
  PROVE  /\ s.block \in DOMAIN blocks /\ s.core \in RangeType \cup {WholeBlock}
         /\ IsSide(blocks, s.block, s.core, s.runs)
<1>1. PICK i \in DOMAIN edges : s \in SidesOf(edges[i])
  BY DEF Sides
<1>2. edges[i] \in MatchType /\ IsMatch(blocks, edges[i])
  BY <1>1 DEF EdgesInv
<1>3. CASE s = [block |-> edges[i].left, core |-> edges[i].leftCore, runs |-> edges[i].leftRuns]
  BY <1>2, <1>3 DEF IsMatch, IsSide, MatchType
<1>4. CASE s = [block |-> edges[i].right, core |-> edges[i].rightCore, runs |-> edges[i].rightRuns]
  BY <1>2, <1>4 DEF IsMatch, IsSide, MatchType
<1> QED  BY <1>1, <1>3, <1>4 DEF SidesOf

LEMMA SidesAreFinite ==
  ASSUME EdgesInv
  PROVE  IsFiniteSet(Sides)
<1> DEFINE sets == {SidesOf(edges[i]) : i \in DOMAIN edges}
           f == [i \in DOMAIN edges |-> SidesOf(edges[i])]
<1>1. IsFiniteSet(DOMAIN edges)
  <2>1. DOMAIN edges = 1..Len(edges) /\ 1 \in Int /\ Len(edges) \in Int
    BY DEF EdgesInv
  <2> QED  BY <2>1, FS_Interval
<1>2. f \in [DOMAIN edges -> sets] /\ \A y \in sets : \E x \in DOMAIN edges : f[x] = y
  OBVIOUS
<1>3. \A T \in sets : IsFiniteSet(T)
  <2>1. ASSUME NEW x, NEW y PROVE IsFiniteSet({x, y})
    <3>1. IsFiniteSet({x})
      BY FS_Singleton
    <3>2. {x, y} = {x} \cup {y} /\ IsFiniteSet({y})
      BY FS_Singleton
    <3> QED  BY <3>1, <3>2, FS_Union
  <2> QED  BY <2>1 DEF SidesOf
<1> HIDE DEF f, sets
<1>4. IsFiniteSet(sets)
  BY <1>1, <1>2, ImageIsFinite
<1>5. Sides = UNION sets
  BY DEF Sides, sets
<1> QED  BY <1>3, <1>4, <1>5, FS_UNION

(* The cores a block matched in, and their unions. *)
Cores(b) == {s.core : s \in {s \in Sides : s.block = b}}

LEMMA CoresAre ==
  ASSUME EdgesInv, AreBlocks(blocks), NEW b \in DOMAIN blocks, ~MatchedWhole(b)
  PROVE  /\ Cores(b) \subseteq RangeType /\ IsFiniteSet(Cores(b))
         /\ CoresOf(b) = MergedRanges(Cores(b))
         /\ \A r \in Cores(b) : Within(r, blocks[b]) /\ r[2] - r[1] >= MinCopyTokens
<1>1. ASSUME NEW r \in Cores(b)
      PROVE  r \in RangeType /\ Within(r, blocks[b]) /\ r[2] - r[1] >= MinCopyTokens
  <2>1. PICK s \in Sides : s.block = b /\ s.core = r
    BY DEF Cores
  <2>2. r # WholeBlock
    BY <2>1 DEF MatchedWhole
  <2> QED  BY <2>1, <2>2, SideIs DEF IsSide
<1>2. IsFiniteSet(Cores(b))
  <2> DEFINE of == {s \in Sides : s.block = b}
             f == [s \in of |-> s.core]
  <2>1. IsFiniteSet(of)
    BY SidesAreFinite, FS_Subset
  <2>2. f \in [of -> Cores(b)] /\ \A y \in Cores(b) : \E x \in of : f[x] = y
    BY DEF Cores
  <2> HIDE DEF f, of
  <2> QED  BY <2>1, <2>2, ImageIsFinite
<1>3. CoresOf(b) = MergedRanges(Cores(b))
  BY DEF CoresOf, Cores
<1> QED  BY <1>1, <1>2, <1>3

LEMMA UnionsAre ==
  ASSUME EdgesInv, AreBlocks(blocks), NEW b \in DOMAIN blocks, ~MatchedWhole(b),
         NEW m \in CoresOf(b)
  PROVE  m \in RangeType /\ Within(m, blocks[b]) /\ m[2] - m[1] >= MinCopyTokens
<1> DEFINE rs == Cores(b)
<1>1. /\ rs \subseteq RangeType /\ IsFiniteSet(rs) /\ CoresOf(b) = MergedRanges(rs)
      /\ \A r \in rs : Within(r, blocks[b]) /\ r[2] - r[1] >= MinCopyTokens
  BY CoresAre
<1> HIDE DEF rs
<1>2. m \in MergedRanges(rs) /\ MergedRanges(rs) \subseteq RangeType
  BY <1>1, MergedTokens
<1>3. m \in RangeType /\ m[1] \in Nat /\ m[2] \in Nat
  BY <1>2, RangeIs
<1>4. PICK r \in rs : r[1] = m[1]
  BY <1>2, MergedArePairs DEF Starts
<1>5. PICK e \in rs : e[2] = m[2]
  BY <1>2, MergedArePairs DEF Ends
<1>6. PICK n \in MergedRanges(rs) : Within(r, n)
  BY <1>1, <1>4, MergedCover
<1>7. n \in RangeType /\ r \in RangeType /\ n[1] \in Nat /\ n[2] \in Nat /\ r[1] \in Nat /\ r[2] \in Nat
      /\ r[1] < r[2] /\ m[1] < m[2]
  BY <1>1, <1>2, <1>3, <1>4, <1>6, RangeIs
<1>8. n = m
  <2>1. SUFFICES ASSUME n # m PROVE FALSE
    OBVIOUS
  <2>2. m[2] <= n[1] \/ n[2] <= m[1]
    BY <1>1, <1>2, <1>6, <2>1, MergedAreApart
  <2> QED  BY <1>3, <1>4, <1>6, <1>7, <2>2 DEF Within
<1>9. r[2] <= m[2]
  BY <1>6, <1>8 DEF Within
<1>10. r[2] - r[1] >= MinCopyTokens /\ Within(r, blocks[b]) /\ Within(e, blocks[b])
  BY <1>1, <1>4, <1>5
<1>11. MinCopyTokens \in Nat
  BY CasesAssumption
<1>12. m[2] - m[1] >= MinCopyTokens
  BY <1>3, <1>4, <1>7, <1>9, <1>10, <1>11
<1>13. Within(m, blocks[b])
  BY <1>4, <1>5, <1>10 DEF Within
<1> QED  BY <1>3, <1>12, <1>13

LEMMA NodesOfIs ==
  ASSUME EdgesInv, AreBlocks(blocks), NEW b \in DOMAIN blocks, NEW n \in NodesOf(b)
  PROVE  /\ n \in NodeType /\ n.block = b
         /\ Within(n.span, blocks[b]) /\ n.span[2] - n.span[1] >= MinCopyTokens
<1>1. /\ b \in Nat /\ blocks[b] \in RangeType /\ blocks[b][2] - blocks[b][1] >= MinCopyTokens
      /\ blocks[b][1] \in Nat /\ blocks[b][2] \in Nat
  BY BlockIs
<1>2. CASE CoresOf(b) = {}
  <2>1. n = [block |-> b, span |-> blocks[b], whole |-> TRUE]
    BY <1>2 DEF NodesOf
  <2>2. n \in NodeType /\ n.block = b /\ n.span = blocks[b]
    BY <1>1, <2>1 DEF NodeType
  <2> QED  BY <1>1, <2>2 DEF Within
<1>3. CASE CoresOf(b) # {}
  <2>1. PICK core \in CoresOf(b) : n = [block |-> b, span |-> core, whole |-> FALSE]
    BY <1>3 DEF NodesOf
  <2>2. ~MatchedWhole(b)
    BY <1>3 DEF CoresOf
  <2>3. core \in RangeType /\ Within(core, blocks[b]) /\ core[2] - core[1] >= MinCopyTokens
    BY <2>2, UnionsAre
  <2>4. n \in NodeType /\ n.block = b /\ n.span = core
    BY <1>1, <2>1, <2>3 DEF NodeType
  <2> QED  BY <2>3, <2>4
<1> QED  BY <1>2, <1>3

LEMMA NodesOfAreApart ==
  ASSUME EdgesInv, AreBlocks(blocks), NEW b \in DOMAIN blocks, NEW c \in DOMAIN blocks,
         NEW n \in NodesOf(b), NEW m \in NodesOf(c), n # m
  PROVE  Tokens(n.span) \cap Tokens(m.span) = {}
<1>1. /\ n \in NodeType /\ n.block = b /\ Within(n.span, blocks[b])
      /\ m \in NodeType /\ m.block = c /\ Within(m.span, blocks[c])
  BY NodesOfIs
<1>2. n.span \in RangeType /\ m.span \in RangeType /\ blocks[b] \in RangeType /\ blocks[c] \in RangeType
  BY <1>1, BlockIs DEF NodeType
<1>3. CASE b # c
  <2>1. Tokens(blocks[b]) \cap Tokens(blocks[c]) = {}
    BY <1>3, BlocksAreApart
  <2>2. Tokens(n.span) \subseteq Tokens(blocks[b]) /\ Tokens(m.span) \subseteq Tokens(blocks[c])
    BY <1>1, <1>2, WithinIs
  <2> QED  BY <2>1, <2>2
<1>4. CASE b = c
  <2>1. CoresOf(b) # {}
    BY <1>4 DEF NodesOf
  <2>2. ~MatchedWhole(b)
    BY <2>1 DEF CoresOf
  <2>3. PICK core \in CoresOf(b) : n = [block |-> b, span |-> core, whole |-> FALSE]
    BY <2>1 DEF NodesOf
  <2>4. PICK other \in CoresOf(b) : m = [block |-> b, span |-> other, whole |-> FALSE]
    BY <1>4, <2>1 DEF NodesOf
  <2>5. core # other /\ n.span = core /\ m.span = other
    BY <2>3, <2>4
  <2>6. core[2] <= other[1] \/ other[2] <= core[1]
    <3> DEFINE rs == Cores(b)
    <3>1. rs \subseteq RangeType /\ IsFiniteSet(rs) /\ CoresOf(b) = MergedRanges(rs)
      BY <2>2, CoresAre
    <3> HIDE DEF rs
    <3> QED  BY <2>3, <2>4, <2>5, <3>1, MergedAreApart
  <2>7. core[1] \in Nat /\ core[2] \in Nat /\ other[1] \in Nat /\ other[2] \in Nat
    BY <1>2, <2>5, RangeIs
  <2>8. Tokens(core) \cap Tokens(other) = {}
    BY <2>6, <2>7 DEF Tokens
  <2> QED  BY <2>5, <2>8
<1> QED  BY <1>3, <1>4

(* Every side of a pair has a node in its block that holds what it matches. *)
LEMMA SideHasANode ==
  ASSUME EdgesInv, AreBlocks(blocks), NEW s \in Sides
  PROVE  /\ \E n \in NodesOf(s.block) : n.whole \/ Within(s.core, n.span)
         /\ \A n \in NodesOf(s.block) :
              n.whole \/ Within(s.core, n.span) => s.runs \subseteq Tokens(n.span)
<1> DEFINE b == s.block
<1>1. b \in DOMAIN blocks /\ IsSide(blocks, b, s.core, s.runs) /\ s.core \in RangeType \cup {WholeBlock}
  BY SideIs
<1>2. blocks[b] \in RangeType
  BY <1>1, BlockIs
<1>3. s.runs \subseteq Tokens(blocks[b])
  <2>1. CASE s.core = WholeBlock
    <3>1. CASE Within(s.core, blocks[b]) /\ s.runs \subseteq Tokens(s.core)
      <4>1. Tokens(WholeBlock) = {}
        BY DEF Tokens, WholeBlock
      <4> QED  BY <2>1, <3>1, <4>1
    <3> QED  BY <1>1, <3>1 DEF IsSide
  <2>2. CASE s.core # WholeBlock
    <3>1. s.core \in RangeType /\ Within(s.core, blocks[b]) /\ s.runs \subseteq Tokens(s.core)
      BY <1>1, <2>2 DEF IsSide
    <3> QED  BY <1>2, <3>1, WithinIs
  <2> QED  BY <2>1, <2>2
<1>4. CASE CoresOf(b) = {}
  BY <1>3, <1>4 DEF NodesOf
<1>5. CASE CoresOf(b) # {}
  <2>1. ~MatchedWhole(b)
    BY <1>5 DEF CoresOf
  <2>2. s.core # WholeBlock
    BY <2>1 DEF MatchedWhole
  <2>3. s.core \in RangeType /\ s.runs \subseteq Tokens(s.core)
    BY <1>1, <2>2 DEF IsSide
  <2>4. PICK m \in CoresOf(b) : Within(s.core, m)
    <3> DEFINE rs == Cores(b)
    <3>1. rs \subseteq RangeType /\ IsFiniteSet(rs) /\ CoresOf(b) = MergedRanges(rs)
      BY <1>1, <2>1, CoresAre
    <3>2. s.core \in rs
      BY DEF Cores
    <3> HIDE DEF rs
    <3> QED  BY <3>1, <3>2, MergedCover
  <2>5. [block |-> b, span |-> m, whole |-> FALSE] \in NodesOf(b)
    BY <1>5 DEF NodesOf
  <2>6. ASSUME NEW n \in NodesOf(b), n.whole \/ Within(s.core, n.span)
        PROVE  s.runs \subseteq Tokens(n.span)
    <3>1. ~n.whole
      BY <1>5 DEF NodesOf
    <3>2. n.span \in RangeType
      BY <1>1, NodesOfIs DEF NodeType
    <3> QED  BY <2>3, <2>6, <3>1, <3>2, WithinIs
  <2> QED  BY <2>4, <2>5, <2>6
<1> QED  BY <1>4, <1>5

AllNodes == UNION {NodesOf(b) : b \in DOMAIN blocks}

LEMMA AllNodesAreFinite ==
  ASSUME EdgesInv, AreBlocks(blocks)
  PROVE  IsFiniteSet(AllNodes)
<1> DEFINE sets == {NodesOf(b) : b \in DOMAIN blocks}
           f == [b \in DOMAIN blocks |-> NodesOf(b)]
<1>1. IsFiniteSet(DOMAIN blocks)
  <2>1. DOMAIN blocks = 1..Len(blocks) /\ 1 \in Int /\ Len(blocks) \in Int
    BY DEF AreBlocks
  <2> QED  BY <2>1, FS_Interval
<1>2. f \in [DOMAIN blocks -> sets] /\ \A y \in sets : \E x \in DOMAIN blocks : f[x] = y
  OBVIOUS
<1>3. ASSUME NEW b \in DOMAIN blocks PROVE IsFiniteSet(NodesOf(b))
  <2>1. CASE CoresOf(b) = {}
    <3>1. NodesOf(b) = {[block |-> b, span |-> blocks[b], whole |-> TRUE]}
      BY <2>1 DEF NodesOf
    <3> QED  BY <3>1, FS_Singleton
  <2>2. CASE CoresOf(b) # {}
    <3> DEFINE cs == CoresOf(b)
               g == [core \in cs |-> [block |-> b, span |-> core, whole |-> FALSE]]
    <3>1. NodesOf(b) = {[block |-> b, span |-> core, whole |-> FALSE] : core \in cs}
      BY <2>2 DEF NodesOf
    <3>2. IsFiniteSet(cs)
      <4>1. ~MatchedWhole(b)
        BY <2>2 DEF CoresOf
      <4> DEFINE rs == Cores(b)
      <4>2. rs \subseteq RangeType /\ IsFiniteSet(rs) /\ cs = MergedRanges(rs)
        BY <4>1, CoresAre
      <4> HIDE DEF rs, cs
      <4> QED  BY <4>2, MergedTokens
    <3>3. g \in [cs -> NodesOf(b)] /\ \A y \in NodesOf(b) : \E x \in cs : g[x] = y
      BY <3>1
    <3> HIDE DEF g, cs
    <3> QED  BY <3>2, <3>3, ImageIsFinite
  <2> QED  BY <2>1, <2>2
<1>4. \A T \in sets : IsFiniteSet(T)
  BY <1>3
<1> HIDE DEF f, sets
<1>5. IsFiniteSet(sets)
  BY <1>1, <1>2, ImageIsFinite
<1>6. AllNodes = UNION sets
  BY DEF AllNodes, sets
<1> QED  BY <1>4, <1>5, <1>6, FS_UNION

ListedNodes == Arranged(AllNodes, LAMBDA n, m : n.span[1] < m.span[1])

LEMMA NodesAreListed ==
  ASSUME EdgesInv, AreBlocks(blocks)
  PROVE  /\ ListedNodes \in Seq(AllNodes) /\ \A n \in AllNodes : \E i \in DOMAIN ListedNodes : ListedNodes[i] = n
         /\ \A i, j \in DOMAIN ListedNodes : ListedNodes[i] = ListedNodes[j] => i = j
<1> DEFINE S == AllNodes
           ns == ListedNodes
           Comes(n, m) == n.span[1] < m.span[1]
           place(k) == CHOOSE x \in S : Cardinality({y \in S : Comes(y, x)}) = k - 1
           key == [n \in S |-> n.span[1]]
           R == {x \in S \X S : key[x[1]] < key[x[2]]}
<1>1. ns = [k \in 1..Cardinality(S) |-> place(k)]
  BY DEF Arranged, ListedNodes
<1>2. \A n \in S : \E b \in DOMAIN blocks : n \in NodesOf(b)
  BY DEF AllNodes
<1>3. \A n \in S : n \in NodeType
  BY <1>2, NodesOfIs
<1>4. \A n \in S : n.span \in RangeType /\ n.span[1] \in Nat /\ n.span[1] \in Tokens(n.span)
  BY <1>3, RangeIs, TokensAre DEF NodeType
<1>5. ASSUME NEW n \in S, NEW m \in S, key[n] = key[m] PROVE n = m
  <2>1. n.span[1] = m.span[1]
    BY <1>5
  <2>2. n.span[1] \in Tokens(n.span) \cap Tokens(m.span)
    BY <1>4, <2>1
  <2>3. PICK b \in DOMAIN blocks : n \in NodesOf(b)
    BY <1>2
  <2>4. PICK c \in DOMAIN blocks : m \in NodesOf(c)
    BY <1>2
  <2> QED  BY <2>2, <2>3, <2>4, NodesOfAreApart
<1>6. key \in [S -> Nat]
  BY <1>4
<1>7. \A x, y \in S : <<x, y>> \in R <=> key[x] < key[y]
  OBVIOUS
<1>8. \A x \in S : key[x] = x.span[1]
  OBVIOUS
<1>9. IsFiniteSet(S)
  BY AllNodesAreFinite
<1> HIDE DEF S, key, R, ns
<1>10. IsOrder(R, S)
  BY <1>5, <1>6, <1>7, OrderByNumber
<1>11. \A x, y \in S : <<x, y>> \in R <=> Comes(x, y)
  BY <1>7, <1>8
<1> HIDE DEF Comes
<1>12. \A x \in S : Rank(R, S, x) = Cardinality({y \in S : Comes(y, x)})
  <2> TAKE x \in S
  <2>1. {y \in S : <<y, x>> \in R} = {y \in S : Comes(y, x)}
    BY <1>11
  <2> QED  BY <2>1 DEF Rank
<1>13. \A k \in 1..Cardinality(S) : place(k) \in S /\ Rank(R, S, place(k)) = k - 1
  <2> TAKE k \in 1..Cardinality(S)
  <2>1. \E x \in S : Rank(R, S, x) = k - 1
    BY <1>9, <1>10, RanksAreTaken
  <2>2. \E x \in S : Cardinality({y \in S : Comes(y, x)}) = k - 1
    BY <1>12, <2>1
  <2>3. place(k) \in S /\ Cardinality({y \in S : Comes(y, place(k))}) = k - 1
    BY <2>2
  <2> QED  BY <1>12, <2>3
<1> HIDE DEF place
<1>14. ns \in [1..Cardinality(S) -> S] /\ \A k \in 1..Cardinality(S) : Rank(R, S, ns[k]) = k - 1
  BY <1>1, <1>13
<1>15. IsArrangement(ns, R, S)
  BY <1>9, <1>10, <1>14, ArrangementOf
<1>16. /\ ns \in Seq(S) /\ \A x \in S : \E i \in DOMAIN ns : ns[i] = x
       /\ \A i, j \in DOMAIN ns : ns[i] = ns[j] => i = j
  BY <1>10, <1>15, ArrangementLists
<1> QED  BY <1>16 DEF S, ns

LEMMA MakeNodesStep == ASSUME GroupsInv, MakeNodes PROVE GroupsInv'
<1> DEFINE ns == ListedNodes
<1>1. /\ phase' = "join" /\ nodes' = ns /\ root' = [n \in DOMAIN nodes' |-> n]
      /\ UNCHANGED <<blocks, before, matches, edges, clusters, reported, groups>>
  BY DEF MakeNodes, AllNodes, ListedNodes
<1>2. EdgesInv /\ AreBlocks(blocks)
  BY DEF GroupsInv
<1>3. /\ ns \in Seq(AllNodes) /\ \A n \in AllNodes : \E i \in DOMAIN ns : ns[i] = n
      /\ \A i, j \in DOMAIN ns : ns[i] = ns[j] => i = j
  BY <1>2, NodesAreListed
<1> HIDE DEF ns
<1>4. \A i \in DOMAIN ns : ns[i] \in AllNodes
  BY <1>3
<1>5. ASSUME NEW n \in AllNodes
      PROVE  /\ n \in NodeType /\ n.block \in DOMAIN blocks /\ n \in NodesOf(n.block)
             /\ Within(n.span, blocks[n.block]) /\ n.span[2] - n.span[1] >= MinCopyTokens
  <2>1. PICK b \in DOMAIN blocks : n \in NodesOf(b)
    BY DEF AllNodes
  <2> QED  BY <1>2, <2>1, NodesOfIs
<1>6. AreNodes(blocks, ns)
  <2>1. ns \in Seq(NodeType)
    <3>1. AllNodes \subseteq NodeType
      BY <1>5
    <3> QED  BY <1>3, <3>1
  <2>2. ASSUME NEW i \in DOMAIN ns, NEW j \in DOMAIN ns, i # j
        PROVE  Tokens(ns[i].span) \cap Tokens(ns[j].span) = {}
    <3>1. ns[i] # ns[j] /\ ns[i] \in AllNodes /\ ns[j] \in AllNodes
      BY <1>3, <1>4, <2>2
    <3> QED  BY <1>2, <1>5, <3>1, NodesOfAreApart
  <2> QED  BY <1>4, <1>5, <2>1, <2>2 DEF AreNodes
<1>7. ASSUME NEW s \in Sides PROVE HoldsSide(ns, s.block, s.core, s.runs)
  <2> DEFINE b == s.block  core == s.core
             fits(n) == ns[n].block = b /\ (ns[n].whole \/ Within(core, ns[n].span))
             k == NodeIn(ns, b, core)
  <2>1. b \in DOMAIN blocks
    BY <1>2, SideIs
  <2>2. PICK n \in NodesOf(b) : n.whole \/ Within(core, n.span)
    BY <1>2, SideHasANode
  <2>3. n \in AllNodes /\ n.block = b
    BY <1>2, <2>1, NodesOfIs DEF AllNodes
  <2>4. \E i \in DOMAIN ns : fits(i)
    BY <1>3, <2>2, <2>3
  <2>5. k \in DOMAIN ns /\ fits(k)
    BY <2>4 DEF NodeIn
  <2>6. ns[k] \in NodesOf(b)
    BY <1>4, <1>5, <2>5
  <2>7. s.runs \subseteq Tokens(ns[k].span)
    BY <1>2, <2>5, <2>6, SideHasANode
  <2> QED  BY <2>5, <2>7 DEF HoldsSide
<1>8. ASSUME NEW i \in DOMAIN edges PROVE HoldsEdge(ns, edges[i])
  <2> DEFINE e == edges[i]
             left == [block |-> e.left, core |-> e.leftCore, runs |-> e.leftRuns]
             right == [block |-> e.right, core |-> e.rightCore, runs |-> e.rightRuns]
  <2>1. left \in Sides /\ right \in Sides
    BY DEF Sides, SidesOf
  <2>2. HoldsSide(ns, left.block, left.core, left.runs)
    BY <1>7, <2>1
  <2>3. HoldsSide(ns, right.block, right.core, right.runs)
    BY <1>7, <2>1
  <2> QED  BY <2>2, <2>3 DEF HoldsEdge
<1>9. NodesInv'
  <2>1. root' \in [DOMAIN nodes' -> DOMAIN nodes']
    BY <1>1
  <2> QED  BY <1>1, <1>6, <1>8, <2>1 DEF NodesInv
<1> QED  BY <1>1, <1>9 DEF GroupsInv, EdgesInv, ReportedInv, AllGroups

-----------------------------------------------------------------------------
(* The copies a cluster makes of its members.                              *)

LEMMA NodeIs ==
  ASSUME AreBlocks(blocks), AreNodes(blocks, nodes), NEW n \in DOMAIN nodes
  PROVE  LET r == nodes[n].span
             b == nodes[n].block
         IN  /\ r \in RangeType /\ r[1] \in Nat /\ r[2] \in Nat /\ r[1] < r[2]
             /\ r[2] - r[1] >= MinCopyTokens
             /\ b \in DOMAIN blocks /\ blocks[b][1] <= r[1] /\ r[2] <= blocks[b][2]
             /\ Tokens(r) \subseteq Tokens(blocks[b]) /\ Tokens(r) # {}
<1> DEFINE r == nodes[n].span  b == nodes[n].block
<1>1. r \in RangeType /\ b \in DOMAIN blocks /\ Within(r, blocks[b]) /\ r[2] - r[1] >= MinCopyTokens
  <2>1. nodes[n] \in NodeType
    BY DEF AreNodes
  <2>2. r \in RangeType
    BY <2>1 DEF NodeType
  <2>3. b \in DOMAIN blocks /\ Within(r, blocks[b]) /\ r[2] - r[1] >= MinCopyTokens
    BY DEF AreNodes
  <2> QED  BY <2>2, <2>3
<1>2. blocks[b] \in RangeType
  BY <1>1, BlockIs
<1>3. r[1] \in Nat /\ r[2] \in Nat /\ r[1] < r[2]
  BY <1>1, RangeIs
<1>4. Tokens(r) \subseteq Tokens(blocks[b]) /\ r[1] \in Tokens(r)
  BY <1>1, <1>2, TokensAre, WithinIs
<1> QED  BY <1>1, <1>3, <1>4 DEF Within

LEMMA MembersAreFinite ==
  ASSUME AreNodes(blocks, nodes), NEW ns, ns \subseteq DOMAIN nodes
  PROVE  IsFiniteSet(ns)
<1>1. IsFiniteSet(DOMAIN nodes)
  <2>1. DOMAIN nodes = 1..Len(nodes) /\ 1 \in Int /\ Len(nodes) \in Int
    BY DEF AreNodes
  <2> QED  BY <2>1, FS_Interval
<1> QED  BY <1>1, FS_Subset

(* An occurrence holds a member of a block and no token of the members of other blocks, *)
(* and it begins less than a copy before the block.                                     *)
IsCopyIn(q, members, b) ==
  /\ IsListed(q) /\ b \in DOMAIN blocks
  /\ \E n \in InBlock(members, b) : Tokens(nodes[n].span) \subseteq Listed(q)
  /\ \A n \in members : nodes[n].block # b => Tokens(nodes[n].span) \cap Listed(q) = {}
  /\ Start(q) >= blocks[b][1] \/ Start(q) + MinCopyTokens > blocks[b][1]

SpansOf(ns) == {nodes[n].span : n \in ns}

LEMMA SpansAre ==
  ASSUME AreBlocks(blocks), AreNodes(blocks, nodes), NEW ns, ns \subseteq DOMAIN nodes,
         NEW q, q.segments = SpansOf(ns), ns # {}
  PROVE  /\ IsListed(q) /\ \A n \in ns : Tokens(nodes[n].span) \subseteq Listed(q)
         /\ \A t \in Listed(q) : \E n \in ns : t \in Tokens(nodes[n].span)
<1>1. IsFiniteSet(ns)
  BY MembersAreFinite
<1>2. IsFiniteSet(SpansOf(ns))
  <2> DEFINE f == [n \in ns |-> nodes[n].span]
  <2>1. f \in [ns -> SpansOf(ns)] /\ \A y \in SpansOf(ns) : \E x \in ns : f[x] = y
    BY DEF SpansOf
  <2> HIDE DEF f
  <2> QED  BY <1>1, <2>1, ImageIsFinite
<1>3. SpansOf(ns) \subseteq RangeType /\ SpansOf(ns) # {}
  BY NodeIs DEF SpansOf
<1>4. IsListed(q)
  BY <1>2, <1>3 DEF IsListed
<1> QED  BY <1>4 DEF Listed, TokensOf, SpansOf

LEMMA SpansAreACopy ==
  ASSUME AreBlocks(blocks), AreNodes(blocks, nodes), NEW members, members \subseteq DOMAIN nodes,
         NEW b, NEW ns, ns \subseteq InBlock(members, b), ns # {}, NEW q, q.segments = SpansOf(ns)
  PROVE  IsCopyIn(q, members, b)
<1>1. ns \subseteq DOMAIN nodes /\ \A n \in ns : n \in members /\ nodes[n].block = b
  BY DEF InBlock
<1>2. /\ IsListed(q) /\ \A n \in ns : Tokens(nodes[n].span) \subseteq Listed(q)
      /\ \A t \in Listed(q) : \E n \in ns : t \in Tokens(nodes[n].span)
  BY <1>1, SpansAre
<1>3. b \in DOMAIN blocks
  BY <1>1, NodeIs
<1>4. Listed(q) \subseteq Tokens(blocks[b])
  BY <1>1, <1>2, NodeIs
<1>5. ASSUME NEW n \in members, nodes[n].block # b PROVE Tokens(nodes[n].span) \cap Listed(q) = {}
  <2>1. Tokens(nodes[n].span) \subseteq Tokens(blocks[nodes[n].block]) /\ nodes[n].block \in DOMAIN blocks
    BY NodeIs
  <2> QED  BY <1>3, <1>4, <1>5, <2>1, BlocksAreApart
<1>6. Start(q) >= blocks[b][1]
  <2>1. Start(q) \in Nat /\ Start(q) \in Tokens(blocks[b])
    BY <1>2, <1>4, ListedTokens
  <2> QED  BY <1>3, <2>1, BlockIs, TokensAre
<1> QED  BY <1>2, <1>3, <1>5, <1>6 DEF IsCopyIn

(* Copies in different blocks are different, and begin at different tokens. *)
LEMMA CopiesDiffer ==
  ASSUME AreBlocks(blocks), AreNodes(blocks, nodes), NEW members, members \subseteq DOMAIN nodes,
         NEW b, NEW c, b < c, NEW q, NEW p, IsCopyIn(q, members, b), IsCopyIn(p, members, c)
  PROVE  Start(q) < Start(p)
<1>1. b \in DOMAIN blocks /\ c \in DOMAIN blocks /\ IsListed(q) /\ IsListed(p)
  BY DEF IsCopyIn
<1>2. blocks[b][2] <= blocks[c][1]
  BY <1>1 DEF AreBlocks
<1>3. PICK n \in InBlock(members, b) : Tokens(nodes[n].span) \subseteq Listed(q)
  BY DEF IsCopyIn
<1> DEFINE r == nodes[n].span
<1>4. n \in DOMAIN nodes /\ nodes[n].block = b
  BY DEF InBlock
<1>5. /\ r[1] \in Nat /\ r[2] \in Nat /\ r[1] < r[2] /\ r[2] - r[1] >= MinCopyTokens
      /\ r[2] <= blocks[b][2] /\ r \in RangeType
  BY <1>4, NodeIs
<1>6. Start(q) <= r[1] /\ Start(q) \in Nat /\ Start(p) \in Nat
  <2>1. r[1] \in Listed(q)
    BY <1>3, <1>5, TokensAre
  <2> QED  BY <1>1, <2>1, ListedTokens
<1>7. Start(p) >= blocks[c][1] \/ Start(p) + MinCopyTokens > blocks[c][1]
  BY DEF IsCopyIn
<1>8. MinCopyTokens \in Nat /\ blocks[b][2] \in Nat /\ blocks[c][1] \in Nat
  BY <1>1, BlockIs, CasesAssumption
<1> HIDE DEF r
<1> QED  BY <1>2, <1>5, <1>6, <1>7, <1>8

LEMMA CopiesAreUnequal ==
  ASSUME AreBlocks(blocks), AreNodes(blocks, nodes), NEW members, members \subseteq DOMAIN nodes,
         NEW b, NEW c, b # c, NEW q, NEW p, IsCopyIn(q, members, b), IsCopyIn(p, members, c)
  PROVE  Start(q) # Start(p) /\ q # p
<1>1. b \in Nat /\ c \in Nat /\ IsListed(q) /\ IsListed(p)
  BY BlockIs DEF IsCopyIn
<1>2. Start(q) \in Nat /\ Start(p) \in Nat
  BY <1>1, ListedTokens
<1>3. CASE b < c
  <2>1. Start(q) < Start(p)
    BY <1>3, CopiesDiffer
  <2> QED  BY <1>2, <2>1
<1>4. CASE c < b
  <2>1. Start(p) < Start(q)
    BY <1>4, CopiesDiffer
  <2> QED  BY <1>2, <2>1
<1> QED  BY <1>1, <1>3, <1>4

(* An occurrence that stands for a member begins less than a copy before its block. *)
LEMMA StandsInItsBlock ==
  ASSUME AreBlocks(blocks), AreNodes(blocks, nodes), NEW members, members \subseteq DOMAIN nodes,
         NEW b \in BlocksOf(members), NEW o, IsListed(o), StandsFor(o, members, b)
  PROVE  /\ b \in DOMAIN blocks /\ Start(o) + MinCopyTokens > blocks[b][1]
         /\ \A n \in members : MatchesWithin(o, nodes[n].span) => nodes[n].block = b
         /\ \E n \in InBlock(members, b) : MatchesWithin(o, nodes[n].span)
<1> DEFINE ns == InBlock(members, b)
           S == {s[1] : s \in {nodes[n].span : n \in ns}}
           E == {s[2] : s \in {nodes[n].span : n \in ns}}
           over == Max({0, Min(S) - Start(o)})
           under == Max({0, End(o) - Max(E)})
           met == {n \in members : MatchesWithin(o, nodes[n].span)}
<1>1. BlocksOf(met) = {b} /\ over + under < MinCopyTokens
  BY DEF StandsFor
<1>2. \A n \in ns : n \in DOMAIN nodes /\ nodes[n].block = b
  BY DEF InBlock
<1>3. PICK m \in ns : TRUE
  BY DEF BlocksOf, InBlock
<1>4. b \in DOMAIN blocks
  BY <1>2, <1>3, NodeIs
<1>5. \A n \in ns : /\ nodes[n].span[1] \in Nat /\ nodes[n].span[2] \in Nat
                    /\ blocks[b][1] <= nodes[n].span[1]
  BY <1>2, NodeIs
<1>6. S \subseteq Nat /\ S # {} /\ E \subseteq Nat /\ E # {} /\ \A x \in S : blocks[b][1] <= x
  BY <1>3, <1>5
<1>7. IsFiniteSet(E)
  <2> DEFINE f == [n \in ns |-> nodes[n].span[2]]
  <2>1. f \in [ns -> E] /\ \A y \in E : \E x \in ns : f[x] = y
    OBVIOUS
  <2>2. IsFiniteSet(ns)
    BY MembersAreFinite DEF InBlock
  <2> HIDE DEF f, E, ns
  <2> QED  BY <2>1, <2>2, ImageIsFinite
<1> HIDE DEF S, E
<1>8. Min(S) \in S /\ Min(S) \in Nat /\ Max(E) \in Nat
  BY <1>6, <1>7, MinIsLeast, MaxIsGreatest
<1>9. ASSUME NEW x \in Int PROVE Max({0, x}) \in Int /\ Max({0, x}) >= 0 /\ Max({0, x}) >= x
  <2>1. \E y \in {0, x} : \A z \in {0, x} : y >= z
    BY <1>9
  <2>2. Max({0, x}) \in {0, x} /\ \A z \in {0, x} : Max({0, x}) >= z
    BY <2>1 DEF Max
  <2> QED  BY <1>9, <2>2
<1>10. Start(o) \in Nat /\ End(o) \in Nat /\ MinCopyTokens \in Nat
  BY ListedTokens, CasesAssumption
<1>11. over \in Int /\ over >= Min(S) - Start(o) /\ under \in Int /\ under >= 0
  <2>1. Min(S) - Start(o) \in Int /\ End(o) - Max(E) \in Int
    BY <1>8, <1>10
  <2> QED  BY <1>9, <2>1
<1>12. blocks[b][1] <= Min(S) /\ blocks[b][1] \in Nat
  BY <1>4, <1>6, <1>8, BlockIs
<1> HIDE DEF over, under
<1>13. Start(o) + MinCopyTokens > blocks[b][1]
  BY <1>1, <1>8, <1>10, <1>11, <1>12
<1>14. \A n \in members : MatchesWithin(o, nodes[n].span) => nodes[n].block = b
  BY <1>1 DEF BlocksOf
<1>15. \E n \in ns : MatchesWithin(o, nodes[n].span)
  BY <1>1 DEF BlocksOf, InBlock
<1> QED  BY <1>4, <1>13, <1>14, <1>15

LEMMA CoalescedTokens ==
  ASSUME NEW os, IsFiniteSet(os), os # {}, \A o \in os : IsListed(o),
         NEW q, q.segments = MergedRanges(UNION {o.segments : o \in os})
  PROVE  /\ IsListed(q) /\ \A o \in os : Listed(o) \subseteq Listed(q)
         /\ \A t \in Listed(q) : \E o \in os : t \in Listed(o)
<1> DEFINE sets == {o.segments : o \in os}
           rs == UNION sets
<1>1. IsFiniteSet(sets)
  <2> DEFINE f == [o \in os |-> o.segments]
  <2>1. f \in [os -> sets] /\ \A y \in sets : \E x \in os : f[x] = y
    OBVIOUS
  <2> HIDE DEF f, sets
  <2> QED  BY <2>1, ImageIsFinite
<1>2. \A T \in sets : IsFiniteSet(T) /\ T \subseteq RangeType /\ T # {}
  BY DEF IsListed
<1>3. IsFiniteSet(rs) /\ rs \subseteq RangeType
  <2> HIDE DEF sets
  <2> QED  BY <1>1, <1>2, FS_UNION
<1>4. rs # {}
  BY <1>2
<1>5. \A t : t \in TokensOf(rs) <=> \E o \in os : t \in Listed(o)
  BY DEF TokensOf, Listed
<1>6. q.segments = MergedRanges(rs)
  OBVIOUS
<1> HIDE DEF rs, sets
<1>7. /\ MergedRanges(rs) \subseteq RangeType /\ IsFiniteSet(MergedRanges(rs))
      /\ TokensOf(MergedRanges(rs)) = TokensOf(rs)
  BY <1>3, MergedTokens
<1>8. MergedRanges(rs) # {}
  BY <1>3, <1>4, MergedCover
<1>9. IsListed(q)
  BY <1>6, <1>7, <1>8 DEF IsListed
<1>10. Listed(q) = TokensOf(rs)
  BY <1>6, <1>7 DEF Listed
<1> QED  BY <1>5, <1>9, <1>10

LEMMA CoalescedIsACopy ==
  ASSUME AreBlocks(blocks), AreNodes(blocks, nodes), NEW members, members \subseteq DOMAIN nodes,
         NEW b \in BlocksOf(members), NEW os, IsFiniteSet(os),
         \A o \in os : IsListed(o) /\ StandsFor(o, members, b),
         NEW q, q.segments = Coalesced(os \cup {Copy(InBlock(members, b))}).segments
  PROVE  /\ IsCopyIn(q, members, b) /\ \A o \in os : Listed(o) \subseteq Listed(q)
         /\ \A n \in InBlock(members, b) : Tokens(nodes[n].span) \subseteq Listed(q)
<1> DEFINE ns == InBlock(members, b)
           own == Copy(ns)
           all == os \cup {own}
<1>1. ns \subseteq DOMAIN nodes /\ ns # {} /\ \A n \in ns : n \in members /\ nodes[n].block = b
  BY DEF InBlock, BlocksOf
<1>2. own.segments = SpansOf(ns)
  BY DEF Copy, SpansOf
<1>3. /\ IsListed(own) /\ \A n \in ns : Tokens(nodes[n].span) \subseteq Listed(own)
      /\ \A t \in Listed(own) : \E n \in ns : t \in Tokens(nodes[n].span)
  <2> HIDE DEF ns, own
  <2> QED  BY <1>1, <1>2, SpansAre
<1>4. q.segments = MergedRanges(UNION {o.segments : o \in all})
  BY DEF Coalesced
<1>5. IsFiniteSet(all) /\ all # {} /\ \A o \in all : IsListed(o)
  BY <1>3, FS_AddElement
<1> HIDE DEF own, ns
<1>6. /\ IsListed(q) /\ \A o \in all : Listed(o) \subseteq Listed(q)
      /\ \A t \in Listed(q) : \E o \in all : t \in Listed(o)
  <2> HIDE DEF all
  <2> QED  BY <1>4, <1>5, CoalescedTokens
<1>7. b \in DOMAIN blocks
  BY <1>1, NodeIs
<1>8. \A n \in ns : Tokens(nodes[n].span) \subseteq Listed(q)
  BY <1>3, <1>6
<1>9. Listed(own) \subseteq Tokens(blocks[b])
  BY <1>1, <1>3, NodeIs
<1>10. ASSUME NEW n \in members, nodes[n].block # b PROVE Tokens(nodes[n].span) \cap Listed(q) = {}
  <2>1. SUFFICES ASSUME NEW t \in Tokens(nodes[n].span), t \in Listed(q) PROVE FALSE
    OBVIOUS
  <2>2. PICK o \in all : t \in Listed(o)
    BY <1>6, <2>1
  <2>3. nodes[n].span \in RangeType /\ nodes[n].block \in DOMAIN blocks
        /\ Tokens(nodes[n].span) \subseteq Tokens(blocks[nodes[n].block])
    BY NodeIs
  <2>4. CASE o \in os
    <3>1. MatchesWithin(o, nodes[n].span)
      BY <2>1, <2>2, <2>3, <2>4, MatchesWithinIs
    <3> QED  BY <1>10, <2>4, <3>1, StandsInItsBlock
  <2>5. CASE o = own
    <3>1. t \in Tokens(blocks[b])
      BY <1>9, <2>2, <2>5
    <3> QED  BY <1>7, <1>10, <2>1, <2>3, <3>1, BlocksAreApart
  <2> QED  BY <2>2, <2>4, <2>5
<1>11. Start(q) >= blocks[b][1] \/ Start(q) + MinCopyTokens > blocks[b][1]
  <2>1. Start(q) \in Nat /\ Start(q) \in Listed(q)
    BY <1>6, ListedTokens
  <2>2. PICK o \in all : Start(q) \in Listed(o)
    BY <1>6, <2>1
  <2>3. CASE o \in os
    <3>1. Start(o) + MinCopyTokens > blocks[b][1]
      BY <2>3, StandsInItsBlock
    <3>2. Start(o) <= Start(q) /\ Start(o) \in Nat
      BY <1>5, <2>2, ListedTokens
    <3>3. MinCopyTokens \in Nat /\ blocks[b][1] \in Nat
      BY <1>7, BlockIs, CasesAssumption
    <3> QED  BY <2>1, <3>1, <3>2, <3>3
  <2>4. CASE o = own
    <3>1. Start(q) \in Tokens(blocks[b])
      BY <1>9, <2>2, <2>4
    <3> QED  BY <1>7, <2>1, <3>1, BlockIs, TokensAre
  <2> QED  BY <2>2, <2>3, <2>4
<1>12. IsCopyIn(q, members, b)
  BY <1>1, <1>6, <1>7, <1>8, <1>10, <1>11 DEF IsCopyIn, ns
<1> QED  BY <1>6, <1>8, <1>12 DEF ns

-----------------------------------------------------------------------------
(* The groups a cluster takes over.                                        *)

LEMMA TakenGroups ==
  ASSUME ReportedInv, NEW members, NEW g \in TakenOver(members)
  PROVE  /\ g \in DOMAIN reported /\ IsGroup(reported[g])
         /\ \A o \in ToSet(reported[g]) : \E b \in BlocksOf(members) : StandsFor(o, members, b)
         /\ \A o, p \in ToSet(reported[g]) : \A b, c \in BlocksOf(members) :
              o # p /\ StandsFor(o, members, b) /\ StandsFor(p, members, c) => b # c
<1> DEFINE r == reported[g]
<1>1. g \in DOMAIN reported /\ StandForMembers(g, members)
  BY DEF TakenOver, Touched, ReportedInv
<1>2. IsGroup(r)
  BY <1>1 DEF ReportedInv, StandForMembers
<1>3. \A i \in DOMAIN r : \E b \in BlocksOf(members) :
        StandsFor(r[i], members, b) /\ \A j \in DOMAIN r \ {i} : ~StandsFor(r[j], members, b)
  BY <1>1 DEF StandForMembers
<1> HIDE DEF r
<1>4. \A o \in ToSet(r) : \E i \in DOMAIN r : r[i] = o
  BY DEF ToSet
<1>5. \A o \in ToSet(r) : \E b \in BlocksOf(members) : StandsFor(o, members, b)
  BY <1>3, <1>4
<1>6. ASSUME NEW o \in ToSet(r), NEW p \in ToSet(r), NEW b \in BlocksOf(members), NEW c \in BlocksOf(members),
             o # p, StandsFor(o, members, b), StandsFor(p, members, c)
      PROVE  b # c
  <2>1. PICK i \in DOMAIN r : r[i] = o
    BY <1>4
  <2>2. PICK j \in DOMAIN r : r[j] = p
    BY <1>4
  <2>3. j \in DOMAIN r \ {i}
    BY <1>6, <2>1, <2>2
  <2>4. PICK d \in BlocksOf(members) : StandsFor(o, members, d) /\ ~StandsFor(p, members, d)
    BY <1>3, <2>1, <2>2, <2>3
  <2>5. b = d
    <3>1. BlocksOf({n \in members : MatchesWithin(o, nodes[n].span)}) = {b}
      BY <1>6 DEF StandsFor
    <3>2. BlocksOf({n \in members : MatchesWithin(o, nodes[n].span)}) = {d}
      BY <2>4 DEF StandsFor
    <3> QED  BY <3>1, <3>2
  <2> QED  BY <1>6, <2>4, <2>5
<1> QED  BY <1>1, <1>2, <1>5, <1>6 DEF r

LEMMA FragmentsAre ==
  ASSUME AreBlocks(blocks), AreNodes(blocks, nodes), ReportedInv,
         NEW members, members \subseteq DOMAIN nodes, NEW b \in BlocksOf(members)
  PROVE  LET os == FragmentsIn(TakenOver(members), members, b)
         IN  /\ IsFiniteSet(os) /\ \A o \in os : IsListed(o) /\ StandsFor(o, members, b)
             /\ \A g \in TakenOver(members) : \A o \in ToSet(reported[g]) :
                  StandsFor(o, members, b) => o \in os
<1> DEFINE taken == TakenOver(members)
           sets == {ToSet(reported[g]) : g \in taken}
           os == FragmentsIn(taken, members, b)
<1>1. taken \subseteq DOMAIN before
  BY DEF TakenOver, Touched
<1>2. IsFiniteSet(taken)
  <2> HIDE DEF taken
  <2> QED  BY <1>1, FS_Subset DEF ReportedInv
<1>3. \A g \in taken : IsGroup(reported[g])
  BY TakenGroups
<1>4. IsFiniteSet(sets)
  <2> DEFINE f == [g \in taken |-> ToSet(reported[g])]
  <2>1. f \in [taken -> sets] /\ \A y \in sets : \E x \in taken : f[x] = y
    OBVIOUS
  <2> HIDE DEF f, sets, taken
  <2> QED  BY <1>2, <2>1, ImageIsFinite
<1>5. \A T \in sets : IsFiniteSet(T)
  BY <1>3 DEF IsGroup
<1>6. IsFiniteSet(UNION sets)
  <2> HIDE DEF sets
  <2> QED  BY <1>4, <1>5, FS_UNION
<1>7. os \subseteq UNION sets
  BY DEF FragmentsIn
<1>8. IsFiniteSet(os)
  <2> HIDE DEF os, sets
  <2> QED  BY <1>6, <1>7, FS_Subset
<1>9. ASSUME NEW o \in os PROVE IsListed(o) /\ StandsFor(o, members, b)
  <2>1. PICK g \in taken : o \in ToSet(reported[g])
    BY DEF FragmentsIn
  <2>2. PICK n \in InBlock(members, b) : MatchesWithin(o, nodes[n].span)
    BY DEF FragmentsIn
  <2>3. IsListed(o)
    BY <1>3, <2>1 DEF IsGroup
  <2>4. PICK c \in BlocksOf(members) : StandsFor(o, members, c)
    BY <2>1, TakenGroups
  <2>5. n \in members /\ nodes[n].block = b
    BY DEF InBlock
  <2>6. b = c
    BY <2>2, <2>3, <2>4, <2>5, StandsInItsBlock
  <2> QED  BY <2>3, <2>4, <2>6
<1>10. ASSUME NEW g \in taken, NEW o \in ToSet(reported[g]), StandsFor(o, members, b) PROVE o \in os
  <2>1. IsListed(o)
    BY <1>3 DEF IsGroup
  <2>2. \E n \in InBlock(members, b) : MatchesWithin(o, nodes[n].span)
    BY <1>10, <2>1, StandsInItsBlock
  <2> QED  BY <2>2 DEF FragmentsIn
<1> QED  BY <1>8, <1>9, <1>10

(* What takes the place of the groups: the copies in the blocks that hold fragments, and the *)
(* other members' copies, those with nodes that touched a reported group apart.              *)
HeldBlocks(members) == {b \in BlocksOf(members) : FragmentsIn(TakenOver(members), members, b) # {}}
Unheld(members) == {n \in members : nodes[n].block \notin HeldBlocks(members)}
HeldCopy(members, b) ==
  Coalesced(FragmentsIn(TakenOver(members), members, b) \cup {Copy(InBlock(members, b))})
Marked(o, members) == [o EXCEPT !.shared = CountsElsewhere(o, TakenOver(members))]
Anchor(o) == [o EXCEPT !.shared = TRUE]
Untouching(ns) == {n \in ns : Touched(n) = {}}
Touching(ns) == {n \in ns : Touched(n) # {}}
TakenCopies(members) ==
  {Marked(o, members) : o \in {HeldCopy(members, b) : b \in HeldBlocks(members)}
                              \cup Copies(Untouching(Unheld(members)))}
  \cup AsAnchors(Copies(Touching(Unheld(members))))

LEMMA TakeOverIs ==
  ASSUME NEW members, TakeOver(members, TakenOver(members))
  PROVE  reported' = [g \in DOMAIN reported |->
                        IF g = Min(TakenOver(members)) THEN InFileOrder(TakenCopies(members))
                        ELSE IF g \in TakenOver(members) THEN <<>> ELSE reported[g]]
BY DEF TakeOver, TakenCopies, HeldBlocks, Unheld, HeldCopy, Marked, Untouching, Touching

(* The copies of a cluster: each in one block, in an order, and every member in one of them. *)
AreCopies(S, members) ==
  /\ IsFiniteSet(S) /\ NoTies(S)
  /\ \A q \in S : \E b \in BlocksOf(members) : IsCopyIn(q, members, b)
  /\ \A n \in members : \E q \in S :
       IsCopyIn(q, members, nodes[n].block) /\ Tokens(nodes[n].span) \subseteq Listed(q)

LEMMA BlocksAreFinite ==
  ASSUME AreNodes(blocks, nodes), NEW ns, ns \subseteq DOMAIN nodes
  PROVE  IsFiniteSet(BlocksOf(ns))
<1> DEFINE f == [n \in ns |-> nodes[n].block]
<1>1. f \in [ns -> BlocksOf(ns)] /\ \A y \in BlocksOf(ns) : \E x \in ns : f[x] = y
  BY DEF BlocksOf
<1>2. IsFiniteSet(ns)
  BY MembersAreFinite
<1> HIDE DEF f
<1> QED  BY <1>1, <1>2, ImageIsFinite

HoldMembers(h, H, members) ==
  \A b \in H : /\ IsCopyIn(h[b], members, b)
               /\ \A n \in InBlock(members, b) : Tokens(nodes[n].span) \subseteq Listed(h[b])
HoldSpans(f, ns) == \A b \in BlocksOf(ns) : f[b].segments = SpansOf(InBlock(ns, b))
AreOutside(ns, members, H) == ns = {n \in members : nodes[n].block \notin H}
ConsistsOf(S, h, H, f, U, g, T) ==
  S = {h[b] : b \in H} \cup {f[b] : b \in BlocksOf(U)} \cup {g[b] : b \in BlocksOf(T)}

(* One copy for each block in H, and one each of the untouched and of the touched nodes in *)
(* every other block.                                                                      *)
LEMMA CopiesMake ==
  ASSUME AreBlocks(blocks), AreNodes(blocks, nodes), NEW members, members \subseteq DOMAIN nodes,
         NEW H, H \subseteq BlocksOf(members), NEW ns, AreOutside(ns, members, H), NEW h, NEW f, NEW g,
         HoldMembers(h, H, members), HoldSpans(f, Untouching(ns)), HoldSpans(g, Touching(ns)),
         NEW S, ConsistsOf(S, h, H, f, Untouching(ns), g, Touching(ns))
  PROVE  AreCopies(S, members)
<1> DEFINE U == Untouching(ns)  T == Touching(ns)
<1>1. U \subseteq members /\ T \subseteq members /\ U \cap T = {} /\ \A n \in ns : n \in U \/ n \in T
  BY DEF Untouching, Touching, AreOutside
<1>2. \A n \in U \cup T : nodes[n].block \notin H
  BY <1>1 DEF Untouching, Touching, AreOutside
<1>3. BlocksOf(U) \subseteq BlocksOf(members) /\ BlocksOf(T) \subseteq BlocksOf(members)
  BY <1>1 DEF BlocksOf
<1>4. \A b \in BlocksOf(U) \cup BlocksOf(T) : b \notin H
  BY <1>2 DEF BlocksOf
<1> HIDE DEF U, T
<1>5. ASSUME NEW V, V \subseteq members, NEW b \in BlocksOf(V), NEW q, q.segments = SpansOf(InBlock(V, b))
      PROVE  /\ IsCopyIn(q, members, b) /\ IsListed(q)
             /\ \A n \in InBlock(V, b) : Tokens(nodes[n].span) \subseteq Listed(q)
             /\ \A t \in Listed(q) : \E n \in InBlock(V, b) : t \in Tokens(nodes[n].span)
  <2> DEFINE vs == InBlock(V, b)
  <2>1. vs \subseteq InBlock(members, b) /\ vs # {} /\ vs \subseteq DOMAIN nodes
    BY <1>5 DEF InBlock, BlocksOf
  <2> HIDE DEF vs
  <2>2. q.segments = SpansOf(vs)
    BY <1>5 DEF vs
  <2>3. IsCopyIn(q, members, b)
    BY <2>1, <2>2, SpansAreACopy
  <2>4. /\ IsListed(q) /\ \A n \in vs : Tokens(nodes[n].span) \subseteq Listed(q)
        /\ \A t \in Listed(q) : \E n \in vs : t \in Tokens(nodes[n].span)
    BY <2>1, <2>2, SpansAre
  <2> QED  BY <2>3, <2>4 DEF vs
<1>6. \A b \in BlocksOf(U) :
        /\ IsCopyIn(f[b], members, b) /\ IsListed(f[b])
        /\ \A n \in InBlock(U, b) : Tokens(nodes[n].span) \subseteq Listed(f[b])
        /\ \A t \in Listed(f[b]) : \E n \in InBlock(U, b) : t \in Tokens(nodes[n].span)
  <2> TAKE b \in BlocksOf(U)
  <2>1. f[b].segments = SpansOf(InBlock(U, b))
    BY DEF U, HoldSpans
  <2> QED  BY <1>1, <1>5, <2>1
<1>7. \A b \in BlocksOf(T) :
        /\ IsCopyIn(g[b], members, b) /\ IsListed(g[b])
        /\ \A n \in InBlock(T, b) : Tokens(nodes[n].span) \subseteq Listed(g[b])
        /\ \A t \in Listed(g[b]) : \E n \in InBlock(T, b) : t \in Tokens(nodes[n].span)
  <2> TAKE b \in BlocksOf(T)
  <2>1. g[b].segments = SpansOf(InBlock(T, b))
    BY DEF T, HoldSpans
  <2> QED  BY <1>1, <1>5, <2>1
<1>8. S = {h[b] : b \in H} \cup {f[b] : b \in BlocksOf(U)} \cup {g[b] : b \in BlocksOf(T)}
  BY DEF U, T, ConsistsOf
<1>9. IsFiniteSet(S)
  <2>1. IsFiniteSet(BlocksOf(members))
    BY BlocksAreFinite
  <2>2. IsFiniteSet(H) /\ IsFiniteSet(BlocksOf(U)) /\ IsFiniteSet(BlocksOf(T))
    BY <1>3, <2>1, FS_Subset
  <2>3. ASSUME NEW D, NEW k, IsFiniteSet(D) PROVE IsFiniteSet({k[b] : b \in D})
    <3> DEFINE I == {k[b] : b \in D}
               l == [b \in D |-> k[b]]
    <3>1. l \in [D -> I] /\ \A y \in I : \E x \in D : l[x] = y
      OBVIOUS
    <3> HIDE DEF l, I
    <3>2. IsFiniteSet(I)
      BY <2>3, <3>1, ImageIsFinite
    <3> QED  BY <3>2 DEF I
  <2> DEFINE A == {h[b] : b \in H}  B == {f[b] : b \in BlocksOf(U)}  C == {g[b] : b \in BlocksOf(T)}
  <2>4. IsFiniteSet(A) /\ IsFiniteSet(B) /\ IsFiniteSet(C)
    BY <2>2, <2>3
  <2>5. S = (A \cup B) \cup C
    BY <1>8
  <2> HIDE DEF A, B, C
  <2>6. IsFiniteSet(A \cup B)
    BY <2>4, FS_Union
  <2>7. IsFiniteSet((A \cup B) \cup C)
    BY <2>4, <2>6, FS_Union
  <2> QED  BY <2>5, <2>7
<1>10. ASSUME NEW q \in S PROVE \E b \in BlocksOf(members) : IsCopyIn(q, members, b)
  <2>1. CASE \E b \in H : q = h[b]
    BY <2>1 DEF HoldMembers
  <2>2. CASE \E b \in BlocksOf(U) : q = f[b]
    BY <1>3, <1>6, <2>2
  <2>3. CASE \E b \in BlocksOf(T) : q = g[b]
    BY <1>3, <1>7, <2>3
  <2> QED  BY <1>8, <2>1, <2>2, <2>3
<1>11. ASSUME NEW n \in members
       PROVE  \E q \in S : IsCopyIn(q, members, nodes[n].block) /\ Tokens(nodes[n].span) \subseteq Listed(q)
  <2> DEFINE b == nodes[n].block
  <2>1. CASE b \in H
    <3>1. n \in InBlock(members, b)
      BY DEF InBlock
    <3>2. h[b] \in S
      BY <1>8, <2>1
    <3> QED  BY <2>1, <3>1, <3>2 DEF HoldMembers
  <2>2. CASE n \in U
    <3>1. n \in InBlock(U, b) /\ b \in BlocksOf(U)
      BY <2>2 DEF InBlock, BlocksOf
    <3>2. IsCopyIn(f[b], members, b) /\ Tokens(nodes[n].span) \subseteq Listed(f[b])
      BY <1>6, <3>1
    <3>3. f[b] \in S
      BY <1>8, <3>1
    <3> QED  BY <3>2, <3>3
  <2>3. CASE n \in T
    <3>1. n \in InBlock(T, b) /\ b \in BlocksOf(T)
      BY <2>3 DEF InBlock, BlocksOf
    <3>2. IsCopyIn(g[b], members, b) /\ Tokens(nodes[n].span) \subseteq Listed(g[b])
      BY <1>7, <3>1
    <3>3. g[b] \in S
      BY <1>8, <3>1
    <3> QED  BY <3>2, <3>3
  <2>4. b \in H \/ n \in ns
    BY DEF AreOutside
  <2> QED  BY <1>1, <2>1, <2>2, <2>3, <2>4
<1>12. ASSUME NEW b \in BlocksOf(U), b \in BlocksOf(T) PROVE Start(f[b]) # Start(g[b])
  <2>1. PICK n \in InBlock(U, b) : Start(f[b]) \in Tokens(nodes[n].span)
    BY <1>6, ListedTokens
  <2>2. PICK m \in InBlock(T, b) : Start(g[b]) \in Tokens(nodes[m].span)
    BY <1>7, <1>12, ListedTokens
  <2>3. n # m /\ n \in DOMAIN nodes /\ m \in DOMAIN nodes
    BY <1>1 DEF InBlock
  <2>4. Tokens(nodes[n].span) \cap Tokens(nodes[m].span) = {}
    BY <2>3 DEF AreNodes
  <2> QED  BY <2>1, <2>2, <2>4
<1>13. ASSUME NEW q \in S, NEW p \in S, Start(q) = Start(p) PROVE q = p
  <2> DEFINE Of(o, b) == \/ b \in H /\ o = h[b]
                         \/ b \in BlocksOf(U) /\ o = f[b]
                         \/ b \in BlocksOf(T) /\ o = g[b]
  <2>1. \A o \in S : \E b : Of(o, b) /\ IsCopyIn(o, members, b)
    BY <1>6, <1>7, <1>8 DEF HoldMembers
  <2>2. PICK b : Of(q, b) /\ IsCopyIn(q, members, b)
    BY <2>1
  <2>3. PICK c : Of(p, c) /\ IsCopyIn(p, members, c)
    BY <2>1
  <2>4. b = c
    BY <1>13, <2>2, <2>3, CopiesAreUnequal
  <2>5. ASSUME b \in BlocksOf(U), b \in BlocksOf(T) PROVE Start(f[b]) # Start(g[b])
    BY <1>12, <2>5
  <2> QED  BY <1>4, <1>13, <2>2, <2>3, <2>4, <2>5
<1>14. NoTies(S)
  BY <1>13 DEF NoTies
<1> QED  BY <1>9, <1>10, <1>11, <1>14 DEF AreCopies

LEMMA TakenCopiesAre ==
  ASSUME AreBlocks(blocks), AreNodes(blocks, nodes), ReportedInv,
         NEW members, members \subseteq DOMAIN nodes
  PROVE  /\ AreCopies(TakenCopies(members), members)
         /\ \A g \in TakenOver(members) : \A o \in ToSet(reported[g]) : \A b \in BlocksOf(members) :
              StandsFor(o, members, b) =>
                \E q \in TakenCopies(members) : IsCopyIn(q, members, b) /\ Listed(o) \subseteq Listed(q)
<1> DEFINE H == HeldBlocks(members)
           ns == Unheld(members)
           U == Untouching(ns)
           T == Touching(ns)
           h == [b \in H |-> Marked(HeldCopy(members, b), members)]
           f == [b \in BlocksOf(U) |-> Marked(Copy(InBlock(U, b)), members)]
           g == [b \in BlocksOf(T) |-> Anchor(Copy(InBlock(T, b)))]
           S == TakenCopies(members)
<1>1. H \subseteq BlocksOf(members) /\ AreOutside(ns, members, H)
  BY DEF HeldBlocks, Unheld, AreOutside
<1>2. S = {h[b] : b \in H} \cup {f[b] : b \in BlocksOf(U)} \cup {g[b] : b \in BlocksOf(T)}
  <2> DEFINE A == {HeldCopy(members, b) : b \in H}
  <2>1. {Marked(o, members) : o \in A \cup Copies(U)}
          = {h[b] : b \in H} \cup {f[b] : b \in BlocksOf(U)}
    <3> HIDE DEF H, U
    <3> QED  BY DEF Copies
  <2>2. AsAnchors(Copies(T)) = {g[b] : b \in BlocksOf(T)}
    <3> HIDE DEF T
    <3> QED  BY DEF AsAnchors, Copies, Anchor
  <2> QED  BY <2>1, <2>2 DEF TakenCopies
<1>3. \A b \in BlocksOf(U) : f[b].segments = SpansOf(InBlock(U, b))
  BY DEF Marked, Copy, SpansOf
<1>4. \A b \in BlocksOf(T) : g[b].segments = SpansOf(InBlock(T, b))
  BY DEF Anchor, Copy, SpansOf
<1>5. ASSUME NEW b \in H
      PROVE  /\ IsCopyIn(h[b], members, b)
             /\ \A n \in InBlock(members, b) : Tokens(nodes[n].span) \subseteq Listed(h[b])
             /\ \A o \in FragmentsIn(TakenOver(members), members, b) : Listed(o) \subseteq Listed(h[b])
  <2> DEFINE os == FragmentsIn(TakenOver(members), members, b)
             q == h[b]
  <2>1. b \in BlocksOf(members)
    BY <1>1
  <2>2. IsFiniteSet(os) /\ \A o \in os : IsListed(o) /\ StandsFor(o, members, b)
    BY <2>1, FragmentsAre
  <2>3. q.segments = Coalesced(os \cup {Copy(InBlock(members, b))}).segments
    BY DEF Marked, HeldCopy, Coalesced
  <2> HIDE DEF os, q
  <2>4. /\ IsCopyIn(q, members, b) /\ \A o \in os : Listed(o) \subseteq Listed(q)
        /\ \A n \in InBlock(members, b) : Tokens(nodes[n].span) \subseteq Listed(q)
    BY <2>1, <2>2, <2>3, CoalescedIsACopy
  <2> QED  BY <2>4 DEF os, q
<1> HIDE DEF S, H, ns, f, g, h
<1>6. AreCopies(S, members)
  <2>1. HoldMembers(h, H, members)
    BY <1>5 DEF HoldMembers
  <2>2. HoldSpans(f, Untouching(ns)) /\ HoldSpans(g, Touching(ns))
    BY <1>3, <1>4 DEF HoldSpans
  <2>3. ConsistsOf(S, h, H, f, Untouching(ns), g, Touching(ns))
    BY <1>2 DEF ConsistsOf
  <2> QED  BY <1>1, <2>1, <2>2, <2>3, CopiesMake
<1>7. ASSUME NEW k \in TakenOver(members), NEW o \in ToSet(reported[k]), NEW b \in BlocksOf(members),
             StandsFor(o, members, b)
      PROVE  \E q \in S : IsCopyIn(q, members, b) /\ Listed(o) \subseteq Listed(q)
  <2>1. o \in FragmentsIn(TakenOver(members), members, b)
    BY <1>7, FragmentsAre
  <2>2. b \in H
    BY <2>1 DEF H, HeldBlocks
  <2>3. h[b] \in S
    BY <1>2, <2>2
  <2> QED  BY <1>5, <2>1, <2>2, <2>3
<1> QED  BY <1>6, <1>7 DEF S

NewCopies(members) ==
  Copies(Untouching(members)) \cup AsAnchors(Copies(Touching(members)))

LEMMA NewCopiesAre ==
  ASSUME AreBlocks(blocks), AreNodes(blocks, nodes), NEW members, members \subseteq DOMAIN nodes
  PROVE  AreCopies(NewCopies(members), members)
<1> DEFINE H == {}
           U == Untouching(members)
           T == Touching(members)
           h == [b \in H |-> b]
           f == [b \in BlocksOf(U) |-> Copy(InBlock(U, b))]
           g == [b \in BlocksOf(T) |-> Anchor(Copy(InBlock(T, b)))]
           S == NewCopies(members)
<1>1. H \subseteq BlocksOf(members) /\ AreOutside(members, members, H)
  BY DEF AreOutside
<1>2. S = {h[b] : b \in H} \cup {f[b] : b \in BlocksOf(U)} \cup {g[b] : b \in BlocksOf(T)}
  <2>1. AsAnchors(Copies(T)) = {g[b] : b \in BlocksOf(T)}
    <3> HIDE DEF T
    <3> QED  BY DEF AsAnchors, Copies, Anchor
  <2>2. Copies(U) = {f[b] : b \in BlocksOf(U)}
    <3> HIDE DEF U
    <3> QED  BY DEF Copies
  <2> QED  BY <2>1, <2>2 DEF NewCopies
<1>3. \A b \in BlocksOf(U) : f[b].segments = SpansOf(InBlock(U, b))
  BY DEF Copy, SpansOf
<1>4. \A b \in BlocksOf(T) : g[b].segments = SpansOf(InBlock(T, b))
  BY DEF Anchor, Copy, SpansOf
<1>5. \A b \in H : /\ IsCopyIn(h[b], members, b)
                   /\ \A n \in InBlock(members, b) : Tokens(nodes[n].span) \subseteq Listed(h[b])
  OBVIOUS
<1> HIDE DEF S, H, f, g, h
<1>6. AreCopies(S, members)
  <2>1. HoldMembers(h, H, members)
    BY <1>5 DEF HoldMembers
  <2>2. HoldSpans(f, Untouching(members)) /\ HoldSpans(g, Touching(members))
    BY <1>3, <1>4 DEF HoldSpans
  <2>3. ConsistsOf(S, h, H, f, Untouching(members), g, Touching(members))
    BY <1>2 DEF ConsistsOf
  <2> QED  BY <1>1, <2>1, <2>2, <2>3, CopiesMake
<1> QED  BY <1>6 DEF S

-----------------------------------------------------------------------------
(* What the groups list only grows: each group is kept, or its occurrences become parts of *)
(* the occurrences of another, different ones of different ones.                           *)

Holds(h, g) ==
  \A o, p \in g : \E q, r \in h :
    Listed(o) \subseteq Listed(q) /\ Listed(p) \subseteq Listed(r) /\ (o # p => q # r)
Absorbs(new, old) == \A g \in old : \E h \in new : Holds(h, g)

LEMMA HoldsItself == ASSUME NEW g PROVE Holds(g, g)
BY DEF Holds

LEMMA AbsorbedGroups ==
  ASSUME NEW new, NEW old, Absorbs(new, old)
  PROVE  /\ ListedIn(old) \subseteq ListedIn(new)
         /\ \A e : ListsTogether(old, e) => ListsTogether(new, e)
<1>1. ListedIn(old) \subseteq ListedIn(new)
  <2> SUFFICES ASSUME NEW t \in ListedIn(old) PROVE t \in ListedIn(new)
    OBVIOUS
  <2>1. PICK g \in old : \E o \in g : t \in Listed(o)
    BY DEF ListedIn
  <2>2. PICK o \in g : t \in Listed(o)
    BY <2>1
  <2>3. PICK h \in new : Holds(h, g)
    BY DEF Absorbs
  <2>4. PICK q \in h : Listed(o) \subseteq Listed(q)
    BY <2>3 DEF Holds
  <2> QED  BY <2>2, <2>4 DEF ListedIn
<1>2. ASSUME NEW e, ListsTogether(old, e) PROVE ListsTogether(new, e)
  <2>1. PICK g \in old : \E o, p \in g :
          o # p /\ e.leftRuns \subseteq Listed(o) /\ e.rightRuns \subseteq Listed(p)
    BY <1>2 DEF ListsTogether
  <2>2. PICK o \in g, p \in g : o # p /\ e.leftRuns \subseteq Listed(o) /\ e.rightRuns \subseteq Listed(p)
    BY <2>1
  <2>3. PICK h \in new : Holds(h, g)
    BY DEF Absorbs
  <2>4. PICK q \in h, r \in h : Listed(o) \subseteq Listed(q) /\ Listed(p) \subseteq Listed(r) /\ (o # p => q # r)
    BY <2>3 DEF Holds
  <2>5. q # r /\ e.leftRuns \subseteq Listed(q) /\ e.rightRuns \subseteq Listed(r)
    BY <2>2, <2>4
  <2> QED  BY <2>5 DEF ListsTogether
<1> QED  BY <1>1, <1>2

Members == {n \in DOMAIN nodes : root[n] = Min(clusters)}

(* A pair in the cluster has its sides in members of two blocks. *)
LEMMA EdgeOfTheCluster ==
  ASSUME NodesInv, EdgesInv, ClustersInv, NEW i \in DOMAIN edges, LeftRoot(edges[i]) = Min(clusters)
  PROVE  \E n, m \in Members :
           /\ nodes[n].block # nodes[m].block
           /\ edges[i].leftRuns \subseteq Tokens(nodes[n].span)
           /\ edges[i].rightRuns \subseteq Tokens(nodes[m].span)
<1> DEFINE e == edges[i]  n == NodeOf(e.left, e.leftCore)  m == NodeOf(e.right, e.rightCore)
<1>1. HoldsEdge(nodes, e)
  BY DEF NodesInv
<1>2. /\ n \in DOMAIN nodes /\ nodes[n].block = e.left /\ e.leftRuns \subseteq Tokens(nodes[n].span)
      /\ m \in DOMAIN nodes /\ nodes[m].block = e.right /\ e.rightRuns \subseteq Tokens(nodes[m].span)
  BY <1>1 DEF HoldsEdge, HoldsSide, NodeOf, NodeIn
<1>3. e.left # e.right
  BY DEF EdgesInv, IsMatch
<1>4. root[n] = Min(clusters) /\ root[m] = Min(clusters)
  BY DEF ClustersInv, LeftRoot, RightRoot
<1>5. n \in Members /\ m \in Members
  BY <1>2, <1>4 DEF Members
<1> QED  BY <1>2, <1>3, <1>5

LEMMA CopiesAreAGroup ==
  ASSUME NEW S, NEW members, AreCopies(S, members), \E q, p \in S : q # p
  PROVE  ToSet(InFileOrder(S)) = S /\ IsGroup(InFileOrder(S))
<1>1. IsFiniteSet(S) /\ NoTies(S) /\ \A q \in S : IsListed(q)
  BY DEF AreCopies, IsCopyIn
<1>2. /\ ToSet(InFileOrder(S)) = S
      /\ \A i, j \in DOMAIN InFileOrder(S) : InFileOrder(S)[i] = InFileOrder(S)[j] => i = j
  BY <1>1, FileOrder
<1> QED  BY <1>1, <1>2 DEF IsGroup

(* A cluster is done with when its pairs are settled and no group lost anything. *)
LEMMA ClusterIsGrouped ==
  ASSUME GroupsInv, phase = "group", clusters # {}, clusters' = clusters \ {Min(clusters)},
         UNCHANGED <<blocks, before, matches, edges, nodes, root, phase>>,
         DOMAIN reported' = DOMAIN reported,
         \A g \in DOMAIN reported' : reported'[g] = <<>> \/ IsGroup(reported'[g]),
         \A g \in groups' : IsGroup(g),
         Absorbs(AllGroups', AllGroups),
         \A i \in DOMAIN edges : LeftRoot(edges[i]) = Min(clusters) =>
           edges[i].leftRuns \cup edges[i].rightRuns \subseteq ListedBy(before) \/ ListsTogether(AllGroups', edges[i])
  PROVE  GroupsInv'
<1>1. EdgesInv' /\ NodesInv' /\ AreBlocks(blocks)'
  BY DEF GroupsInv, EdgesInv, NodesInv
<1>2. ReportedInv'
  <2>1. ListedIn(AllGroups) \subseteq ListedIn(AllGroups')
    BY AbsorbedGroups
  <2>2. ReportedInv
    BY DEF GroupsInv
  <2>3. ListedBy(before) \subseteq ListedIn(AllGroups')
    BY <2>1, <2>2 DEF ReportedInv
  <2>4. ListedBy(before)' = ListedBy(before) /\ ListedIn(AllGroups)' = ListedIn(AllGroups')
    BY DEF ListedBy, ListedIn
  <2>5. \A g \in DOMAIN reported' : reported'[g] = <<>> \/ IsGroup(reported'[g])
    OBVIOUS
  <2> QED  BY <2>2, <2>3, <2>4, <2>5 DEF ReportedInv
<1>3. ClustersInv
  BY DEF GroupsInv
<1>4. ClustersInv'
  <2>1. clusters' \subseteq Nat
    BY <1>3 DEF ClustersInv
  <2>2. ASSUME NEW i \in DOMAIN edges
        PROVE  /\ LeftRoot(edges[i]) = RightRoot(edges[i])
               /\ LeftRoot(edges[i]) \in clusters' \/ edges[i].leftRuns \cup edges[i].rightRuns \subseteq ListedBy(before)
                                                   \/ ListsTogether(AllGroups', edges[i])
    <3>1. LeftRoot(edges[i]) = RightRoot(edges[i]) /\ (LeftRoot(edges[i]) \in clusters \/ IsSettled(edges[i]))
      BY <1>3 DEF ClustersInv
    <3>2. CASE LeftRoot(edges[i]) = Min(clusters)
      BY <3>1, <3>2
    <3>3. CASE LeftRoot(edges[i]) \in clusters /\ LeftRoot(edges[i]) # Min(clusters)
      BY <3>1, <3>3
    <3>4. CASE IsSettled(edges[i])
      <4>1. ListsTogether(AllGroups, edges[i]) => ListsTogether(AllGroups', edges[i])
        BY AbsorbedGroups
      <4> QED  BY <3>1, <3>4, <4>1 DEF IsSettled
    <3> QED  BY <3>1, <3>2, <3>3, <3>4
  <2>3. \A i \in DOMAIN edges :
          /\ LeftRoot(edges[i])' = LeftRoot(edges[i]) /\ RightRoot(edges[i])' = RightRoot(edges[i])
          /\ IsSettled(edges[i])' <=> (\/ edges[i].leftRuns \cup edges[i].rightRuns \subseteq ListedBy(before)
                                       \/ ListsTogether(AllGroups', edges[i]))
    BY DEF LeftRoot, RightRoot, NodeOf, IsSettled, ListedBy, ListsTogether
  <2>4. DOMAIN edges' = DOMAIN edges
    OBVIOUS
  <2> QED  BY <2>1, <2>2, <2>3, <2>4 DEF ClustersInv
<1> QED  BY <1>1, <1>2, <1>4 DEF GroupsInv

(* A cluster of one node, or of what was reported, holds no pair that is not listed. *)
LEMMA ReportedClusterStep ==
  ASSUME GroupsInv, phase = "group", Cardinality(Members) < 2 \/ IsReported(Members),
         NEW i \in DOMAIN edges, LeftRoot(edges[i]) = Min(clusters)
  PROVE  edges[i].leftRuns \cup edges[i].rightRuns \subseteq ListedBy(before)
<1>1. NodesInv /\ EdgesInv /\ ClustersInv
  BY DEF GroupsInv
<1>2. PICK n \in Members, m \in Members :
           /\ nodes[n].block # nodes[m].block
           /\ edges[i].leftRuns \subseteq Tokens(nodes[n].span)
           /\ edges[i].rightRuns \subseteq Tokens(nodes[m].span)
  BY <1>1, EdgeOfTheCluster
<1>3. IsFiniteSet(Members)
  BY <1>1, MembersAreFinite DEF Members, NodesInv
<1>4. Cardinality(Members) >= 2
  BY <1>2, <1>3, TwoMakeTwo
<1>5. Cardinality(Members) \in Nat
  BY <1>3, FS_CardinalityType
<1>6. IsReported(Members)
  BY <1>4, <1>5
<1>7. Tokens(nodes[n].span) \subseteq ListedBy(before) /\ Tokens(nodes[m].span) \subseteq ListedBy(before)
  BY <1>6 DEF IsReported
<1> QED  BY <1>2, <1>7

(* A cluster's pair has its sides in two of the cluster's copies. *)
LEMMA ClusterListsItsPairs ==
  ASSUME GroupsInv, phase = "group", NEW S, AreCopies(S, Members),
         NEW i \in DOMAIN edges, LeftRoot(edges[i]) = Min(clusters)
  PROVE  \E q, p \in S : q # p /\ edges[i].leftRuns \subseteq Listed(q) /\ edges[i].rightRuns \subseteq Listed(p)
<1>1. NodesInv /\ EdgesInv /\ ClustersInv /\ AreBlocks(blocks) /\ AreNodes(blocks, nodes)
  BY DEF GroupsInv, NodesInv
<1>2. PICK n \in Members, m \in Members :
           /\ nodes[n].block # nodes[m].block
           /\ edges[i].leftRuns \subseteq Tokens(nodes[n].span)
           /\ edges[i].rightRuns \subseteq Tokens(nodes[m].span)
  BY <1>1, EdgeOfTheCluster
<1>3. Members \subseteq DOMAIN nodes
  BY DEF Members
<1>4. PICK q \in S : IsCopyIn(q, Members, nodes[n].block) /\ Tokens(nodes[n].span) \subseteq Listed(q)
  BY DEF AreCopies
<1>5. PICK p \in S : IsCopyIn(p, Members, nodes[m].block) /\ Tokens(nodes[m].span) \subseteq Listed(p)
  BY DEF AreCopies
<1>6. q # p
  BY <1>1, <1>2, <1>3, <1>4, <1>5, CopiesAreUnequal
<1> QED  BY <1>2, <1>4, <1>5, <1>6

LEMMA NewGroupStep ==
  ASSUME GroupsInv, phase = "group", clusters # {}, clusters' = clusters \ {Min(clusters)},
         UNCHANGED <<blocks, before, matches, edges, nodes, root, phase>>,
         UNCHANGED reported, NewGroup(NewCopies(Members))
  PROVE  GroupsInv'
<1> DEFINE S == NewCopies(Members)
<1>1. AreBlocks(blocks) /\ AreNodes(blocks, nodes) /\ ReportedInv
  BY DEF GroupsInv, NodesInv
<1>2. AreCopies(S, Members)
  BY <1>1, NewCopiesAre DEF Members
<1>3. groups' = IF Cardinality(S) >= 2 THEN groups \cup {InFileOrder(S)} ELSE groups
  BY DEF NewGroup
<1> HIDE DEF S
<1>4. Cardinality(S) >= 2 => ToSet(InFileOrder(S)) = S /\ IsGroup(InFileOrder(S))
  <2>1. Cardinality(S) >= 2 => \E q, p \in S : q # p
    BY <1>2, AtLeastTwo DEF AreCopies
  <2> QED  BY <1>2, <2>1, CopiesAreAGroup
<1>5. \A g \in groups' : IsGroup(g)
  BY <1>1, <1>3, <1>4 DEF ReportedInv
<1>6. AllGroups \subseteq AllGroups' /\ (Cardinality(S) >= 2 => S \in AllGroups')
  <2>1. groups \subseteq groups'
    BY <1>3
  <2>2. Cardinality(S) >= 2 => InFileOrder(S) \in groups' /\ ToSet(InFileOrder(S)) = S
    BY <1>3, <1>4
  <2> QED  BY <2>1, <2>2 DEF AllGroups
<1>7. Absorbs(AllGroups', AllGroups)
  BY <1>6, HoldsItself DEF Absorbs
<1>8. ASSUME NEW i \in DOMAIN edges, LeftRoot(edges[i]) = Min(clusters)
      PROVE  ListsTogether(AllGroups', edges[i])
  <2>1. PICK q \in S, p \in S :
          q # p /\ edges[i].leftRuns \subseteq Listed(q) /\ edges[i].rightRuns \subseteq Listed(p)
    BY <1>2, <1>8, ClusterListsItsPairs
  <2>2. Cardinality(S) >= 2
    BY <1>2, <2>1, TwoMakeTwo DEF AreCopies
  <2> QED  BY <1>6, <2>1, <2>2 DEF ListsTogether
<1>9. \A g \in DOMAIN reported' : reported'[g] = <<>> \/ IsGroup(reported'[g])
  BY <1>1 DEF ReportedInv
<1> QED  BY <1>5, <1>7, <1>8, <1>9, ClusterIsGrouped
(* A group of copies takes the place of the groups that stand for them. *)
LEMMA TakeOverStep ==
  ASSUME GroupsInv, phase = "group", clusters # {}, clusters' = clusters \ {Min(clusters)},
         UNCHANGED <<blocks, before, matches, edges, nodes, root, phase>>,
         TakenOver(Members) # {}, TakeOver(Members, TakenOver(Members)), UNCHANGED groups
  PROVE  GroupsInv'
<1> DEFINE taken == TakenOver(Members)
           S == TakenCopies(Members)
           k == Min(taken)
<1>1. AreBlocks(blocks) /\ AreNodes(blocks, nodes) /\ ReportedInv /\ Members \subseteq DOMAIN nodes
  BY DEF GroupsInv, NodesInv, Members
<1>2. reported' = [g \in DOMAIN reported |->
                     IF g = k THEN InFileOrder(S) ELSE IF g \in taken THEN <<>> ELSE reported[g]]
  BY TakeOverIs
<1>3. /\ AreCopies(S, Members)
      /\ \A g \in taken : \A o \in ToSet(reported[g]) : \A b \in BlocksOf(Members) :
           StandsFor(o, Members, b) => \E q \in S : IsCopyIn(q, Members, b) /\ Listed(o) \subseteq Listed(q)
  BY <1>1, TakenCopiesAre
<1>4. \A g \in taken : /\ g \in DOMAIN reported /\ IsGroup(reported[g])
                       /\ \A o \in ToSet(reported[g]) : \E b \in BlocksOf(Members) : StandsFor(o, Members, b)
                       /\ \A o, p \in ToSet(reported[g]) : \A b, c \in BlocksOf(Members) :
                            o # p /\ StandsFor(o, Members, b) /\ StandsFor(p, Members, c) => b # c
  BY <1>1, TakenGroups
<1>5. taken # {}
  OBVIOUS
<1> HIDE DEF taken, S
<1>6. k \in taken
  <2>1. taken \subseteq Nat
    BY <1>1, <1>4 DEF ReportedInv
  <2> QED  BY <1>5, <2>1, MinIsLeast
<1> HIDE DEF k
<1>7. \A g \in taken : Holds(S, ToSet(reported[g]))
  <2> SUFFICES ASSUME NEW g \in taken, NEW o \in ToSet(reported[g]), NEW p \in ToSet(reported[g])
               PROVE  \E q, r \in S : Listed(o) \subseteq Listed(q) /\ Listed(p) \subseteq Listed(r) /\ (o # p => q # r)
    BY DEF Holds
  <2>1. PICK b \in BlocksOf(Members) : StandsFor(o, Members, b)
    BY <1>4
  <2>2. PICK c \in BlocksOf(Members) : StandsFor(p, Members, c)
    BY <1>4
  <2>3. PICK q \in S : IsCopyIn(q, Members, b) /\ Listed(o) \subseteq Listed(q)
    BY <1>3, <2>1
  <2>4. PICK r \in S : IsCopyIn(r, Members, c) /\ Listed(p) \subseteq Listed(r)
    BY <1>3, <2>2
  <2>5. ASSUME o # p PROVE q # r
    <3>1. b # c
      BY <1>4, <2>1, <2>2, <2>5
    <3> QED  BY <1>1, <2>3, <2>4, <3>1, CopiesAreUnequal
  <2> QED  BY <2>3, <2>4, <2>5
<1>8. \E q, p \in S : q # p
  <2>1. PICK o \in ToSet(reported[k]), p \in ToSet(reported[k]) : o # p
    BY <1>4, <1>6 DEF IsGroup
  <2> QED  BY <1>6, <1>7, <2>1 DEF Holds
<1>9. ToSet(InFileOrder(S)) = S /\ IsGroup(InFileOrder(S))
  BY <1>3, <1>8, CopiesAreAGroup
<1>10. DOMAIN reported' = DOMAIN reported
  BY <1>2
<1>11. \A g \in DOMAIN reported' : reported'[g] = <<>> \/ IsGroup(reported'[g])
  BY <1>1, <1>2, <1>9 DEF ReportedInv
<1>12. S \in AllGroups'
  <2>1. k \in DOMAIN reported' /\ ToSet(reported'[k]) = S
    BY <1>2, <1>4, <1>6, <1>9
  <2>2. S # {}
    BY <1>8
  <2> QED  BY <2>1, <2>2 DEF AllGroups
<1>13. Absorbs(AllGroups', AllGroups)
  <2> SUFFICES ASSUME NEW g \in AllGroups PROVE \E h \in AllGroups' : Holds(h, g)
    BY DEF Absorbs
  <2>1. CASE \E m \in groups : g = ToSet(m)
    <3>1. g \in AllGroups'
      BY <2>1 DEF AllGroups
    <3> QED  BY <3>1, HoldsItself
  <2>2. CASE \E j \in DOMAIN reported : g = ToSet(reported[j]) /\ g # {}
    <3>1. PICK j \in DOMAIN reported : g = ToSet(reported[j]) /\ g # {}
      BY <2>2
    <3>2. CASE j \in taken
      BY <1>7, <1>12, <3>1, <3>2
    <3>3. CASE j \notin taken
      <4>1. reported'[j] = reported[j]
        BY <1>2, <1>6, <3>3
      <4>2. g \in AllGroups'
        BY <1>10, <3>1, <4>1 DEF AllGroups
      <4> QED  BY <4>2, HoldsItself
    <3> QED  BY <3>2, <3>3
  <2> QED  BY <2>1, <2>2 DEF AllGroups
<1>14. ASSUME NEW i \in DOMAIN edges, LeftRoot(edges[i]) = Min(clusters)
       PROVE  ListsTogether(AllGroups', edges[i])
  <2>1. PICK q \in S, p \in S :
          q # p /\ edges[i].leftRuns \subseteq Listed(q) /\ edges[i].rightRuns \subseteq Listed(p)
    BY <1>3, <1>14, ClusterListsItsPairs
  <2> QED  BY <1>12, <2>1 DEF ListsTogether
<1>15. \A g \in groups' : IsGroup(g)
  BY <1>1 DEF ReportedInv
<1> QED  BY <1>10, <1>11, <1>13, <1>14, <1>15, ClusterIsGrouped

LEMMA GroupClusterStep == ASSUME GroupsInv, GroupCluster PROVE GroupsInv'
<1>1. /\ phase = "group" /\ clusters # {} /\ clusters' = clusters \ {Min(clusters)}
      /\ UNCHANGED <<blocks, before, matches, edges, nodes, root, phase>>
  BY DEF GroupCluster
<1>2. CASE (Cardinality(Members) < 2 \/ IsReported(Members)) /\ UNCHANGED <<reported, groups>>
  <2>1. AllGroups' = AllGroups
    BY <1>2 DEF AllGroups
  <2>2. Absorbs(AllGroups', AllGroups)
    BY <2>1, HoldsItself DEF Absorbs
  <2>3. ReportedInv
    BY DEF GroupsInv
  <2>4. /\ DOMAIN reported' = DOMAIN reported /\ \A g \in groups' : IsGroup(g)
        /\ \A g \in DOMAIN reported' : reported'[g] = <<>> \/ IsGroup(reported'[g])
    BY <1>2, <2>3 DEF ReportedInv
  <2>5. \A i \in DOMAIN edges : LeftRoot(edges[i]) = Min(clusters) =>
          edges[i].leftRuns \cup edges[i].rightRuns \subseteq ListedBy(before)
    BY <1>1, <1>2, ReportedClusterStep
  <2> QED  BY <1>1, <2>2, <2>4, <2>5, ClusterIsGrouped
<1>3. CASE TakenOver(Members) # {} /\ TakeOver(Members, TakenOver(Members)) /\ UNCHANGED groups
  BY <1>1, <1>3, TakeOverStep
<1>4. CASE NewGroup(NewCopies(Members)) /\ UNCHANGED reported
  BY <1>1, <1>4, NewGroupStep
<1> QED  BY <1>2, <1>3, <1>4 DEF GroupCluster, Members, NewCopies, Untouching, Touching

-----------------------------------------------------------------------------
(* The groups hold GroupsInv in every state: the copies that a cluster lists in its blocks *)
(* begin at different tokens, so no two merge, and what a group it takes over listed is    *)
(* part of them (collect_near_miss_groups).                                                *)
THEOREM GroupsInvariant == GroupsSpec => []GroupsInv
<1>1. GroupsInit => GroupsInv
  BY InitGroupsInv
<1>2. GroupsInv /\ [GroupsNext]_groupsVars => GroupsInv'
  <2> SUFFICES ASSUME GroupsInv, [GroupsNext]_groupsVars PROVE GroupsInv'
    OBVIOUS
  <2>1. CASE KeepMatch
    BY <2>1, KeepMatchStep
  <2>2. CASE MakeNodes
    BY <2>2, MakeNodesStep
  <2>3. CASE Join
    BY <2>3, JoinStep
  <2>4. CASE Joined
    BY <2>4, JoinedStep
  <2>5. CASE GroupCluster
    BY <2>5, GroupClusterStep
  <2>6. CASE Finish
    BY <2>6, GroupsUnchangedStep DEF Finish
  <2>7. CASE Grouped \/ UNCHANGED groupsVars
    BY <2>7, GroupsUnchangedStep DEF Grouped, groupsVars
  <2> QED  BY <2>1, <2>2, <2>3, <2>4, <2>5, <2>6, <2>7 DEF GroupsNext
<1> QED  BY <1>1, <1>2, PTL DEF GroupsSpec

(* What was reported stays reported, every group lists two copies, and a kept pair has both *)
(* its sides in one group or was listed already (collect_near_miss_groups).                 *)
THEOREM NothingListedIsEverLost == GroupsSpec => []NothingListedIsLost
<1>1. GroupsInv => NothingListedIsLost
  <2> SUFFICES ASSUME GroupsInv, phase = "done"
               PROVE  /\ ListedBy(before) \subseteq UNION {Listed(o) : o \in UNION AllGroups}
                      /\ \A g \in AllGroups : Cardinality(g) >= 2
                      /\ \A i \in DOMAIN edges : IsSettled(edges[i])
    BY DEF NothingListedIsLost, ReportedContentStays, KeptPairsAreListedTogether, IsSettled, ListsTogether
  <2>1. ReportedInv /\ ClustersInv /\ clusters = {}
    BY DEF GroupsInv
  <2>2. ListedBy(before) \subseteq UNION {Listed(o) : o \in UNION AllGroups}
    BY <2>1 DEF ReportedInv, ListedIn
  <2>3. ASSUME NEW g \in AllGroups PROVE Cardinality(g) >= 2
    <3>1. PICK s : g = ToSet(s) /\ (s = <<>> \/ IsGroup(s)) /\ (s = <<>> => g # {} \/ IsGroup(s))
      BY <2>1 DEF AllGroups, ReportedInv
    <3>2. IsGroup(s)
      BY <3>1 DEF ToSet
    <3> QED  BY <3>1, <3>2, TwoMakeTwo DEF IsGroup
  <2>4. \A i \in DOMAIN edges : IsSettled(edges[i])
    BY <2>1 DEF ClustersInv
  <2> QED  BY <2>2, <2>3, <2>4
<1> QED  BY <1>1, GroupsInvariant, PTL
=============================================================================
