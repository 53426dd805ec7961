----------------------------- MODULE CloneProofs -----------------------------
(***************************************************************************)
(* Proofs about SequenceWindows and CloneGroups.  A window is reached from *)
(* the largest one around it all of whose sub-windows repeat, so nothing   *)
(* that repeats is missing when the frontier is empty.  Whatever is then   *)
(* selected and however groups are merged, every group is made of          *)
(* stretches of one file each, apart from each other, no token is counted  *)
(* twice, and no pair of groups that could merge is passed over.           *)
(***************************************************************************)
EXTENDS SequenceWindows, CloneGroups, ArrangementProofs

TextType == [containers : Seq(Container), multiple : BOOLEAN]

-----------------------------------------------------------------------------
(* The least and the greatest of a set of numbers. *)

LEMMA MaxOfBounded ==
  ASSUME NEW n \in Nat, NEW S, S \subseteq 0..n, S # {}
  PROVE  Max(S) \in S /\ \A x \in S : x <= Max(S)
<1> DEFINE T == {n - x : x \in S}
<1>1. T \subseteq Nat /\ T # {}
  <2>1. \A x \in S : x \in 0..n /\ n - x \in Nat
    OBVIOUS
  <2> QED  BY <2>1
<1>2. Min(T) \in T /\ \A x \in T : Min(T) <= x
  BY <1>1, MinIsLeast
<1>3. PICK m \in S : Min(T) = n - m
  BY <1>2
<1>4. \A x \in S : n - x \in T
  OBVIOUS
<1>5. \A x \in S : m >= x
  <2>1. \A x \in S : n - m <= n - x
    BY <1>2, <1>3, <1>4
  <2>2. \A x \in S : x \in 0..n
    OBVIOUS
  <2> QED  BY <2>1, <2>2
<1> QED  BY <1>5 DEF Max

(* The containers of a text have a longest one: the bounds of the           *)
(* containers up to k exist for the largest k possible, which is the last.  *)
LEMMA LengthsAreBounded ==
  ASSUME NEW cs \in Seq(Container)
  PROVE  \E m \in Nat : \A k \in DOMAIN cs : Len(cs[k].statements) <= m
<1> DEFINE top == Len(cs)
<1>1. top \in Nat /\ DOMAIN cs = 1..top
  OBVIOUS
<1> HIDE DEF top
<1>2. \A k \in DOMAIN cs : Len(cs[k].statements) \in Nat
  <2> TAKE k \in DOMAIN cs
  <2>1. cs[k] \in Container
    OBVIOUS
  <2> QED  BY <2>1 DEF Container
<1> DEFINE Bounded(k) == \E m \in Nat : \A i \in 1..k : Len(cs[i].statements) <= m
           Left == {top - k : k \in {j \in 0..top : Bounded(j)}}
<1>3. Bounded(0)
  <2>1. \A i \in 1..0 : Len(cs[i].statements) <= 0
    OBVIOUS
  <2> QED  BY <2>1
<1>4. Left \subseteq Nat /\ Left # {}
  <2>1. 0 \in {j \in 0..top : Bounded(j)}
    BY <1>1, <1>3
  <2>2. \A k \in 0..top : top - k \in Nat
    BY <1>1
  <2> QED  BY <2>1, <2>2
<1>5. PICK k \in 0..top : Bounded(k) /\ Min(Left) = top - k
  BY <1>4, MinIsLeast
<1>6. k = top
  <2> SUFFICES ASSUME k # top PROVE FALSE
    OBVIOUS
  <2>1. PICK m \in Nat : \A i \in 1..k : Len(cs[i].statements) <= m
    BY <1>5
  <2>2. k + 1 \in DOMAIN cs /\ k + 1 \in 0..top /\ k \in Nat
    <3>1. \A n \in Nat : \A j \in 0..n : j # n => j + 1 \in 1..n /\ j + 1 \in 0..n /\ j \in Nat
      OBVIOUS
    <3> QED  BY <1>1, <3>1
  <2>3. m + Len(cs[k + 1].statements) \in Nat
    BY <1>2, <2>2
  <2>4. \A i \in 1..(k + 1) : Len(cs[i].statements) <= m + Len(cs[k + 1].statements)
    <3> TAKE i \in 1..(k + 1)
    <3>1. Len(cs[i].statements) \in Nat /\ Len(cs[k + 1].statements) \in Nat
      BY <1>1, <1>2, <2>2
    <3>2. i = k + 1 \/ i \in 1..k
      BY <2>2
    <3> QED  BY <2>1, <3>1, <3>2
  <2>5. Bounded(k + 1)
    BY <2>3, <2>4
  <2>6. top - (k + 1) \in Left
    BY <2>2, <2>5
  <2> HIDE DEF Left
  <2>7. top - k <= top - (k + 1)
    BY <1>4, <1>5, <2>6, MinIsLeast
  <2> QED  BY <1>1, <1>5, <2>2, <2>7
<1> QED  BY <1>1, <1>5, <1>6

-----------------------------------------------------------------------------
(* Windows and their statements.                                           *)

(* The enumeration of windows leaves none out. *)
LEMMA WindowsAre ==
  ASSUME NEW cs \in Seq(Container), NEW w
  PROVE  w \in Windows(cs) <=>
           \E k \in DOMAIN cs, s \in Nat, n \in Nat : w = Window(k, s, n) /\ IsWindow(cs, w)
<1>1. Len(cs) \in Nat /\ DOMAIN cs = 1..Len(cs) /\ MaxWindow \in Nat /\ MinTokens \in Nat
  BY TextsAssumption
<1>2. \A k \in DOMAIN cs : Len(cs[k].statements) \in Nat
  <2> TAKE k \in DOMAIN cs
  <2>1. cs[k] \in Container
    OBVIOUS
  <2> QED  BY <2>1 DEF Container
<1> DEFINE sizes == {1} \cup {Len(cs[k].statements) : k \in DOMAIN cs}
           all == {Window(k, s, n) : k \in DOMAIN cs, n \in 2..MaxWindow, s \in 1..Max(sizes)}
<1>3. PICK m \in Nat : \A k \in DOMAIN cs : Len(cs[k].statements) <= m
  BY LengthsAreBounded
<1>4. Max(sizes) \in sizes /\ \A x \in sizes : x <= Max(sizes)
  <2>1. sizes \subseteq 0..(m + 1)
    BY <1>2, <1>3
  <2>2. m + 1 \in Nat /\ sizes # {}
    OBVIOUS
  <2> HIDE DEF sizes
  <2> QED  BY <2>1, <2>2, MaxOfBounded
<1>5. Max(sizes) \in Nat /\ \A k \in DOMAIN cs : Len(cs[k].statements) <= Max(sizes)
  BY <1>2, <1>4
<1>6. Windows(cs) = {v \in all : IsWindow(cs, v)}
  BY DEF Windows
<1> HIDE DEF sizes
<1>7. ASSUME NEW k \in DOMAIN cs, NEW s \in Nat, NEW n \in Nat, IsWindow(cs, Window(k, s, n))
      PROVE  n \in 2..MaxWindow /\ s \in 1..Max(sizes)
  <2>1. Window(k, s, n).container = k /\ Window(k, s, n).start = s /\ Window(k, s, n).length = n
    BY DEF Window
  <2>2. n \in 2..MaxWindow /\ s >= 1 /\ s + n - 1 <= Len(cs[k].statements)
    BY <1>7, <2>1 DEF IsWindow
  <2>3. Len(cs[k].statements) \in Nat /\ Len(cs[k].statements) <= Max(sizes)
    BY <1>2, <1>5
  <2> QED  BY <1>1, <1>5, <2>2, <2>3
<1>8. w \in all <=> \E k \in DOMAIN cs, n \in 2..MaxWindow, s \in 1..Max(sizes) : w = Window(k, s, n)
  OBVIOUS
<1>9. \A n \in 2..MaxWindow, s \in 1..Max(sizes) : n \in Nat /\ s \in Nat
  BY <1>1, <1>5
<1> HIDE DEF all
<1> QED  BY <1>6, <1>7, <1>8, <1>9

(* A window lies within the statements of its container. *)
LEMMA WindowFacts ==
  ASSUME NEW cs \in Seq(Container), NEW w \in Windows(cs)
  PROVE  /\ w.container \in DOMAIN cs /\ w.start \in Nat /\ w.length \in Nat
         /\ w = Window(w.container, w.start, w.length)
         /\ w.length >= 2 /\ w.length <= MaxWindow /\ w.length >= MinTokens
         /\ w.start >= 1 /\ w.start + w.length - 1 <= Len(cs[w.container].statements)
         /\ WindowStatements(cs, w) \in Seq(Statement)
         /\ DOMAIN WindowStatements(cs, w) = 1..w.length
         /\ \A i \in 1..w.length :
              WindowStatements(cs, w)[i] = cs[w.container].statements[w.start + i - 1]
<1>1. PICK k \in DOMAIN cs, s \in Nat, n \in Nat : w = Window(k, s, n) /\ IsWindow(cs, w)
  BY WindowsAre
<1>2. w.container = k /\ w.start = s /\ w.length = n
  BY <1>1 DEF Window
<1>3. /\ n \in 2..MaxWindow /\ n >= MinTokens /\ s >= 1
      /\ s + n - 1 <= Len(cs[k].statements)
  BY <1>1, <1>2 DEF IsWindow
<1>4. cs[k].statements \in Seq(Statement) /\ Len(cs[k].statements) \in Nat
  <2>1. cs[k] \in Container
    OBVIOUS
  <2> QED  BY <2>1 DEF Container
<1>5. n >= 2 /\ n <= MaxWindow
  BY <1>3, TextsAssumption
<1> DEFINE q == cs[k].statements
<1>6. WindowStatements(cs, w) = SubSeq(q, s, s + n - 1)
  BY <1>2 DEF WindowStatements
<1>7. \A i \in s..(s + n - 1) : i \in 1..Len(q) /\ q[i] \in Statement
  BY <1>3, <1>4
<1> HIDE DEF q
<1>8. SubSeq(q, s, s + n - 1) = [i \in 1..n |-> q[s + i - 1]]
  <2>1. (s + n - 1) - s + 1 = n
    OBVIOUS
  <2>2. SubSeq(q, s, s + n - 1) = [i \in 1..(1 + (s + n - 1) - s) |-> q[s + i - 1]]
    OBVIOUS
  <2> QED  BY <2>1, <2>2
<1>9. [i \in 1..n |-> q[s + i - 1]] \in Seq(Statement)
  <2>1. \A i \in 1..n : q[s + i - 1] \in Statement
    BY <1>7
  <2> QED  BY <2>1
<1> QED  BY <1>1, <1>2, <1>3, <1>4, <1>5, <1>6, <1>8, <1>9 DEF q

(* Its sequence of shapes tells a window's length. *)
LEMMA ShapesTellTheLength ==
  ASSUME NEW cs \in Seq(Container), NEW u \in Windows(cs), NEW v \in Windows(cs),
         Shapes(WindowStatements(cs, u)) = Shapes(WindowStatements(cs, v))
  PROVE  u.length = v.length
<1>1. /\ u.length \in Nat /\ v.length \in Nat
      /\ DOMAIN WindowStatements(cs, u) = 1..u.length
      /\ DOMAIN WindowStatements(cs, v) = 1..v.length
  BY WindowFacts
<1>2. DOMAIN Shapes(WindowStatements(cs, u)) = DOMAIN Shapes(WindowStatements(cs, v))
  OBVIOUS
<1>3. 1..u.length = 1..v.length
  BY <1>1, <1>2 DEF Shapes
<1>4. ASSUME NEW a \in Nat, NEW b \in Nat, 1..a = 1..b PROVE a <= b
  <2>1. a = 0 \/ a \in 1..a
    OBVIOUS
  <2> QED  BY <1>4, <2>1
<1>5. u.length <= v.length /\ v.length <= u.length
  BY <1>1, <1>3, <1>4
<1> QED  BY <1>1, <1>5

LEMMA WindowsAreFinite ==
  ASSUME NEW cs \in Seq(Container)
  PROVE  IsFiniteSet(Windows(cs))
<1>1. Len(cs) \in Nat /\ DOMAIN cs = 1..Len(cs)
  OBVIOUS
<1>2. PICK m \in Nat : \A k \in DOMAIN cs : Len(cs[k].statements) <= m
  BY LengthsAreBounded
<1> DEFINE Places == (1..Len(cs)) \X ((0..m) \X (0..MaxWindow))
           place == [w \in Windows(cs) |-> <<w.container, <<w.start, w.length>>>>]
<1>3. IsFiniteSet(Places)
  <2>1. IsFiniteSet(1..Len(cs)) /\ IsFiniteSet(0..m) /\ IsFiniteSet(0..MaxWindow)
    BY <1>1, FS_Interval, TextsAssumption
  <2>2. IsFiniteSet((0..m) \X (0..MaxWindow))
    BY <2>1, FS_Product
  <2> QED  BY <2>1, <2>2, FS_Product
<1>4. \A w \in Windows(cs) : place[w] \in Places
  <2> TAKE w \in Windows(cs)
  <2>1. /\ w.container \in 1..Len(cs) /\ w.start \in Nat /\ w.length \in Nat
        /\ w.length >= 2 /\ w.length <= MaxWindow
        /\ w.start + w.length - 1 <= Len(cs[w.container].statements)
    BY <1>1, WindowFacts
  <2>2. cs[w.container].statements \in Seq(Statement)
    <3>1. cs[w.container] \in Container
      BY <1>1, <2>1
    <3> QED  BY <3>1 DEF Container
  <2>3. Len(cs[w.container].statements) \in Nat /\ Len(cs[w.container].statements) <= m
    BY <1>1, <1>2, <2>1, <2>2
  <2>4. w.start \in 0..m /\ w.length \in 0..MaxWindow
    BY <2>1, <2>3, TextsAssumption
  <2> QED  BY <2>1, <2>4
<1>5. ASSUME NEW u \in Windows(cs), NEW v \in Windows(cs), place[u] = place[v]
      PROVE  u = v
  <2>1. u.container = v.container /\ u.start = v.start /\ u.length = v.length
    BY <1>5
  <2>2. u = Window(u.container, u.start, u.length) /\ v = Window(v.container, v.start, v.length)
    BY WindowFacts
  <2> QED  BY <2>1, <2>2
<1>6. place \in [Windows(cs) -> Places]
  BY <1>4
<1>7. \A u, v \in Windows(cs) : place[u] = place[v] => u = v
  BY <1>5
<1> HIDE DEF Places, place
<1>8. place \in Injection(Windows(cs), Places)
  BY <1>6, <1>7 DEF Injection, IsInjective
<1> QED  BY <1>3, <1>8, FS_Injection

-----------------------------------------------------------------------------
(* The windows that repeat.  repeats decides by counts and by the first    *)
(* and the last occurrence, which comes to a pair that can coexist.        *)

LEMMA RepeatedAre ==
  ASSUME NEW cs \in Seq(Container), NEW multiple \in BOOLEAN, NEW w
  PROVE  w \in RepeatedWindows(cs, multiple) <=>
           /\ w \in Windows(cs)
           /\ Repeats(cs, multiple,
                      {v \in Windows(cs) : Shapes(WindowStatements(cs, v)) = Shapes(WindowStatements(cs, w))},
                      w.length)
<1> DEFINE key(v) == Shapes(WindowStatements(cs, v))
           keyed == {[window |-> v, key |-> key(v)] : v \in Windows(cs)}
           occurrences(k) == {x.window : x \in {y \in keyed : y.key = k}}
<1>1. RepeatedWindows(cs, multiple) =
        {x.window : x \in {y \in keyed : Repeats(cs, multiple, occurrences(y.key), y.window.length)}}
  BY DEF RepeatedWindows
<1>2. ASSUME NEW v \in Windows(cs)
      PROVE  /\ [window |-> v, key |-> key(v)] \in keyed
             /\ [window |-> v, key |-> key(v)].window = v
             /\ [window |-> v, key |-> key(v)].key = key(v)
  OBVIOUS
<1>3. ASSUME NEW y \in keyed
      PROVE  y.window \in Windows(cs) /\ y.key = key(y.window)
  <2>1. PICK v \in Windows(cs) : y = [window |-> v, key |-> key(v)]
    OBVIOUS
  <2> QED  BY <2>1
<1> HIDE DEF key, keyed
<1>4. ASSUME NEW k PROVE occurrences(k) = {v \in Windows(cs) : key(v) = k}
  <2>1. \A v \in occurrences(k) : v \in Windows(cs) /\ key(v) = k
    BY <1>3
  <2>2. ASSUME NEW v \in Windows(cs), key(v) = k PROVE v \in occurrences(k)
    <3>1. PICK y \in keyed : y.window = v /\ y.key = k
      BY <1>2, <2>2
    <3> QED  BY <3>1
  <2> HIDE DEF occurrences
  <2> QED  BY <2>1, <2>2
<1> HIDE DEF occurrences
<1>5. w \in RepeatedWindows(cs, multiple) <=>
        \E y \in keyed : y.window = w /\ Repeats(cs, multiple, occurrences(y.key), y.window.length)
  BY <1>1
<1>6. (\E y \in keyed : y.window = w /\ Repeats(cs, multiple, occurrences(y.key), y.window.length))
        <=> (w \in Windows(cs) /\ Repeats(cs, multiple, occurrences(key(w)), w.length))
  <2>1. ASSUME NEW y \in keyed, y.window = w
        PROVE  w \in Windows(cs) /\ y.key = key(w)
    BY <1>3, <2>1
  <2>2. w \in Windows(cs) => \E y \in keyed : y.window = w /\ y.key = key(w)
    BY <1>2
  <2> QED  BY <2>1, <2>2
<1> QED  BY <1>4, <1>5, <1>6 DEF key

(* Two occurrences of w that coexist make it repeat, and it takes two. *)
LEMMA RepeatedWindowsCoexist ==
  ASSUME text \in TextType, NEW w \in Windows(text.containers)
  PROVE  w \in RepeatedWindows(text.containers, text.multiple) <=>
           \E u, v \in Windows(text.containers) :
              /\ Coexist(u, v)
              /\ Shapes(WindowStatements(text.containers, u)) = Shapes(WindowStatements(text.containers, w))
<1> DEFINE cs == text.containers
           key(v) == Shapes(WindowStatements(cs, v))
           same == {v \in Windows(cs) : key(v) = key(w)}
           starts == {v.start : v \in same}
<1>1. cs \in Seq(Container) /\ text.multiple \in BOOLEAN
  BY DEF TextType
<1>2. \A v \in same : v.length = w.length
  BY <1>1, ShapesTellTheLength
<1>3. w.length \in Nat /\ w.length >= 2
  BY <1>1, WindowFacts
<1>4. PICK m \in Nat : \A k \in DOMAIN cs : Len(cs[k].statements) <= m
  BY <1>1, LengthsAreBounded
<1>5. w \in same /\ same \subseteq Windows(cs)
  OBVIOUS
<1>6. starts \subseteq 0..m
  <2> SUFFICES ASSUME NEW v \in same PROVE v.start \in 0..m
    OBVIOUS
  <2>1. /\ v.container \in DOMAIN cs /\ v.start \in Nat /\ v.length \in Nat /\ v.length >= 2
        /\ v.start + v.length - 1 <= Len(cs[v.container].statements)
    BY <1>1, WindowFacts
  <2>2. Len(cs[v.container].statements) \in Nat
    <3>1. cs[v.container] \in Container
      BY <1>1, <2>1
    <3> QED  BY <3>1 DEF Container
  <2> QED  BY <1>4, <2>1, <2>2
<1>7. /\ Max(starts) \in starts /\ \A x \in starts : x <= Max(starts)
      /\ Min(starts) \in starts /\ \A x \in starts : Min(starts) <= x
  <2>1. starts # {} /\ starts \subseteq Nat
    BY <1>5, <1>6
  <2> HIDE DEF starts
  <2> QED  BY <1>6, <2>1, MaxOfBounded, MinIsLeast
<1>8. w \in RepeatedWindows(cs, text.multiple) <=> Repeats(cs, text.multiple, same, w.length)
  BY <1>1, RepeatedAre
<1>9. Repeats(cs, text.multiple, same, w.length) <=>
        /\ Cardinality(same) >= 2
        /\ IF text.multiple
           THEN \E u, v \in same : cs[u.container].file # cs[v.container].file
           ELSE \/ \E u, v \in same : u.container # v.container
                \/ Max(starts) - Min(starts) >= w.length
  BY DEF Repeats
<1> DEFINE apart(u, v) == IF text.multiple
                          THEN cs[u.container].file # cs[v.container].file
                          ELSE u.container # v.container \/ u.start + u.length <= v.start
<1>10. \A u, v \in same : Coexist(u, v) <=> apart(u, v)
  BY DEF Coexist
<1>11. \A u \in same : u.start \in Nat /\ u.length \in Nat /\ u.start \in starts
  BY <1>1, WindowFacts
<1> HIDE DEF same, starts
<1>12. ASSUME Repeats(cs, text.multiple, same, w.length)
       PROVE  \E u, v \in same : apart(u, v)
  <2>1. CASE text.multiple
    BY <1>9, <1>12, <2>1
  <2>2. CASE ~text.multiple /\ \E u, v \in same : u.container # v.container
    BY <2>2
  <2>3. CASE ~text.multiple /\ Max(starts) - Min(starts) >= w.length
    <3>1. PICK u \in same, v \in same : u.start = Min(starts) /\ v.start = Max(starts)
      BY <1>7 DEF starts
    <3>2. u.start + u.length <= v.start
      BY <1>2, <1>3, <1>11, <2>3, <3>1
    <3> QED  BY <2>3, <3>2
  <2> QED  BY <1>1, <1>9, <1>12, <2>1, <2>2, <2>3
<1>13. ASSUME NEW u \in same, NEW v \in same, apart(u, v)
       PROVE  Repeats(cs, text.multiple, same, w.length)
  <2>1. u # v
    BY <1>2, <1>3, <1>11, <1>13
  <2>2. Cardinality(same) >= 2
    <3>1. IsFiniteSet(same)
      BY <1>1, <1>5, WindowsAreFinite, FS_Subset
    <3>2. IsFiniteSet({u}) /\ Cardinality({u}) = 1
      BY FS_Singleton
    <3>3. IsFiniteSet({u} \cup {v}) /\ Cardinality({u} \cup {v}) = 2
      <4> DEFINE U == {u}
      <4>1. v \notin U /\ IsFiniteSet(U) /\ Cardinality(U) = 1
        BY <2>1, <3>2
      <4> HIDE DEF U
      <4>2. IsFiniteSet(U \cup {v}) /\ Cardinality(U \cup {v}) = Cardinality(U) + 1
        BY <4>1, FS_AddElement
      <4>3. IsFiniteSet(U \cup {v}) /\ Cardinality(U \cup {v}) = 2
        BY <4>1, <4>2
      <4> QED  BY <4>3 DEF U
    <3>4. Cardinality({u} \cup {v}) <= Cardinality(same)
      BY <3>1, FS_Subset
    <3>5. Cardinality(same) \in Nat
      BY <3>1, FS_CardinalityType
    <3> QED  BY <3>3, <3>4, <3>5
  <2>3. CASE text.multiple
    BY <1>9, <1>13, <2>2, <2>3
  <2>4. CASE ~text.multiple /\ u.container # v.container
    BY <1>9, <2>2, <2>4
  <2>5. CASE ~text.multiple /\ u.start + u.length <= v.start
    <3>1. /\ u.start \in starts /\ v.start \in starts /\ u.start \in Nat /\ v.start \in Nat
          /\ u.length = w.length
      BY <1>2, <1>11
    <3>2. Max(starts) \in Nat /\ Min(starts) \in Nat
      <4>1. \A x \in 0..m : x \in Nat
        OBVIOUS
      <4> QED  BY <1>6, <1>7, <4>1
    <3>3. Min(starts) <= u.start /\ v.start <= Max(starts)
      BY <1>7, <3>1
    <3>4. Max(starts) - Min(starts) >= w.length
      BY <1>3, <2>5, <3>1, <3>2, <3>3
    <3> QED  BY <1>9, <2>2, <2>5, <3>4
  <2> QED  BY <1>1, <1>13, <2>3, <2>4, <2>5
<1>14. ASSUME NEW u \in Windows(cs), NEW v \in Windows(cs), Coexist(u, v), key(u) = key(w)
       PROVE  u \in same /\ v \in same
  BY <1>14 DEF Coexist, same
<1>15. \A u \in same : u \in Windows(cs) /\ key(u) = key(w)
  BY DEF same
<1> HIDE DEF apart
<1> QED  BY <1>8, <1>10, <1>12, <1>13, <1>14, <1>15

-----------------------------------------------------------------------------
(* A window of distinct statements keeps them when it grows. *)

LEMMA ExtensionsQualify ==
  ASSUME text \in TextType, repeated = RepeatedWindows(text.containers, text.multiple),
         NEW w, Qualifies(w), NEW e \in Extended(w) \cap repeated
  PROVE  Qualifies(e) /\ w \in SubWindows(e) /\ e.length = w.length + 1
<1> DEFINE cs == text.containers
           shapes(v) == {s.shape : s \in {WindowStatements(cs, v)[i] : i \in 1..v.length}}
<1>1. cs \in Seq(Container) /\ text.multiple \in BOOLEAN
  BY DEF TextType
<1>2. w \in Windows(cs) /\ e \in Windows(cs) /\ HasDistinctStatements(cs, w)
  BY <1>1, RepeatedAre DEF Qualifies
<1>3. /\ w.start \in Nat /\ w.length \in Nat /\ w = Window(w.container, w.start, w.length)
      /\ e.start \in Nat /\ e.length \in Nat
      /\ DOMAIN WindowStatements(cs, e) = 1..e.length
      /\ \A i \in 1..w.length :
           WindowStatements(cs, w)[i] = cs[w.container].statements[w.start + i - 1]
      /\ \A i \in 1..e.length :
           WindowStatements(cs, e)[i] = cs[e.container].statements[e.start + i - 1]
  BY <1>1, <1>2, WindowFacts
<1>4. PICK d \in {0, 1} : e = Window(w.container, w.start - d, w.length + 1)
  <2>1. w.start - 0 = w.start
    BY <1>3
  <2> QED  BY <2>1 DEF Extended
<1>5. e.container = w.container /\ e.start = w.start - d /\ e.length = w.length + 1
  BY <1>4 DEF Window
<1>6. w \in SubWindows(e)
  <2>1. e.length - 1 = w.length /\ (d = 0 => e.start = w.start) /\ (d = 1 => e.start + 1 = w.start)
    BY <1>3, <1>5
  <2> QED  BY <1>3, <1>4, <1>5, <2>1 DEF SubWindows
<1>7. \A i \in 1..w.length :
        i + d \in 1..e.length /\ WindowStatements(cs, e)[i + d] = WindowStatements(cs, w)[i]
  <2> TAKE i \in 1..w.length
  <2>1. i + d \in 1..e.length /\ e.start + (i + d) - 1 = w.start + i - 1
    <3> DEFINE n == w.length
               s == w.start
    <3>1. n \in Nat /\ s \in Nat /\ e.length = n + 1 /\ e.start = s - d
      BY <1>3, <1>5
    <3>2. i \in 1..n /\ (d = 0 \/ d = 1)
      OBVIOUS
    <3> HIDE DEF n, s
    <3>3. i + d \in 1..(n + 1) /\ (s - d) + (i + d) - 1 = s + i - 1
      BY <3>1, <3>2
    <3> QED  BY <3>1, <3>3 DEF s
  <2> QED  BY <1>3, <1>5, <2>1
<1>8. shapes(w) \subseteq shapes(e)
  <2> SUFFICES ASSUME NEW x \in shapes(w) PROVE x \in shapes(e)
    OBVIOUS
  <2>1. PICK i \in 1..w.length : x = WindowStatements(cs, w)[i].shape
    OBVIOUS
  <2>2. i + d \in 1..e.length /\ x = WindowStatements(cs, e)[i + d].shape
    BY <1>7, <2>1
  <2> QED  BY <2>2
<1>9. IsFiniteSet(shapes(e))
  <2> DEFINE n == e.length
             f == [i \in 1..n |-> WindowStatements(cs, e)[i].shape]
  <2>1. f \in [1..n -> shapes(e)] /\ \A x \in shapes(e) : \E i \in 1..n : f[i] = x
    OBVIOUS
  <2>2. f \in Surjection(1..n, shapes(e))
    BY <2>1 DEF Surjection
  <2>3. IsFiniteSet(1..n)
    <3>1. n \in Int
      BY <1>3
    <3> HIDE DEF n
    <3> QED  BY <3>1, FS_Interval
  <2> QED  BY <2>2, <2>3, FS_Surjection
<1>10. Cardinality(shapes(w)) >= 2
  BY <1>2 DEF HasDistinctStatements
<1> HIDE DEF shapes
<1>11. /\ Cardinality(shapes(w)) \in Nat /\ Cardinality(shapes(e)) \in Nat
       /\ Cardinality(shapes(w)) <= Cardinality(shapes(e))
  BY <1>8, <1>9, FS_Subset, FS_CardinalityType
<1>12. Cardinality(shapes(e)) >= 2
  BY <1>10, <1>11
<1>13. HasDistinctStatements(cs, e)
  BY <1>12 DEF HasDistinctStatements, shapes
<1> QED  BY <1>5, <1>6, <1>13 DEF Qualifies

-----------------------------------------------------------------------------
(* visited is what was emitted and what is about to be; it begins with the  *)
(* windows nothing larger covers, and whatever was emitted has exposed its  *)
(* sub-windows.                                                            *)
SeedsAreVisited == \A w \in repeated : (Qualifies(w) /\ ~Dominated(w)) => w \in visited

SubWindowsAreVisited ==
  \A w \in emitted : \A v \in SubWindows(w) : Qualifies(v) => v \in visited

WindowInv ==
  /\ text \in TextType
  /\ repeated = RepeatedWindows(text.containers, text.multiple)
  /\ visited = emitted \cup frontier
  /\ EmittedOnce
  /\ \A w \in visited : Qualifies(w)
  /\ SeedsAreVisited
  /\ SubWindowsAreVisited

LEMMA WindowInvHolds == WindowSpec => []WindowInv
<1>1. WindowInit => WindowInv
  <2> SUFFICES ASSUME WindowInit PROVE WindowInv
    OBVIOUS
  <2>1. text \in TextType
    BY TextsAssumption DEF WindowInit, TextType
  <2>2. /\ repeated = RepeatedWindows(text.containers, text.multiple)
        /\ frontier = {w \in repeated : Qualifies(w) /\ ~Dominated(w)}
        /\ visited = frontier /\ emitted = {}
    BY DEF WindowInit
  <2>3. visited = emitted \cup frontier /\ EmittedOnce /\ SubWindowsAreVisited
    BY <2>2 DEF EmittedOnce, SubWindowsAreVisited
  <2>4. SeedsAreVisited /\ \A w \in visited : Qualifies(w)
    BY <2>2 DEF SeedsAreVisited
  <2> QED  BY <2>1, <2>2, <2>3, <2>4 DEF WindowInv
<1>2. WindowInv /\ [WindowNext]_windowVars => WindowInv'
  <2> SUFFICES ASSUME WindowInv, [WindowNext]_windowVars PROVE WindowInv'
    OBVIOUS
  <2>1. CASE UNCHANGED windowVars
    BY <2>1 DEF windowVars, WindowInv, EmittedOnce, Qualifies, Dominated, SeedsAreVisited,
                SubWindowsAreVisited
  <2>2. CASE EmitFrontier
    <3>1. /\ emitted' = emitted \cup frontier
          /\ frontier' = {v \in UNION {SubWindows(w) : w \in frontier} : v \notin visited /\ Qualifies(v)}
          /\ visited' = visited \cup frontier'
          /\ text' = text /\ repeated' = repeated
      BY <2>2 DEF EmitFrontier
    <3>2. /\ text \in TextType /\ visited = emitted \cup frontier
          /\ repeated = RepeatedWindows(text.containers, text.multiple)
          /\ \A w \in visited : Qualifies(w)
          /\ SeedsAreVisited /\ SubWindowsAreVisited
      BY DEF WindowInv
    <3>3. \A w : (Qualifies(w)' <=> Qualifies(w)) /\ (Dominated(w)' <=> Dominated(w))
      BY <3>1 DEF Qualifies, Dominated
    <3>4. frontier' \cap visited = {} /\ \A v \in frontier' : Qualifies(v)
      BY <3>1
    <3>5. EmittedOnce' /\ visited' = emitted' \cup frontier'
      BY <3>1, <3>2, <3>4 DEF EmittedOnce
    <3>6. (\A w \in visited : Qualifies(w))'
      BY <3>1, <3>2, <3>3, <3>4
    <3>7. SeedsAreVisited'
      BY <3>1, <3>2, <3>3 DEF SeedsAreVisited
    <3>8. SubWindowsAreVisited'
      <4> SUFFICES ASSUME NEW w \in emitted', NEW v \in SubWindows(w), Qualifies(v)
                   PROVE  v \in visited'
        BY <3>3 DEF SubWindowsAreVisited
      <4>1. CASE w \in emitted
        BY <3>1, <3>2, <4>1 DEF SubWindowsAreVisited
      <4>2. CASE w \in frontier
        <5>1. v \in UNION {SubWindows(x) : x \in frontier}
          BY <4>2
        <5> QED  BY <3>1, <5>1
      <4> QED  BY <3>1, <4>1, <4>2
    <3> QED  BY <3>1, <3>2, <3>5, <3>6, <3>7, <3>8 DEF WindowInv
  <2> QED  BY <2>1, <2>2 DEF WindowNext
<1> QED  BY <1>1, <1>2, PTL DEF WindowSpec

-----------------------------------------------------------------------------
(* The worklist of collectSequenceWindowCandidates emits no window twice,   *)
(* by whichever path it was reached.                                       *)
THEOREM WindowsAreEmittedOnce == WindowSpec => []EmittedOnce
<1>1. WindowInv => EmittedOnce
  BY DEF WindowInv
<1> QED  BY <1>1, WindowInvHolds, PTL

(* Of the windows that qualify and were not emitted, a longest one would be *)
(* covered by one that qualifies as well; that one was emitted, and exposed *)
(* it.                                                                     *)
LEMMA AllAreEmitted ==
  ASSUME WindowInv, frontier = {}
  PROVE  \A w : Qualifies(w) => w \in emitted
<1> DEFINE cs == text.containers
           missing == {w \in repeated : Qualifies(w) /\ w \notin emitted}
           left == {MaxWindow - w.length : w \in missing}
<1>1. /\ cs \in Seq(Container) /\ text.multiple \in BOOLEAN
      /\ repeated = RepeatedWindows(cs, text.multiple) /\ visited = emitted
      /\ text \in TextType
  BY DEF WindowInv, TextType
<1>2. \A w \in repeated : w.length \in Nat /\ w.length <= MaxWindow
  <2> TAKE w \in repeated
  <2>1. w \in Windows(cs)
    BY <1>1, RepeatedAre
  <2> QED  BY <1>1, <2>1, WindowFacts
<1>3. missing = {}
  <2> SUFFICES ASSUME missing # {} PROVE FALSE
    OBVIOUS
  <2>1. left \subseteq Nat /\ left # {}
    BY <1>2, TextsAssumption
  <2>2. Min(left) \in left /\ \A x \in left : Min(left) <= x
    BY <2>1, MinIsLeast
  <2>3. PICK w \in missing : Min(left) = MaxWindow - w.length
    BY <2>2
  <2>4. w \in repeated /\ Qualifies(w) /\ w \notin emitted
    BY <2>3
  <2>5. Dominated(w)
    BY <1>1, <2>4 DEF WindowInv, SeedsAreVisited
  <2>6. PICK e \in Extended(w) \cap repeated : TRUE
    BY <2>5 DEF Dominated
  <2>7. Qualifies(e) /\ w \in SubWindows(e) /\ e.length = w.length + 1
    BY <1>1, <2>4, <2>6, ExtensionsQualify
  <2>8. e \notin emitted
    BY <1>1, <2>4, <2>7 DEF WindowInv, SubWindowsAreVisited
  <2>9. MaxWindow - e.length \in left
    BY <2>6, <2>7, <2>8
  <2>10. /\ e.length \in Nat /\ e.length <= MaxWindow /\ w.length \in Nat
         /\ MaxWindow - w.length <= MaxWindow - e.length
    BY <1>2, <2>2, <2>3, <2>4, <2>6, <2>9
  <2> QED  BY <2>7, <2>10, TextsAssumption
<1> QED  BY <1>3 DEF Qualifies

(* When the worklist of collectSequenceWindowCandidates is empty it has     *)
(* emitted the windows that occur twice in a way both can be reported and   *)
(* no others, for every text, every shortest and every longest window:      *)
(* neither its start from the uncovered windows, nor the pruning of         *)
(* visited ones, nor the test by first and last occurrence loses one.       *)
THEOREM WorklistEmitsTheRepeatedWindows == WindowSpec => []EmitsTheRepeatedWindows
<1>1. WindowInv => EmitsTheRepeatedWindows
  <2> SUFFICES ASSUME WindowInv, frontier = {}
               PROVE  emitted =
                        {w \in Windows(text.containers) :
                           /\ HasDistinctStatements(text.containers, w)
                           /\ \E u, v \in Windows(text.containers) :
                                /\ Coexist(u, v)
                                /\ Shapes(WindowStatements(text.containers, u)) =
                                     Shapes(WindowStatements(text.containers, w))}
    BY DEF EmitsTheRepeatedWindows
  <2> DEFINE coexists(w) ==
        \E u, v \in Windows(text.containers) :
           /\ Coexist(u, v)
           /\ Shapes(WindowStatements(text.containers, u)) = Shapes(WindowStatements(text.containers, w))
  <2>1. /\ text \in TextType /\ text.containers \in Seq(Container) /\ text.multiple \in BOOLEAN
        /\ repeated = RepeatedWindows(text.containers, text.multiple)
    BY DEF WindowInv, TextType
  <2>2. \A w : w \in emitted <=> Qualifies(w)
    BY AllAreEmitted DEF WindowInv
  <2>3. \A w \in repeated : w \in Windows(text.containers)
    BY <2>1, RepeatedAre
  <2>4. \A w \in Windows(text.containers) : w \in repeated <=> coexists(w)
    BY <2>1, RepeatedWindowsCoexist
  <2>5. \A w : Qualifies(w) <=> /\ w \in Windows(text.containers)
                                /\ HasDistinctStatements(text.containers, w)
                                /\ coexists(w)
    BY <2>3, <2>4 DEF Qualifies
  <2> HIDE DEF coexists
  <2>6. emitted = {w \in Windows(text.containers) : HasDistinctStatements(text.containers, w) /\ coexists(w)}
    BY <2>2, <2>5
  <2> QED  BY <2>6 DEF coexists
<1> QED  BY <1>1, WindowInvHolds, PTL

-----------------------------------------------------------------------------
(* The selection of duplicate groups. *)

(* While a pass runs, what is left over is not reported as nested; after it *)
(* nested copies belong to groups with a standalone copy.                  *)
PlacesAreApart ==
  /\ step \in {"first", "second"} => leftOver \cap nested = {}
  /\ step = "judge" => TextsOf(nested) \subseteq TextsOf(kept)

IInv ==
  /\ TypeOK
  /\ PlacesAreApart
  /\ KeptRegionsAreDisjoint
  /\ NestedCopiesAreCovered
  /\ NothingFreeIsLeftOver
  /\ ContainedCopiesAreReported
  /\ SelectedGroupsSurvive

-----------------------------------------------------------------------------
(* Containment is transitive. *)
LEMMA InsideTransitive ==
  ASSUME NEW c, NEW d, NEW e, IsCandidate(c), IsCandidate(d), IsCandidate(e),
         Inside(c, d), Inside(d, e)
  PROVE  Inside(c, e)
BY DEF IsCandidate, Inside

(* What overlaps a region overlaps all that encloses it. *)
LEMMA OverlapOfEnclosing ==
  ASSUME NEW c, NEW d, NEW e, IsCandidate(c), IsCandidate(d), IsCandidate(e),
         Overlap(c, d), Inside(d, e)
  PROVE  Overlap(c, e)
BY DEF IsCandidate, Inside, Overlap

LEMMA OverlapSymmetric ==
  ASSUME NEW c, NEW d, Overlap(c, d)
  PROVE  Overlap(d, c)
BY DEF Overlap

(* What the property of selected groups depends on. *)
LEMMA ReportedUnchanged ==
  ASSUME UNCHANGED <<rule, kept, nested>>
  PROVE  /\ TextsOf(kept \cup nested)' = TextsOf(kept \cup nested)
         /\ TextsOf(kept)' = TextsOf(kept)
         /\ \A t : Survives(rule, Reported(t))' <=> Survives(rule, Reported(t))
<1>1. TextsOf(kept \cup nested)' = TextsOf(kept \cup nested) /\ TextsOf(kept)' = TextsOf(kept)
  BY DEF TextsOf
<1>2. ASSUME NEW t PROVE Survives(rule, Reported(t))' <=> Survives(rule, Reported(t))
  <2>1. Copies(kept' \cup nested', t) = Copies(kept \cup nested, t)
    OBVIOUS
  <2> QED
    BY <2>1 DEF Reported, Survives
<1> QED
  BY <1>1, <1>2

LEMMA InitIInv == Init => IInv
<1> SUFFICES ASSUME NEW in \in Inputs, Called(in)
             PROVE  IInv
  BY DEF Init
<1>1. duplicates \subseteq in.candidates
  BY DEF Called, Surviving, Deduped
<1>2. \A c \in duplicates : IsCandidate(c)
  BY <1>1, SelectionAssumption
<1>3. /\ step = "first" /\ rule \in {"files", "copies"} /\ rerun = 0
      /\ rest = duplicates
      /\ leftOver = {} /\ kept = {} /\ nested = {}
  BY SelectionAssumption DEF Called
<1>4. TypeOK
  BY <1>2, <1>3 DEF TypeOK, Steps
<1>5. PlacesAreApart
  BY <1>3 DEF PlacesAreApart
<1> QED
  BY <1>3, <1>4, <1>5
     DEF IInv, KeptRegionsAreDisjoint, NestedCopiesAreCovered, NothingFreeIsLeftOver,
         ContainedCopiesAreReported, SelectedGroupsSurvive

-----------------------------------------------------------------------------
(* A visited candidate that is nested. *)
LEMMA NestStep ==
  ASSUME IInv, NEW c \in rest, step \in {"first", "second"}, Nest(c), Visited(c)
  PROVE  IInv'
<1>1. /\ nested' = nested \cup {c} /\ rest' = rest \ {c}
      /\ \E k \in kept : Inside(c, k)
      /\ UNCHANGED <<step, rule, duplicates, rerun, leftOver, kept>>
  BY DEF Nest, Visited, LiesInKept
<1>2. TypeOK'
  BY <1>1 DEF IInv, TypeOK
<1>3. PlacesAreApart'
  BY <1>1 DEF IInv, TypeOK, PlacesAreApart
<1>4. NestedCopiesAreCovered'
  BY <1>1 DEF IInv, NestedCopiesAreCovered, LiesInKept
<1>5. KeptRegionsAreDisjoint' /\ NothingFreeIsLeftOver'
  BY <1>1 DEF IInv, KeptRegionsAreDisjoint, NothingFreeIsLeftOver
<1> QED
  BY <1>1, <1>2, <1>3, <1>4, <1>5 DEF IInv, ContainedCopiesAreReported, SelectedGroupsSurvive

(* A visited candidate that overlaps a kept region and is left over. *)
LEMMA LeaveOverStep ==
  ASSUME IInv, NEW c \in rest, step \in {"first", "second"}, NEW pairs, LeaveOver(c, pairs), Visited(c),
         \E k \in kept : Overlap(c, k)
  PROVE  IInv'
<1>1. /\ leftOver' = leftOver \cup {c} /\ rest' = rest \ {c}
      /\ UNCHANGED <<step, rule, duplicates, rerun, nested, kept>>
  BY DEF LeaveOver, Visited
<1>2. TypeOK'
  BY <1>1 DEF IInv, TypeOK
<1>3. PlacesAreApart'
  BY <1>1 DEF IInv, TypeOK, PlacesAreApart
<1>4. NestedCopiesAreCovered' /\ KeptRegionsAreDisjoint'
  BY <1>1 DEF IInv, NestedCopiesAreCovered, LiesInKept, KeptRegionsAreDisjoint
<1>5. NothingFreeIsLeftOver'
  BY <1>1 DEF IInv, NothingFreeIsLeftOver
<1> QED
  BY <1>1, <1>2, <1>3, <1>4, <1>5 DEF IInv, ContainedCopiesAreReported, SelectedGroupsSurvive

(* A visited candidate that takes the place of the kept regions it encloses. *)
LEMMA EncloseStep ==
  ASSUME IInv, NEW c \in rest, step \in {"first", "second"}, Enclose(c), Visited(c),
         leftOver' = leftOver, ~LiesInKept(c), \A k \in kept : ~Straddle(c, k)
  PROVE  IInv'
<1> DEFINE enclosed == {k \in kept : Inside(k, c)}
<1>1. /\ kept' = (kept \ enclosed) \cup {c} /\ nested' = nested \cup enclosed
      /\ rest' = rest \ {c}
      /\ UNCHANGED <<step, rule, duplicates, rerun, leftOver>>
  BY DEF Enclose, Visited
<1>2. \A d \in duplicates : IsCandidate(d)
  BY DEF IInv, TypeOK
<1>3. c \in duplicates /\ kept \subseteq duplicates /\ nested \subseteq duplicates /\ leftOver \subseteq duplicates
  BY DEF IInv, TypeOK
<1>4. \A k \in kept \ enclosed : ~Overlap(c, k) /\ ~Overlap(k, c)
  BY OverlapSymmetric DEF Straddle, LiesInKept
<1>5. TypeOK'
  <2> HIDE DEF enclosed
  <2>1. enclosed \subseteq kept
    BY DEF enclosed
  <2> QED
    BY <1>1, <2>1 DEF IInv, TypeOK
<1>6. PlacesAreApart'
  <2>1. leftOver' \cap nested' = {}
    BY <1>1 DEF IInv, TypeOK, PlacesAreApart
  <2> QED
    BY <1>1, <2>1 DEF PlacesAreApart
<1>7. KeptRegionsAreDisjoint'
  BY <1>1, <1>4 DEF IInv, KeptRegionsAreDisjoint
<1>8. NestedCopiesAreCovered'
  <2> SUFFICES ASSUME NEW n \in nested'
               PROVE  \E k \in kept' : Inside(n, k)
    BY DEF NestedCopiesAreCovered, LiesInKept
  <2>1. CASE n \in enclosed
    BY <1>1, <2>1
  <2>2. CASE n \in nested
    <3>1. PICK k \in kept : Inside(n, k)
      BY <2>2 DEF IInv, NestedCopiesAreCovered, LiesInKept
    <3>2. CASE k \in enclosed
      <4>1. Inside(k, c) /\ IsCandidate(n) /\ IsCandidate(k) /\ IsCandidate(c)
        BY <1>2, <1>3, <2>2, <3>2
      <4>2. Inside(n, c)
        BY <3>1, <4>1, InsideTransitive
      <4> QED
        BY <1>1, <4>2
    <3>3. CASE k \notin enclosed
      BY <1>1, <3>1, <3>3
    <3> QED
      BY <3>2, <3>3
  <2> QED
    BY <1>1, <2>1, <2>2
<1>9. NothingFreeIsLeftOver'
  <2> SUFFICES ASSUME NEW l \in leftOver
               PROVE  \E k \in kept' : Overlap(l, k)
    BY <1>1 DEF NothingFreeIsLeftOver
  <2>1. PICK k \in kept : Overlap(l, k)
    BY DEF IInv, NothingFreeIsLeftOver
  <2>2. CASE k \in enclosed
    <3>1. Inside(k, c) /\ IsCandidate(l) /\ IsCandidate(k) /\ IsCandidate(c)
      BY <1>2, <1>3, <2>2
    <3>2. Overlap(l, c)
      BY <2>1, <3>1, OverlapOfEnclosing
    <3> QED
      BY <1>1, <3>2
  <2>3. CASE k \notin enclosed
    BY <1>1, <2>1, <2>3
  <2> QED
    BY <2>2, <2>3
<1> QED
  BY <1>1, <1>5, <1>6, <1>7, <1>8, <1>9 DEF IInv, ContainedCopiesAreReported, SelectedGroupsSurvive

-----------------------------------------------------------------------------
LEMMA VisitFirstStep == ASSUME IInv, NEW c \in rest, VisitFirst(c) PROVE IInv'
<1>1. step = "first" /\ Visited(c)
  BY DEF VisitFirst
<1>2. CASE Nest(c)
  BY <1>1, <1>2, NestStep
<1>3. CASE (\E k \in kept : Overlap(c, k)) /\ LeaveOver(c, {})
  BY <1>1, <1>3, LeaveOverStep
<1>4. CASE /\ ~\E k \in kept : Overlap(c, k)
           /\ kept' = kept \cup {c}
           /\ UNCHANGED <<leftOver, nested>>
  <2>1. rest' = rest \ {c} /\ UNCHANGED <<step, rule, duplicates, rerun>>
    BY <1>1 DEF Visited
  <2>2. \A k \in kept : ~Overlap(c, k) /\ ~Overlap(k, c)
    BY <1>4, OverlapSymmetric
  <2>3. TypeOK'
    BY <1>4, <2>1 DEF IInv, TypeOK
  <2>4. PlacesAreApart'
    BY <1>1, <1>4, <2>1 DEF IInv, PlacesAreApart
  <2>5. KeptRegionsAreDisjoint'
    BY <1>4, <2>2 DEF IInv, KeptRegionsAreDisjoint
  <2>6. NestedCopiesAreCovered' /\ NothingFreeIsLeftOver'
    BY <1>1, <1>4, <2>1 DEF IInv, NestedCopiesAreCovered, LiesInKept, NothingFreeIsLeftOver
  <2> QED
    BY <1>1, <2>1, <2>3, <2>4, <2>5, <2>6 DEF IInv, ContainedCopiesAreReported, SelectedGroupsSurvive
<1> QED
  BY <1>2, <1>3, <1>4 DEF VisitFirst

LEMMA VisitSecondStep == ASSUME IInv, NEW c \in rest, VisitSecond(c) PROVE IInv'
<1> DEFINE straddled == {k \in kept : Straddle(c, k)}
<1>1. step = "second" /\ Visited(c)
  BY DEF VisitSecond
<1>2. CASE Nest(c)
  BY <1>1, <1>2, NestStep
<1>3. CASE straddled # {} /\ LeaveOver(c, {<<c.text, FirstKept(straddled).text>>})
  <2>1. \E k \in kept : Overlap(c, k)
    BY <1>3 DEF Straddle
  <2> QED
    BY <1>1, <1>3, <2>1, LeaveOverStep
<1>4. CASE ~LiesInKept(c) /\ straddled = {} /\ Enclose(c) /\ leftOver' = leftOver
  <2>1. \A k \in kept : ~Straddle(c, k)
    BY <1>4
  <2> QED
    BY <1>1, <1>4, <2>1, EncloseStep
<1> QED
  BY <1>2, <1>3, <1>4 DEF VisitSecond

LEMMA EndFirstStep == ASSUME IInv, EndFirst PROVE IInv'
<1>1. /\ step = "first" /\ step' = "second" /\ rest = {} /\ rest' = leftOver /\ leftOver' = {}
      /\ UNCHANGED <<rule, duplicates, kept, nested, rerun>>
  BY DEF EndFirst
<1>2. TypeOK'
  BY <1>1 DEF IInv, TypeOK, PlacesAreApart, Steps
<1> QED
  BY <1>1, <1>2
     DEF IInv, PlacesAreApart, KeptRegionsAreDisjoint, NestedCopiesAreCovered, LiesInKept,
         NothingFreeIsLeftOver, ContainedCopiesAreReported, SelectedGroupsSurvive

LEMMA EndSecondStep == ASSUME IInv, EndSecond PROVE IInv'
<1>1. /\ step = "second" /\ step' = "judge" /\ rest = {}
      /\ nested' = {c \in nested \cup NestedInTheEnd : c.text \in TextsOf(kept)}
      /\ UNCHANGED <<rule, duplicates, rest, leftOver, kept, rerun>>
  BY DEF EndSecond
<1>2. NestedInTheEnd \subseteq leftOver
  BY DEF NestedInTheEnd
<1>3. TypeOK'
  BY <1>1, <1>2 DEF IInv, TypeOK, Steps
<1>4. PlacesAreApart'
  BY <1>1 DEF PlacesAreApart, TextsOf
<1>5. NestedCopiesAreCovered'
  BY <1>1 DEF IInv, NestedCopiesAreCovered, NestedInTheEnd, LiesInKept
<1>6. KeptRegionsAreDisjoint' /\ NothingFreeIsLeftOver'
  BY <1>1 DEF IInv, KeptRegionsAreDisjoint, NothingFreeIsLeftOver
<1>7. ContainedCopiesAreReported'
  <2> SUFFICES ASSUME NEW c \in duplicates, LiesInKept(c), c.text \in TextsOf(kept)
               PROVE  c \in kept \cup nested'
    BY <1>1 DEF ContainedCopiesAreReported, LiesInKept, TextsOf
  <2>1. c \in leftOver \cup kept \cup nested
    BY <1>1 DEF IInv, TypeOK
  <2> QED
    BY <1>1, <2>1 DEF NestedInTheEnd
<1> QED
  BY <1>1, <1>3, <1>4, <1>5, <1>6, <1>7 DEF IInv, SelectedGroupsSurvive

LEMMA RerunStep == ASSUME IInv, Rerun PROVE IInv'
<1>1. /\ step' = "first" /\ duplicates' \subseteq duplicates /\ rest' = duplicates'
      /\ leftOver' = {} /\ kept' = {} /\ nested' = {}
      /\ rerun' = rerun + 1 /\ UNCHANGED rule
  BY DEF Rerun, StartRun
<1>2. TypeOK'
  BY <1>1 DEF IInv, TypeOK, Steps
<1> QED
  BY <1>1, <1>2
     DEF IInv, PlacesAreApart, KeptRegionsAreDisjoint, NestedCopiesAreCovered,
         NothingFreeIsLeftOver, ContainedCopiesAreReported, SelectedGroupsSurvive

(* Without a failed group, the groups with a standalone copy survive, and    *)
(* there are no others.                                                    *)
LEMMA AcceptStep == ASSUME IInv, Accept PROVE IInv'
<1>1. /\ step = "judge" /\ step' = "selected" /\ Failed = {}
      /\ UNCHANGED <<rule, duplicates, rest, leftOver, kept, nested, rerun>>
  BY DEF Accept
<1>2. TypeOK'
  BY <1>1 DEF IInv, TypeOK, Steps
<1>3. \A t \in TextsOf(kept) : Survives(rule, Reported(t))
  BY <1>1 DEF Failed
<1>4. TextsOf(kept \cup nested) \subseteq TextsOf(kept)
  BY <1>1 DEF IInv, PlacesAreApart, TextsOf
<1>5. SelectedGroupsSurvive'
  BY <1>1, <1>3, <1>4, ReportedUnchanged DEF SelectedGroupsSurvive
<1> QED
  BY <1>1, <1>2, <1>5
     DEF IInv, PlacesAreApart, KeptRegionsAreDisjoint, NestedCopiesAreCovered, LiesInKept,
         NothingFreeIsLeftOver, ContainedCopiesAreReported

LEMMA GiveUpStep == ASSUME IInv, GiveUp PROVE IInv'
<1>1. /\ step' = "drop"
      /\ UNCHANGED <<rule, duplicates, rest, leftOver, kept, nested, rerun>>
  BY DEF GiveUp
<1>2. TypeOK'
  BY <1>1 DEF IInv, TypeOK, Steps
<1> QED
  BY <1>1, <1>2
     DEF IInv, PlacesAreApart, KeptRegionsAreDisjoint, NestedCopiesAreCovered, LiesInKept,
         NothingFreeIsLeftOver, ContainedCopiesAreReported, SelectedGroupsSurvive

(* A turn that changes nothing found no group to drop. *)
LEMMA DropFailedGroupsStep == ASSUME IInv, DropFailedGroups PROVE IInv'
<1> DEFINE gone == {t \in TextsOf(kept \cup nested) : ~Survives(rule, Reported(t)) \/ t \notin TextsOf(kept)}
<1>1. /\ kept' = {c \in kept : c.text \notin gone}
      /\ nested' = {c \in nested : c.text \notin gone /\ \E k \in kept' : Inside(c, k)}
      /\ step' = IF kept' = kept /\ nested' = nested THEN "selected" ELSE "drop"
      /\ UNCHANGED <<rule, duplicates, rest, leftOver, rerun>>
  BY DEF DropFailedGroups
<1>2. step' \in {"selected", "drop"}
  BY <1>1
<1> HIDE DEF gone
<1>3. TypeOK'
  BY <1>1, <1>2 DEF IInv, TypeOK, Steps
<1>4. KeptRegionsAreDisjoint' /\ NestedCopiesAreCovered'
  BY <1>1 DEF IInv, KeptRegionsAreDisjoint, NestedCopiesAreCovered, LiesInKept
<1>5. SelectedGroupsSurvive'
  <2> SUFFICES ASSUME kept' = kept, nested' = nested, NEW t \in TextsOf(kept \cup nested)
               PROVE  t \in TextsOf(kept) /\ Survives(rule, Reported(t))
    BY <1>1, ReportedUnchanged DEF SelectedGroupsSurvive
  <2>1. PICK c \in kept \cup nested : c.text = t
    BY DEF TextsOf
  <2>2. t \notin gone
    BY <1>1, <2>1
  <2> QED
    BY <2>2 DEF gone
<1> QED
  BY <1>1, <1>2, <1>3, <1>4, <1>5 DEF IInv, PlacesAreApart, NothingFreeIsLeftOver, ContainedCopiesAreReported

-----------------------------------------------------------------------------
LEMMA StutterStep == ASSUME IInv, UNCHANGED selectionVars PROVE IInv'
<1>1. UNCHANGED <<step, rule, duplicates, rest, leftOver, kept, nested, rerun>>
  BY DEF selectionVars
<1>2. TypeOK' /\ PlacesAreApart'
  BY <1>1 DEF IInv, TypeOK, PlacesAreApart, TextsOf
<1>3. KeptRegionsAreDisjoint' /\ NestedCopiesAreCovered' /\ NothingFreeIsLeftOver'
  BY <1>1 DEF IInv, KeptRegionsAreDisjoint, NestedCopiesAreCovered, LiesInKept, NothingFreeIsLeftOver
<1>4. ContainedCopiesAreReported'
  BY <1>1 DEF IInv, ContainedCopiesAreReported, LiesInKept, TextsOf
<1>5. SelectedGroupsSurvive'
  BY <1>1, ReportedUnchanged DEF IInv, SelectedGroupsSurvive
<1> QED
  BY <1>2, <1>3, <1>4, <1>5 DEF IInv

(* The inductive invariant of the selection. *)
THEOREM SelectionInvariant == Safety => []IInv
<1>1. Init => IInv
  BY InitIInv
<1>2. IInv /\ [SelectionNext]_selectionVars => IInv'
  BY VisitFirstStep, VisitSecondStep, EndFirstStep, EndSecondStep, RerunStep, AcceptStep,
     GiveUpStep, DropFailedGroupsStep, StutterStep
     DEF SelectionNext
<1> QED
  BY <1>1, <1>2, PTL DEF Safety

(* The candidates in play are always in exactly one place. *)
THEOREM SelectionTypeCorrect == Safety => []TypeOK
<1>1. IInv => TypeOK
  BY DEF IInv
<1> QED
  BY <1>1, SelectionInvariant, PTL

(* The standalone copies of the groups never overlap, for all candidates. *)
THEOREM SelectionKeepsRegionsDisjoint == Safety => []KeptRegionsAreDisjoint
<1>1. IInv => KeptRegionsAreDisjoint
  BY DEF IInv
<1> QED
  BY <1>1, SelectionInvariant, PTL

(* Every nested copy lies within a standalone one, replaced and dropped ones *)
(* included.                                                               *)
THEOREM SelectionCoversNestedCopies == Safety => []NestedCopiesAreCovered
<1>1. IInv => NestedCopiesAreCovered
  BY DEF IInv
<1> QED
  BY <1>1, SelectionInvariant, PTL

(* What a run leaves over overlaps a kept region. *)
THEOREM SelectionLeavesNothingFree == Safety => []NothingFreeIsLeftOver
<1>1. IInv => NothingFreeIsLeftOver
  BY DEF IInv
<1> QED
  BY <1>1, SelectionInvariant, PTL

(* Whatever lies within a kept region at the end of a run is reported, if   *)
(* its group has a standalone copy.                                        *)
THEOREM SelectionReportsContainedCopies == Safety => []ContainedCopiesAreReported
<1>1. IInv => ContainedCopiesAreReported
  BY DEF IInv
<1> QED
  BY <1>1, SelectionInvariant, PTL

(* Every group of the result has a standalone copy and as many copies as its *)
(* rule asks for.                                                          *)
THEOREM SelectionSurvives == Safety => []SelectedGroupsSurvive
<1>1. IInv => SelectedGroupsSurvive
  BY DEF IInv
<1> QED
  BY <1>1, SelectionInvariant, PTL

-----------------------------------------------------------------------------
(* The files lie further apart in the index space than any gap.            *)

LEMMA OffsetsAre ==
  ASSUME NEW ls \in Seq(Nat)
  PROVE  /\ TokenOffsets(ls) \in [1..Len(ls) -> Nat]
         /\ \A f, g \in 1..Len(ls) :
              f < g => TokenOffsets(ls)[f] + ls[f] + MaxGapTokens + 1 <= TokenOffsets(ls)[g]
<1> DEFINE n == Len(ls)
           next == [p \in (1..n) \X Nat |-> p[2] + ls[p[1]] + MaxGapTokens + 1]
           IsAfter(a) == a = [f \in 0..n |->
                                IF f = 0 THEN 0 ELSE a[f - 1] + ls[f] + MaxGapTokens + 1]
           after == CHOOSE a : IsAfter(a)
<1>1. n \in Nat /\ \A f \in 1..n : ls[f] \in Nat
  OBVIOUS
<1>2. MaxGapTokens \in Nat
  BY MergingAssumption
<1>3. TokenOffsets(ls) = [f \in 1..n |-> after[f - 1]]
  BY DEF TokenOffsets
<1> HIDE DEF n
<1>4. next \in [(1..n) \X Nat -> Nat]
  <2>1. \A f \in 1..n, m \in Nat : m + ls[f] + MaxGapTokens + 1 \in Nat
    BY <1>1, <1>2
  <2> QED  BY <2>1
<1>5. PICK a \in [0..n -> Nat] : IsRun(a, n, 0, next)
  BY <1>1, <1>4, RunsExist
<1>6. \A f \in 1..n : a[f] = a[f - 1] + ls[f] + MaxGapTokens + 1
  <2> TAKE f \in 1..n
  <2>1. f - 1 \in 0..n /\ a[f - 1] \in Nat
    BY <1>1, <1>5
  <2>2. next[<<f, a[f - 1]>>] = a[f - 1] + ls[f] + MaxGapTokens + 1
    BY <2>1
  <2> QED  BY <1>5, <2>2 DEF IsRun
<1>7. IsAfter(a)
  <2>1. a[0] = 0
    BY <1>5 DEF IsRun
  <2>2. \A f \in 0..n : a[f] = IF f = 0 THEN 0 ELSE a[f - 1] + ls[f] + MaxGapTokens + 1
    BY <1>1, <1>6, <2>1
  <2> QED  BY <1>5, <2>2
<1>8. IsAfter(after)
  BY <1>7
<1> HIDE DEF after
<1>9. /\ after[0] = 0
      /\ \A f \in 1..n : after[f] = after[f - 1] + ls[f] + MaxGapTokens + 1
  BY <1>1, <1>8
<1>10. \A f \in 0..n : after[f] \in Nat /\ \A e \in 0..f : after[e] <= after[f]
  <2> DEFINE T == {f \in 0..n : after[f] \in Nat /\ \A e \in 0..f : after[e] \in Nat /\ after[e] <= after[f]}
  <2>1. 0 \in T
    BY <1>1, <1>9
  <2>2. ASSUME NEW f \in 1..n, f - 1 \in T PROVE f \in T
    <3>1. after[f - 1] \in Nat /\ after[f] = after[f - 1] + ls[f] + MaxGapTokens + 1
      BY <1>9, <2>2
    <3>2. after[f] \in Nat /\ after[f - 1] <= after[f]
      <4> DEFINE x == after[f - 1]  y == ls[f]
      <4>1. x \in Nat /\ y \in Nat /\ MaxGapTokens \in Nat /\ after[f] = x + y + MaxGapTokens + 1
        BY <1>1, <1>2, <3>1
      <4> HIDE DEF x, y
      <4>2. x + y + MaxGapTokens + 1 \in Nat /\ x <= x + y + MaxGapTokens + 1
        BY <4>1
      <4> QED  BY <4>1, <4>2 DEF x
    <3>3. ASSUME NEW e \in 0..f PROVE after[e] \in Nat /\ after[e] <= after[f]
      <4>1. CASE e = f
        BY <3>2, <4>1
      <4>2. CASE e # f
        <5>1. e \in 0..(f - 1) /\ e \in 0..n
          BY <1>1, <4>2
        <5>2. after[e] \in Nat /\ after[e] <= after[f - 1]
          BY <2>2, <5>1
        <5> QED  BY <3>1, <3>2, <5>2
      <4> QED  BY <4>1, <4>2
    <3>4. f \in 0..n
      BY <1>1
    <3> QED  BY <3>2, <3>3, <3>4
  <2> HIDE DEF T
  <2>3. 0..n \subseteq T
    BY <1>1, <2>1, <2>2, StepByStep
  <2> QED  BY <2>3 DEF T
<1>11. TokenOffsets(ls) \in [1..n -> Nat]
  <2>1. \A f \in 1..n : f - 1 \in 0..n
    BY <1>1
  <2> QED  BY <1>3, <1>10, <2>1
<1>12. ASSUME NEW f \in 1..n, NEW g \in 1..n, f < g
       PROVE  TokenOffsets(ls)[f] + ls[f] + MaxGapTokens + 1 <= TokenOffsets(ls)[g]
  <2>1. f \in 0..(g - 1) /\ g - 1 \in 0..n
    BY <1>1, <1>12
  <2>2. after[f] <= after[g - 1] /\ after[f] = after[f - 1] + ls[f] + MaxGapTokens + 1
    BY <1>9, <1>10, <2>1
  <2> QED  BY <1>3, <2>2
<1> QED  BY <1>11, <1>12 DEF n

-----------------------------------------------------------------------------
(* The pairing: trailing copies in turn, each behind the pair before it.   *)

OccurrenceType ==
  [file : Nat, start : Nat, end : Nat, segments : Seq(Nat \X Nat), size : Nat,
   shared : BOOLEAN, nested : BOOLEAN]

Occurrences == {o \in OccurrenceType : o.start < o.end}

(* The copy leads the other within the gap. *)
CanPair(leading, trailing) ==
  /\ Pairable(leading) /\ Pairable(trailing)
  /\ leading.end <= trailing.start /\ trailing.start <= leading.end + MaxGapTokens

ArePaired(first, second, pairs) ==
  /\ pairs \in Seq(Nat \X Nat)
  /\ \A k \in 1..Len(pairs) :
       /\ pairs[k][1] \in 1..Len(first) /\ pairs[k][2] \in 1..Len(second)
       /\ CanPair(first[pairs[k][1]], second[pairs[k][2]])
  /\ \A k, l \in 1..Len(pairs) : k < l =>
       /\ pairs[k][1] < pairs[l][1] /\ pairs[k][2] < pairs[l][2]
       /\ second[pairs[k][2]].end <= first[pairs[l][1]].start

PairState(first) == [next : 1..(Len(first) + 1), end : Int, pairs : Seq(Nat \X Nat)]

(* The pairs so far lie before what the next pair may use. *)
PairedSoFar(first, second, n, s) ==
  /\ s \in PairState(first)
  /\ ArePaired(first, second, s.pairs)
  /\ \A k \in 1..Len(s.pairs) :
       /\ s.pairs[k][1] < s.next /\ s.pairs[k][2] <= n
       /\ second[s.pairs[k][2]].end <= s.end

LEMMA Chained ==
  \A a, b, c \in Int : /\ a <= b /\ b <= c => a <= c
                       /\ a < b /\ b <= c => a < c
                       /\ a <= b /\ b < c => a < c
OBVIOUS

LEMMA PairTrailingIs ==
  ASSUME NEW first \in Seq(Occurrences), NEW second \in Seq(Occurrences),
         NEW n \in 1..Len(second), NEW before \in PairState(first)
  PROVE  \/ \E m \in before.next..(Len(first) + 1) :
              PairTrailing(first, second, n, before) =
                [next |-> m, end |-> before.end, pairs |-> before.pairs]
         \/ \E m \in before.next..Len(first) :
              /\ CanPair(first[m], second[n]) /\ before.end <= first[m].start
              /\ PairTrailing(first, second, n, before) =
                   [next |-> m + 1, end |-> second[n].end, pairs |-> Append(before.pairs, <<m, n>>)]
<1> DEFINE near == {i \in before.next..Len(first) :
                      Pairable(first[i]) /\ first[i].end + MaxGapTokens >= second[n].start}
           next == IF near = {} THEN Len(first) + 1 ELSE CHOOSE i \in near : \A j \in near : i <= j
           after == PairTrailing(first, second, n, before)
<1>1. /\ before.next \in 1..(Len(first) + 1) /\ before.end \in Int /\ before.pairs \in Seq(Nat \X Nat)
      /\ before = [next |-> before.next, end |-> before.end, pairs |-> before.pairs]
  BY DEF PairState
<1>2. Len(first) \in Nat
  OBVIOUS
<1>3. near # {} => next \in near
  <2>1. near \subseteq Nat
    BY <1>1, <1>2
  <2> HIDE DEF near
  <2> QED  BY <2>1, LeastOf
<1>4. after = IF ~Pairable(second[n]) THEN before
              ELSE IF near # {} /\ first[next].end <= second[n].start /\ first[next].start >= before.end
                   THEN [next |-> next + 1, end |-> second[n].end, pairs |-> Append(before.pairs, <<next, n>>)]
                   ELSE [before EXCEPT !.next = next]
  BY DEF PairTrailing
<1>5. next \in before.next..(Len(first) + 1)
  <2>1. CASE near = {}
    <3>1. next = Len(first) + 1
      BY <2>1
    <3> HIDE DEF next
    <3> QED  BY <1>1, <1>2, <3>1
  <2>2. CASE near # {}
    <3>1. next \in before.next..Len(first)
      BY <1>3, <2>2
    <3> HIDE DEF next
    <3> QED  BY <1>1, <1>2, <3>1
  <2> QED  BY <2>1, <2>2
<1>6. [before EXCEPT !.next = next] = [next |-> next, end |-> before.end, pairs |-> before.pairs]
  <2> HIDE DEF next, near
  <2> QED  BY SMTT(30) DEF PairState
<1>7. near # {} => /\ next \in before.next..Len(first)
                   /\ Pairable(first[next]) /\ first[next].end + MaxGapTokens >= second[n].start
  BY <1>3
<1> HIDE DEF near, next, after
<1>8. CASE ~Pairable(second[n])
  <2>1. after = before
    BY <1>4, <1>8
  <2>2. before.next \in before.next..(Len(first) + 1)
    BY <1>1, <1>2
  <2> QED  BY <1>1, <2>1, <2>2 DEF after
<1>9. CASE /\ Pairable(second[n]) /\ near # {}
           /\ first[next].end <= second[n].start /\ first[next].start >= before.end
  <2>1. first[next] \in Occurrences /\ second[n] \in Occurrences
    BY <1>1, <1>7, <1>9
  <2>2. first[next].start \in Int /\ first[next].end \in Int /\ second[n].start \in Int
    BY <2>1, SMTT(30) DEF Occurrences, OccurrenceType
  <2>3. second[n].start <= first[next].end + MaxGapTokens /\ before.end <= first[next].start
    <3> DEFINE a == first[next].end  b == second[n].start  c == first[next].start  d == before.end
    <3>1. /\ a \in Int /\ b \in Int /\ c \in Int /\ d \in Int /\ MaxGapTokens \in Int
          /\ a + MaxGapTokens >= b /\ c >= d
      BY <1>1, <1>7, <1>9, <2>2, MergingAssumption
    <3> HIDE DEF a, b, c, d
    <3>2. b <= a + MaxGapTokens /\ d <= c
      BY <3>1
    <3> QED  BY <3>2 DEF a, b, c, d
  <2>4. CanPair(first[next], second[n])
    BY <1>7, <1>9, <2>3 DEF CanPair
  <2>5. after = [next |-> next + 1, end |-> second[n].end, pairs |-> Append(before.pairs, <<next, n>>)]
    BY <1>4, <1>9
  <2> QED  BY <1>7, <1>9, <2>3, <2>4, <2>5 DEF after
<1>10. CASE /\ Pairable(second[n])
            /\ ~(near # {} /\ first[next].end <= second[n].start /\ first[next].start >= before.end)
  <2>1. after = [next |-> next, end |-> before.end, pairs |-> before.pairs]
    BY <1>4, <1>6, <1>10
  <2> QED  BY <1>5, <2>1 DEF after
<1> QED  BY <1>8, <1>9, <1>10

LEMMA PairingGoesOn ==
  ASSUME NEW first \in Seq(Occurrences), NEW second \in Seq(Occurrences),
         NEW n \in 1..Len(second), NEW before, PairedSoFar(first, second, n - 1, before)
  PROVE  PairedSoFar(first, second, n, PairTrailing(first, second, n, before))
<1> DEFINE after == PairTrailing(first, second, n, before)
           ps == before.pairs
<1>1. /\ before \in PairState(first) /\ before.next \in 1..(Len(first) + 1)
      /\ before.end \in Int /\ ps \in Seq(Nat \X Nat) /\ Len(first) \in Nat /\ Len(ps) \in Nat
  BY DEF PairedSoFar, PairState
<1>2. \A k \in 1..Len(ps) :
        /\ ps[k][1] \in 1..Len(first) /\ ps[k][2] \in 1..Len(second)
        /\ CanPair(first[ps[k][1]], second[ps[k][2]])
        /\ ps[k][1] < before.next /\ ps[k][2] <= n - 1
        /\ second[ps[k][2]].end <= before.end
  BY DEF PairedSoFar, ArePaired
<1>3. \A k, l \in 1..Len(ps) : k < l =>
        /\ ps[k][1] < ps[l][1] /\ ps[k][2] < ps[l][2]
        /\ second[ps[k][2]].end <= first[ps[l][1]].start
  BY DEF PairedSoFar, ArePaired
<1>4. /\ \A i \in 1..Len(first) : first[i].start \in Int /\ first[i].end \in Int /\ first[i].start < first[i].end
      /\ \A i \in 1..Len(second) : second[i].start \in Int /\ second[i].end \in Int /\ second[i].start < second[i].end
  <2>1. \A o \in Occurrences : o.start \in Int /\ o.end \in Int /\ o.start < o.end
    BY DEF Occurrences, OccurrenceType
  <2> QED  BY <2>1
<1>5. CASE \E m \in before.next..(Len(first) + 1) :
             after = [next |-> m, end |-> before.end, pairs |-> ps]
  <2>1. PICK m \in before.next..(Len(first) + 1) :
          after = [next |-> m, end |-> before.end, pairs |-> ps]
    BY <1>5
  <2> HIDE DEF after, ps
  <2>2. m \in 1..(Len(first) + 1) /\ before.next <= m
    BY <1>1, <2>1
  <2>3. after \in PairState(first)
    BY <1>1, <2>1, <2>2 DEF PairState
  <2>4. after.pairs = ps /\ after.next = m /\ after.end = before.end
    BY <2>1
  <2>5. ArePaired(first, second, ps)
    BY DEF PairedSoFar, ps
  <2>6. \A k \in 1..Len(ps) : ps[k][1] < m /\ ps[k][2] <= n
    BY <1>1, <1>2, <2>2, SMTT(30)
  <2>7. PairedSoFar(first, second, n, after)
    BY <1>2, <2>3, <2>4, <2>5, <2>6 DEF PairedSoFar
  <2> QED  BY <2>7 DEF after
<1>6. CASE \E m \in before.next..Len(first) :
             /\ CanPair(first[m], second[n]) /\ before.end <= first[m].start
             /\ after = [next |-> m + 1, end |-> second[n].end, pairs |-> Append(ps, <<m, n>>)]
  <2>1. PICK m \in before.next..Len(first) :
             /\ CanPair(first[m], second[n]) /\ before.end <= first[m].start
             /\ after = [next |-> m + 1, end |-> second[n].end, pairs |-> Append(ps, <<m, n>>)]
    BY <1>6
  <2> DEFINE qs == Append(ps, <<m, n>>)
             len == Len(ps)
  <2>2. m \in 1..Len(first) /\ before.next <= m /\ n \in Nat /\ len \in Nat
    BY <1>1, <2>1
  <2>3. /\ qs \in Seq(Nat \X Nat) /\ Len(qs) = len + 1
        /\ \A k \in 1..len : qs[k] = ps[k]
        /\ qs[len + 1] = <<m, n>>
    <3>1. ps \in Seq(Nat \X Nat) /\ <<m, n>> \in Nat \X Nat
      BY <1>1, <2>2
    <3> HIDE DEF ps
    <3>2. qs \in Seq(Nat \X Nat) /\ Len(qs) = len + 1
      BY <3>1
    <3>3. \A k \in 1..len : qs[k] = ps[k]
      BY <3>1
    <3>4. qs[len + 1] = <<m, n>>
      BY <3>1
    <3> QED  BY <3>2, <3>3, <3>4
  <2>4. qs[len + 1][1] = m /\ qs[len + 1][2] = n
    BY <2>3
  <2>5. after.pairs = qs /\ after.next = m + 1 /\ after.end = second[n].end
    BY <2>1
  <2>6. after \in PairState(first)
    BY <1>4, <2>1, <2>2, <2>3 DEF PairState
  <2> HIDE DEF after, qs, ps, len
  <2>7. \A k \in 1..(len + 1) : k \in 1..len \/ k = len + 1
    BY <2>2
  <2>8. second[n].start \in Int /\ second[n].end \in Int /\ first[m].start \in Int /\ first[m].end \in Int
        /\ before.end < second[n].end
    <3>1. /\ first[m].start \in Int /\ first[m].end \in Int /\ first[m].start < first[m].end
          /\ second[n].start \in Int /\ second[n].end \in Int /\ second[n].start < second[n].end
      BY <1>4, <2>2
    <3>2. before.end <= first[m].start /\ first[m].end <= second[n].start
      BY <2>1 DEF CanPair
    <3> DEFINE a == first[m].start  b == first[m].end  c == second[n].start  d == second[n].end  e == before.end
    <3>3. a \in Int /\ b \in Int /\ c \in Int /\ d \in Int /\ e \in Int /\ a < b /\ c < d /\ e <= a /\ b <= c
      BY <1>1, <3>1, <3>2
    <3> HIDE DEF a, b, c, d, e
    <3>4. e < d
      BY <3>3
    <3> QED  BY <3>3, <3>4 DEF a, b, c, d, e
  <2>9. \A k \in 1..len :
          /\ qs[k][1] \in 1..Len(first) /\ qs[k][2] \in 1..Len(second)
          /\ CanPair(first[qs[k][1]], second[qs[k][2]])
          /\ qs[k][1] < m /\ qs[k][2] < n
          /\ second[qs[k][2]].end <= first[m].start /\ second[qs[k][2]].end <= second[n].end
    <3> TAKE k \in 1..len
    <3>1. /\ ps[k][1] \in 1..Len(first) /\ ps[k][2] \in 1..Len(second)
          /\ CanPair(first[ps[k][1]], second[ps[k][2]])
          /\ ps[k][1] < before.next /\ ps[k][2] <= n - 1
          /\ second[ps[k][2]].end <= before.end
      BY <1>2 DEF len
    <3>2. second[ps[k][2]].end \in Int
      BY <1>4, <3>1
    <3>3. ps[k][1] < m /\ ps[k][2] < n
      <4>1. /\ ps[k][1] \in Int /\ before.next \in Int /\ m \in Int
            /\ ps[k][1] < before.next /\ before.next <= m
        <5>1. ps[k][1] \in Int
          BY <3>1
        <5>2. before.next \in Int /\ m \in Int /\ before.next <= m
          BY <1>1, <2>2
        <5> QED  BY <3>1, <5>1, <5>2
      <4>2. ps[k][2] \in Int /\ n \in Int /\ ps[k][2] <= n - 1
        BY <2>2, <3>1
      <4>3. ps[k][1] < m
        BY <4>1, Chained
      <4> QED  BY <4>2, <4>3
    <3>4. second[ps[k][2]].end <= first[m].start /\ second[ps[k][2]].end <= second[n].end
      <4>1. /\ second[ps[k][2]].end <= before.end /\ before.end <= first[m].start /\ before.end < second[n].end
            /\ before.end \in Int /\ first[m].start \in Int /\ second[n].end \in Int
        BY <1>1, <2>1, <2>8, <3>1
      <4> DEFINE a == second[ps[k][2]].end
                 b == before.end
                 c == first[m].start
                 d == second[n].end
      <4>2. /\ a \in Int /\ b \in Int /\ c \in Int /\ d \in Int
            /\ a <= b /\ b <= c /\ b < d
        BY <3>2, <4>1
      <4> HIDE DEF a, b, c, d
      <4>3. a <= c /\ a <= d
        BY <4>2
      <4> QED  BY <4>3 DEF a, c, d
    <3> QED  BY <2>3, <3>1, <3>3, <3>4
  <2>10. ASSUME NEW k \in 1..(len + 1)
         PROVE  /\ qs[k][1] \in 1..Len(first) /\ qs[k][2] \in 1..Len(second)
                /\ CanPair(first[qs[k][1]], second[qs[k][2]])
                /\ qs[k][1] < m + 1 /\ qs[k][2] <= n
                /\ second[qs[k][2]].end <= second[n].end
    <3>1. CASE k \in 1..len
      <4>1. /\ qs[k][1] \in 1..Len(first) /\ qs[k][2] \in 1..Len(second)
            /\ qs[k][1] < m /\ qs[k][2] < n
        BY <2>9, <3>1
      <4>2. qs[k][1] < m + 1 /\ qs[k][2] <= n
        BY <2>2, <4>1
      <4> QED  BY <2>9, <3>1, <4>2
    <3>2. CASE k = len + 1
      <4>1. qs[k][1] = m /\ qs[k][2] = n
        BY <2>4, <3>2
      <4>2. m < m + 1 /\ n <= n /\ second[n].end <= second[n].end
        BY <2>2, <2>8
      <4> QED  BY <2>1, <2>2, <4>1, <4>2
    <3> QED  BY <2>7, <3>1, <3>2
  <2>11. ASSUME NEW k \in 1..(len + 1), NEW l \in 1..(len + 1), k < l
         PROVE  /\ qs[k][1] < qs[l][1] /\ qs[k][2] < qs[l][2]
                /\ second[qs[k][2]].end <= first[qs[l][1]].start
    <3>1. k \in 1..len
      BY <2>2, <2>11
    <3>2. CASE l \in 1..len
      <4>1. qs[k] = ps[k] /\ qs[l] = ps[l]
        BY <2>3, <3>1, <3>2
      <4> QED  BY <1>3, <2>11, <3>1, <3>2, <4>1 DEF len
    <3>3. CASE l = len + 1
      <4>1. qs[l][1] = m /\ qs[l][2] = n
        BY <2>4, <3>3
      <4> QED  BY <2>9, <3>1, <4>1
    <3> QED  BY <2>7, <3>2, <3>3
  <2>12. ArePaired(first, second, qs)
    BY <2>3, <2>10, <2>11 DEF ArePaired
  <2>13. PairedSoFar(first, second, n, after)
    BY <2>3, <2>5, <2>6, <2>10, <2>12 DEF PairedSoFar
  <2> QED  BY <2>13 DEF after
<1>7. \/ \E m \in before.next..(Len(first) + 1) :
           after = [next |-> m, end |-> before.end, pairs |-> ps]
      \/ \E m \in before.next..Len(first) :
           /\ CanPair(first[m], second[n]) /\ before.end <= first[m].start
           /\ after = [next |-> m + 1, end |-> second[n].end, pairs |-> Append(ps, <<m, n>>)]
  BY <1>1, PairTrailingIs
<1> QED  BY <1>5, <1>6, <1>7

LEMMA PairsAre ==
  ASSUME NEW first \in Seq(Occurrences), NEW second \in Seq(Occurrences)
  PROVE  ArePaired(first, second, Pairs(first, second))
<1> DEFINE n == Len(second)
           start == [next |-> 1, end |-> -1, pairs |-> <<>>]
           next == [p \in (1..n) \X PairState(first) |-> PairTrailing(first, second, p[1], p[2])]
           IsPairing(f) == f = [k \in 0..n |-> IF k = 0 THEN start ELSE PairTrailing(first, second, k, f[k - 1])]
           paired == CHOOSE f : IsPairing(f)
<1>1. n \in Nat /\ Len(first) \in Nat
  OBVIOUS
<1>2. Pairs(first, second) = paired[n].pairs
  BY DEF Pairs
<1>3. start \in PairState(first)
  BY <1>1 DEF PairState
<1> HIDE DEF n
<1>4. next \in [(1..n) \X PairState(first) -> PairState(first)]
  <2>1. ASSUME NEW k \in 1..n, NEW s \in PairState(first)
        PROVE  PairTrailing(first, second, k, s) \in PairState(first)
    <3> DEFINE after == PairTrailing(first, second, k, s)
    <3>1. s.next \in 1..(Len(first) + 1) /\ s.end \in Int /\ s.pairs \in Seq(Nat \X Nat)
      BY DEF PairState
    <3>2. k \in 1..Len(second) /\ k \in Nat
      BY DEF n
    <3>3. second[k].end \in Int
      <4>1. second[k] \in Occurrences
        BY <3>2
      <4> QED  BY <4>1 DEF Occurrences, OccurrenceType
    <3>4. CASE \E m \in s.next..(Len(first) + 1) : after = [next |-> m, end |-> s.end, pairs |-> s.pairs]
      <4>1. PICK m \in s.next..(Len(first) + 1) : after = [next |-> m, end |-> s.end, pairs |-> s.pairs]
        BY <3>4
      <4>2. m \in 1..(Len(first) + 1)
        BY <1>1, <3>1, <4>1
      <4> QED  BY <3>1, <4>1, <4>2 DEF PairState
    <3>5. CASE \E m \in s.next..Len(first) :
                 after = [next |-> m + 1, end |-> second[k].end, pairs |-> Append(s.pairs, <<m, k>>)]
      <4>1. PICK m \in s.next..Len(first) :
                 after = [next |-> m + 1, end |-> second[k].end, pairs |-> Append(s.pairs, <<m, k>>)]
        BY <3>5
      <4>2. m + 1 \in 1..(Len(first) + 1) /\ m \in Nat
        BY <1>1, <3>1, <4>1
      <4>3. Append(s.pairs, <<m, k>>) \in Seq(Nat \X Nat)
        BY <3>1, <3>2, <4>2
      <4> HIDE DEF after
      <4>4. after \in PairState(first)
        BY <3>3, <4>1, <4>2, <4>3 DEF PairState
      <4> QED  BY <4>4 DEF after
    <3> QED  BY <3>2, <3>4, <3>5, PairTrailingIs
  <2> QED  BY <2>1
<1>5. PICK f \in [0..n -> PairState(first)] : IsRun(f, n, start, next)
  <2> HIDE DEF start, next
  <2> QED  BY <1>1, <1>3, <1>4, RunsExist
<1>6. IsPairing(f)
  <2>1. f[0] = start
    BY <1>5 DEF IsRun
  <2>2. ASSUME NEW k \in 1..n PROVE f[k] = PairTrailing(first, second, k, f[k - 1])
    <3>1. k - 1 \in 0..n /\ f[k - 1] \in PairState(first)
      BY <1>1, <1>5
    <3>2. f[k] = next[<<k, f[k - 1]>>]
      BY <1>5 DEF IsRun
    <3>3. <<k, f[k - 1]>> \in (1..n) \X PairState(first)
      BY <3>1
    <3>4. next[<<k, f[k - 1]>>] = PairTrailing(first, second, k, f[k - 1])
      BY <3>3
    <3> QED  BY <3>2, <3>4
  <2> HIDE DEF start, next
  <2>3. \A k \in 0..n : f[k] = IF k = 0 THEN start ELSE PairTrailing(first, second, k, f[k - 1])
    BY <1>1, <2>1, <2>2
  <2> QED  BY <1>5, <2>3
<1>7. IsPairing(paired)
  <2> HIDE DEF IsPairing
  <2> QED  BY <1>6
<1> HIDE DEF paired
<1>8. /\ paired[0] = start
      /\ \A k \in 1..n : paired[k] = PairTrailing(first, second, k, paired[k - 1])
  BY <1>1, <1>7
<1>9. \A k \in 0..n : PairedSoFar(first, second, k, paired[k])
  <2> DEFINE T == {k \in 0..n : PairedSoFar(first, second, k, paired[k])}
  <2>1. 0 \in T
    <3>1. start.pairs = <<>> /\ start \in PairState(first)
      BY <1>3
    <3>2. PairedSoFar(first, second, 0, start)
      BY <3>1 DEF PairedSoFar, ArePaired
    <3> QED  BY <1>1, <1>8, <3>2
  <2>2. ASSUME NEW k \in 1..n, k - 1 \in T PROVE k \in T
    BY <1>1, <1>8, <2>2, PairingGoesOn DEF n
  <2> HIDE DEF T
  <2>3. 0..n \subseteq T
    BY <1>1, <2>1, <2>2, StepByStep
  <2> QED  BY <2>3 DEF T
<1>10. PairedSoFar(first, second, n, paired[n])
  BY <1>1, <1>9
<1> QED  BY <1>2, <1>10 DEF PairedSoFar

-----------------------------------------------------------------------------
(* What a sound list of groups is.                                         *)

(* A copy lies within its file, what it matches within it, and a nested    *)
(* copy is counted elsewhere.                                              *)
IsPlaced(o, ls) ==
  /\ o.file \in 1..Len(ls)
  /\ TokenOffsets(ls)[o.file] <= o.start /\ o.end <= TokenOffsets(ls)[o.file] + ls[o.file]
  /\ Tokens(o) \subseteq o.start..(o.end - 1)
  /\ o.nested => o.shared

IsSoundGroup(g, ls, span) ==
  /\ g \in Seq(Occurrences) /\ Len(g) >= 2
  /\ \A i \in 1..Len(g) : IsPlaced(g[i], ls)
  /\ \A i, j \in 1..Len(g) : (i < j /\ ~g[i].nested /\ ~g[j].nested) => g[i].end <= g[j].start
  /\ span => \E i, j \in 1..Len(g) : g[i].file # g[j].file

CountedApart(g, h) ==
  \A i \in 1..Len(g), j \in 1..Len(h) :
    (~g[i].shared /\ ~h[j].shared) => Tokens(g[i]) \cap Tokens(h[j]) = {}

IsSound(gs, ls, span) ==
  /\ gs \in Seq(Seq(Occurrences))
  /\ \A g \in 1..Len(gs) : IsSoundGroup(gs[g], ls, span)
  /\ \A g, h \in 1..Len(gs) : g # h => CountedApart(gs[g], gs[h])

LEMMA OccurrenceFields ==
  ASSUME NEW o \in Occurrences
  PROVE  /\ o \in OccurrenceType
         /\ o.file \in Nat /\ o.start \in Nat /\ o.end \in Nat /\ o.start < o.end
         /\ o.segments \in Seq(Nat \X Nat) /\ o.size \in Nat
         /\ o.shared \in BOOLEAN /\ o.nested \in BOOLEAN
BY DEF Occurrences, OccurrenceType

(* Copies of one group that are counted are apart. *)
LEMMA CountedApartInside ==
  ASSUME NEW g, NEW ls, NEW span, IsSoundGroup(g, ls, span),
         NEW i \in 1..Len(g), NEW j \in 1..Len(g), i # j, ~g[i].shared, ~g[j].shared
  PROVE  Tokens(g[i]) \cap Tokens(g[j]) = {}
<1>1. /\ g[i] \in Occurrences /\ g[j] \in Occurrences
      /\ IsPlaced(g[i], ls) /\ IsPlaced(g[j], ls)
  BY DEF IsSoundGroup
<1>2. ~g[i].nested /\ ~g[j].nested
  BY <1>1 DEF IsPlaced
<1>3. Tokens(g[i]) \subseteq g[i].start..(g[i].end - 1) /\ Tokens(g[j]) \subseteq g[j].start..(g[j].end - 1)
  BY <1>1 DEF IsPlaced
<1>4. g[i].end <= g[j].start \/ g[j].end <= g[i].start
  <2>1. i < j \/ j < i
    OBVIOUS
  <2> QED  BY <1>2, <2>1 DEF IsSoundGroup
<1>5. g[i].start \in Nat /\ g[i].end \in Nat /\ g[j].start \in Nat /\ g[j].end \in Nat
  BY <1>1, OccurrenceFields
<1> DEFINE a == g[i].start  b == g[i].end  c == g[j].start  d == g[j].end
           T == Tokens(g[i])  U == Tokens(g[j])
<1>6. /\ a \in Nat /\ b \in Nat /\ c \in Nat /\ d \in Nat
      /\ T \subseteq a..(b - 1) /\ U \subseteq c..(d - 1) /\ (b <= c \/ d <= a)
  BY <1>3, <1>4, <1>5
<1> HIDE DEF a, b, c, d, T, U
<1>7. ASSUME NEW x, x \in T, x \in U PROVE FALSE
  <2>1. x \in a..(b - 1) /\ x \in c..(d - 1)
    BY <1>6, <1>7
  <2> QED  BY <1>6, <2>1
<1>8. T \cap U = {}
  BY <1>7
<1> QED  BY <1>8 DEF T, U

LEMMA CountedApartEitherWay ==
  ASSUME NEW g, NEW h, CountedApart(g, h)
  PROVE  CountedApart(h, g)
BY DEF CountedApart

-----------------------------------------------------------------------------
(* A gapped copy.                                                          *)

LEMMA PairsStayInTheirFile ==
  ASSUME NEW ls \in Seq(Nat), NEW leading \in Occurrences, NEW trailing \in Occurrences,
         IsPlaced(leading, ls), IsPlaced(trailing, ls), CanPair(leading, trailing)
  PROVE  leading.file = trailing.file
<1> DEFINE at == TokenOffsets(ls)
           f == leading.file  g == trailing.file
           a == leading.start  b == leading.end  c == trailing.start  d == trailing.end
<1>1. /\ f \in 1..Len(ls) /\ g \in 1..Len(ls)
      /\ at[f] <= a /\ b <= at[f] + ls[f] /\ at[g] <= c /\ d <= at[g] + ls[g]
  BY DEF IsPlaced
<1>2. a \in Nat /\ b \in Nat /\ c \in Nat /\ d \in Nat /\ a < b /\ c < d
  BY OccurrenceFields
<1>3. b <= c /\ c <= b + MaxGapTokens /\ MaxGapTokens \in Nat
  BY MergingAssumption DEF CanPair
<1>4. /\ at[f] \in Nat /\ at[g] \in Nat /\ ls[f] \in Nat /\ ls[g] \in Nat
      /\ f < g => at[f] + ls[f] + MaxGapTokens + 1 <= at[g]
      /\ g < f => at[g] + ls[g] + MaxGapTokens + 1 <= at[f]
  <2> HIDE DEF at, f, g
  <2>1. at \in [1..Len(ls) -> Nat]
    BY OffsetsAre DEF at
  <2> QED  BY <1>1, <2>1, OffsetsAre DEF at
<1> HIDE DEF at, f, g, a, b, c, d
<1> DEFINE p == at[f]  q == at[g]  l == ls[f]  m == ls[g]
<1>5. /\ p \in Nat /\ q \in Nat /\ l \in Nat /\ m \in Nat
      /\ f < g => p + l + MaxGapTokens + 1 <= q
      /\ g < f => q + m + MaxGapTokens + 1 <= p
      /\ p <= a /\ b <= p + l /\ q <= c /\ d <= q + m
  BY <1>1, <1>4
<1> HIDE DEF p, q, l, m
<1>6. ~(f < g)
  BY <1>2, <1>3, <1>5
<1>7. ~(g < f)
  BY <1>2, <1>3, <1>5
<1>8. f = g
  BY <1>1, <1>6, <1>7
<1> QED  BY <1>8 DEF f, g

LEMMA ConcatenationHolds ==
  ASSUME NEW S, NEW s \in Seq(S), NEW t \in Seq(S)
  PROVE  ToSet(s \o t) = ToSet(s) \cup ToSet(t)
<1>1. /\ Len(s \o t) = Len(s) + Len(t) /\ Len(s) \in Nat /\ Len(t) \in Nat
      /\ \A i \in 1..Len(s) : (s \o t)[i] = s[i]
      /\ \A i \in 1..Len(t) : (s \o t)[Len(s) + i] = t[i]
  <2>1. Len(s \o t) = Len(s) + Len(t) /\ Len(s) \in Nat /\ Len(t) \in Nat
    OBVIOUS
  <2>2. ASSUME NEW i \in 1..Len(s) PROVE (s \o t)[i] = s[i]
    OBVIOUS
  <2>3. ASSUME NEW i \in 1..Len(t) PROVE (s \o t)[Len(s) + i] = t[i]
    OBVIOUS
  <2> QED  BY <2>1, <2>2, <2>3
<1>2. /\ \A i \in 1..Len(s) : i \in 1..(Len(s) + Len(t))
      /\ \A i \in 1..Len(t) : Len(s) + i \in 1..(Len(s) + Len(t))
      /\ \A i \in 1..(Len(s) + Len(t)) : i \in 1..Len(s) \/ i - Len(s) \in 1..Len(t)
  BY <1>1
<1>3. DOMAIN (s \o t) = 1..Len(s \o t) /\ DOMAIN s = 1..Len(s) /\ DOMAIN t = 1..Len(t)
  OBVIOUS
<1>4. ASSUME NEW x \in ToSet(s \o t) PROVE x \in ToSet(s) \cup ToSet(t)
  <2>1. PICK i \in 1..(Len(s) + Len(t)) : x = (s \o t)[i]
    BY <1>1, <1>3 DEF ToSet
  <2>2. CASE i \in 1..Len(s)
    BY <1>1, <1>3, <2>1, <2>2 DEF ToSet
  <2>3. CASE i - Len(s) \in 1..Len(t)
    <3>1. Len(s) + (i - Len(s)) = i
      BY <1>1, <2>1
    <3> QED  BY <1>1, <1>3, <2>1, <2>3, <3>1 DEF ToSet
  <2> QED  BY <1>2, <2>1, <2>2, <2>3
<1>5. ASSUME NEW x \in ToSet(s) PROVE x \in ToSet(s \o t)
  <2>1. PICK i \in 1..Len(s) : x = s[i]
    BY <1>3 DEF ToSet
  <2> QED  BY <1>1, <1>2, <1>3, <2>1 DEF ToSet
<1>6. ASSUME NEW x \in ToSet(t) PROVE x \in ToSet(s \o t)
  <2>1. PICK i \in 1..Len(t) : x = t[i]
    BY <1>3 DEF ToSet
  <2> QED  BY <1>1, <1>2, <1>3, <2>1 DEF ToSet
<1> QED  BY <1>4, <1>5, <1>6

LEMMA JoinedCopies ==
  ASSUME NEW ls \in Seq(Nat), NEW leading \in Occurrences, NEW trailing \in Occurrences,
         IsPlaced(leading, ls), IsPlaced(trailing, ls), CanPair(leading, trailing)
  PROVE  LET joined == Joined(leading, trailing)
         IN  /\ joined \in Occurrences /\ IsPlaced(joined, ls)
             /\ joined.start = leading.start /\ joined.end = trailing.end
             /\ ~joined.shared /\ ~joined.nested
             /\ Tokens(joined) = Tokens(leading) \cup Tokens(trailing)
<1> DEFINE joined == Joined(leading, trailing)
           a == leading.start  b == leading.end  c == trailing.start  d == trailing.end
           s == leading.segments  t == trailing.segments
<1>1. /\ leading \in OccurrenceType /\ trailing \in OccurrenceType
      /\ a \in Nat /\ b \in Nat /\ c \in Nat /\ d \in Nat /\ a < b /\ c < d
      /\ s \in Seq(Nat \X Nat) /\ t \in Seq(Nat \X Nat)
      /\ leading.size \in Nat /\ trailing.size \in Nat /\ leading.file \in Nat
  BY OccurrenceFields
<1>2. b <= c
  BY DEF CanPair
<1>3. a < d
  <2> HIDE DEF a, b, c, d
  <2> QED  BY <1>1, <1>2
<1>4. joined = [leading EXCEPT !.end = d, !.size = leading.size + trailing.size, !.segments = s \o t,
                              !.shared = FALSE, !.nested = FALSE]
  BY <1>1 DEF Joined, OccurrenceType
<1>5. s \o t \in Seq(Nat \X Nat) /\ leading.size + trailing.size \in Nat
  BY <1>1
<1> HIDE DEF joined, a, b, c, d, s, t
<1>6. /\ joined.file = leading.file /\ joined.start = a /\ joined.end = d /\ joined.segments = s \o t
      /\ ~joined.shared /\ ~joined.nested
  <2>1. joined.file = leading.file /\ joined.start = a /\ joined.end = d /\ joined.segments = s \o t
    BY <1>1, <1>4 DEF OccurrenceType, a
  <2>2. ~joined.shared /\ ~joined.nested
    BY <1>1, <1>4 DEF OccurrenceType
  <2> QED  BY <2>1, <2>2
<1>7. joined \in Occurrences
  <2>1. joined \in OccurrenceType
    BY <1>1, <1>4, <1>5 DEF OccurrenceType
  <2> QED  BY <1>3, <1>6, <2>1 DEF Occurrences
<1>8. ToSet(s \o t) = ToSet(s) \cup ToSet(t)
  BY <1>1, ConcatenationHolds
<1>9. Tokens(joined) = Tokens(leading) \cup Tokens(trailing)
  <2>1. /\ Tokens(joined) = UNION {x[1]..(x[2] - 1) : x \in ToSet(s \o t)}
        /\ Tokens(leading) = UNION {x[1]..(x[2] - 1) : x \in ToSet(s)}
        /\ Tokens(trailing) = UNION {x[1]..(x[2] - 1) : x \in ToSet(t)}
    BY <1>6 DEF Tokens, s, t
  <2> QED  BY <1>8, <2>1, Zenon
<1>10. IsPlaced(joined, ls)
  <2>1. trailing.file = leading.file
    BY PairsStayInTheirFile
  <2>2. /\ leading.file \in 1..Len(ls) /\ TokenOffsets(ls)[leading.file] <= a
        /\ d <= TokenOffsets(ls)[leading.file] + ls[leading.file]
    BY <2>1 DEF IsPlaced, a, d
  <2>3. Tokens(leading) \subseteq a..(b - 1) /\ Tokens(trailing) \subseteq c..(d - 1)
    BY DEF IsPlaced, a, b, c, d
  <2>4. a..(b - 1) \subseteq a..(d - 1) /\ c..(d - 1) \subseteq a..(d - 1)
    BY <1>1, <1>2
  <2>5. Tokens(joined) \subseteq a..(d - 1)
    BY <1>9, <2>3, <2>4
  <2> QED  BY <1>6, <2>2, <2>5 DEF IsPlaced
<1> QED  BY <1>6, <1>7, <1>9, <1>10 DEF joined, a, d

-----------------------------------------------------------------------------
(* What a merge puts in the place of two groups.                           *)

LEMMA MarkedCopies ==
  ASSUME NEW ls, NEW o \in Occurrences, IsPlaced(o, ls)
  PROVE  LET marked == [o EXCEPT !.shared = TRUE]
         IN  /\ marked \in Occurrences /\ IsPlaced(marked, ls) /\ marked.shared
             /\ marked.file = o.file /\ marked.start = o.start /\ marked.end = o.end
             /\ marked.nested = o.nested /\ Tokens(marked) = Tokens(o)
<1> DEFINE marked == [o EXCEPT !.shared = TRUE]
<1>1. o \in OccurrenceType /\ o.start < o.end
  BY OccurrenceFields
<1>2. marked \in OccurrenceType
  BY <1>1 DEF OccurrenceType
<1>3. /\ marked.file = o.file /\ marked.start = o.start /\ marked.end = o.end
      /\ marked.segments = o.segments /\ marked.nested = o.nested
  BY <1>1 DEF OccurrenceType
<1>4. marked.shared
  BY <1>1 DEF OccurrenceType
<1> HIDE DEF marked
<1>5. marked \in Occurrences
  BY <1>1, <1>2, <1>3 DEF Occurrences
<1>6. Tokens(marked) = Tokens(o)
  BY <1>3 DEF Tokens
<1>7. IsPlaced(marked, ls)
  BY <1>3, <1>4, <1>6 DEF IsPlaced
<1> QED  BY <1>3, <1>4, <1>5, <1>6, <1>7 DEF marked

LEMMA RetainedGroups ==
  ASSUME NEW g, NEW ls, NEW span, IsSoundGroup(g, ls, span), NEW P
  PROVE  LET retained == Retained(g, P)
         IN  /\ IsSoundGroup(retained, ls, span) /\ Len(retained) = Len(g)
             /\ \A i \in 1..Len(g) : /\ Tokens(retained[i]) = Tokens(g[i])
                                     /\ ~retained[i].shared => ~g[i].shared /\ i \notin P
                                     /\ ~retained[i].nested => ~g[i].nested
<1> DEFINE retained == Retained(g, P)
           marked(i) == [g[i] EXCEPT !.shared = TRUE]
<1>1. g \in Seq(Occurrences) /\ DOMAIN g = 1..Len(g) /\ Len(g) \in Nat /\ Len(g) >= 2
  BY DEF IsSoundGroup
<1>2. retained = [i \in 1..Len(g) |-> IF i \in P THEN marked(i) ELSE g[i]]
  BY <1>1 DEF Retained
<1>3. ASSUME NEW i \in 1..Len(g)
      PROVE  /\ retained[i] \in Occurrences /\ IsPlaced(retained[i], ls)
             /\ retained[i].file = g[i].file /\ retained[i].start = g[i].start
             /\ retained[i].end = g[i].end /\ retained[i].nested = g[i].nested
             /\ Tokens(retained[i]) = Tokens(g[i])
             /\ ~retained[i].shared => ~g[i].shared /\ i \notin P
  <2>1. g[i] \in Occurrences /\ IsPlaced(g[i], ls)
    BY <1>1 DEF IsSoundGroup
  <2>2. CASE i \in P
    <3>1. retained[i] = marked(i)
      BY <1>2, <2>2
    <3> HIDE DEF retained
    <3> QED  BY <2>1, <3>1, MarkedCopies
  <2>3. CASE i \notin P
    <3>1. retained[i] = g[i]
      BY <1>2, <2>3
    <3> HIDE DEF retained
    <3> QED  BY <2>1, <2>3, <3>1
  <2> QED  BY <2>2, <2>3
<1>4. retained \in Seq(Occurrences) /\ Len(retained) = Len(g)
  <2>1. \A i \in 1..Len(g) : (IF i \in P THEN marked(i) ELSE g[i]) \in Occurrences
    BY <1>2, <1>3
  <2> HIDE DEF marked
  <2> QED  BY <1>1, <1>2, <2>1
<1> HIDE DEF retained
<1>5. \A i, j \in 1..Len(g) :
        (i < j /\ ~retained[i].nested /\ ~retained[j].nested) => retained[i].end <= retained[j].start
  <2> TAKE i, j \in 1..Len(g)
  <2>1. /\ retained[i].nested = g[i].nested /\ retained[j].nested = g[j].nested
        /\ retained[i].end = g[i].end /\ retained[j].start = g[j].start
    BY <1>3
  <2> QED  BY <2>1 DEF IsSoundGroup
<1>6. span => \E i, j \in 1..Len(g) : retained[i].file # retained[j].file
  BY <1>3 DEF IsSoundGroup
<1>7. IsSoundGroup(retained, ls, span)
  BY <1>1, <1>3, <1>4, <1>5, <1>6 DEF IsSoundGroup
<1> QED  BY <1>3, <1>4, <1>7 DEF retained

AreMerged(ls, first, second, pairs, merged) ==
  /\ merged \in Seq(Occurrences) /\ Len(merged) = Len(pairs)
  /\ \A k \in 1..Len(pairs) :
       /\ IsPlaced(merged[k], ls)
       /\ ~merged[k].shared /\ ~merged[k].nested
       /\ Tokens(merged[k]) = Tokens(first[pairs[k][1]]) \cup Tokens(second[pairs[k][2]])
  /\ (Len(pairs) >= 2 /\ Reportable(merged)) => IsSoundGroup(merged, ls, spanFiles)

LEMMA MergedGroups ==
  ASSUME NEW ls \in Seq(Nat), NEW first, NEW second,
         IsSoundGroup(first, ls, spanFiles), IsSoundGroup(second, ls, spanFiles),
         NEW pairs, ArePaired(first, second, pairs)
  PROVE  AreMerged(ls, first, second, pairs, Merged(first, second, pairs))
<1> DEFINE merged == Merged(first, second, pairs)
<1>1. /\ pairs \in Seq(Nat \X Nat) /\ Len(pairs) \in Nat /\ DOMAIN pairs = 1..Len(pairs)
      /\ \A k \in 1..Len(pairs) :
           /\ pairs[k][1] \in 1..Len(first) /\ pairs[k][2] \in 1..Len(second)
           /\ CanPair(first[pairs[k][1]], second[pairs[k][2]])
  BY DEF ArePaired
<1>2. merged = [k \in 1..Len(pairs) |-> Joined(first[pairs[k][1]], second[pairs[k][2]])]
  BY <1>1 DEF Merged
<1>3. ASSUME NEW k \in 1..Len(pairs)
      PROVE  /\ merged[k] \in Occurrences /\ IsPlaced(merged[k], ls)
             /\ merged[k].start = first[pairs[k][1]].start /\ merged[k].end = second[pairs[k][2]].end
             /\ ~merged[k].shared /\ ~merged[k].nested
             /\ Tokens(merged[k]) = Tokens(first[pairs[k][1]]) \cup Tokens(second[pairs[k][2]])
  <2> DEFINE leading == first[pairs[k][1]]  trailing == second[pairs[k][2]]
  <2>1. /\ leading \in Occurrences /\ IsPlaced(leading, ls)
        /\ trailing \in Occurrences /\ IsPlaced(trailing, ls) /\ CanPair(leading, trailing)
    BY <1>1 DEF IsSoundGroup
  <2>2. merged[k] = Joined(leading, trailing)
    BY <1>2
  <2> HIDE DEF merged, leading, trailing
  <2>3. /\ merged[k] \in Occurrences /\ IsPlaced(merged[k], ls)
        /\ merged[k].start = leading.start /\ merged[k].end = trailing.end
        /\ ~merged[k].shared /\ ~merged[k].nested
        /\ Tokens(merged[k]) = Tokens(leading) \cup Tokens(trailing)
    BY <2>1, <2>2, JoinedCopies
  <2> QED  BY <2>3 DEF leading, trailing
<1>4. merged \in Seq(Occurrences) /\ Len(merged) = Len(pairs)
  <2>1. \A k \in 1..Len(pairs) : Joined(first[pairs[k][1]], second[pairs[k][2]]) \in Occurrences
    BY <1>2, <1>3
  <2> QED  BY <1>1, <1>2, <2>1
<1> HIDE DEF merged
<1>5. \A k, l \in 1..Len(pairs) : k < l => merged[k].end <= merged[l].start
  BY <1>3 DEF ArePaired
<1>6. ASSUME Reportable(merged)
      PROVE  spanFiles => \E k, l \in 1..Len(pairs) : merged[k].file # merged[l].file
  <2>1. DOMAIN merged = 1..Len(pairs)
    BY <1>4
  <2> QED  BY <1>6, <2>1 DEF Reportable, ToSet
<1>7. ASSUME Len(pairs) >= 2, Reportable(merged) PROVE IsSoundGroup(merged, ls, spanFiles)
  BY <1>3, <1>4, <1>5, <1>6, <1>7 DEF IsSoundGroup
<1>8. AreMerged(ls, first, second, pairs, merged)
  BY <1>3, <1>4, <1>7 DEF AreMerged
<1> QED  BY <1>8 DEF merged

-----------------------------------------------------------------------------
(* Nothing is counted twice between them.                                  *)

LEMMA RetainedStaysApart ==
  ASSUME NEW g, NEW ls, NEW span, IsSoundGroup(g, ls, span), NEW P, NEW h, CountedApart(g, h)
  PROVE  CountedApart(Retained(g, P), h)
<1> DEFINE retained == Retained(g, P)
<1>1. /\ Len(retained) = Len(g)
      /\ \A i \in 1..Len(g) : /\ Tokens(retained[i]) = Tokens(g[i])
                              /\ ~retained[i].shared => ~g[i].shared
  BY RetainedGroups
<1> HIDE DEF retained
<1>2. CountedApart(retained, h)
  BY <1>1 DEF CountedApart
<1> QED  BY <1>2 DEF retained

LEMMA MergedStaysApart ==
  ASSUME NEW ls \in Seq(Nat), NEW first, NEW second,
         IsSoundGroup(first, ls, spanFiles), IsSoundGroup(second, ls, spanFiles),
         NEW pairs, ArePaired(first, second, pairs),
         NEW h, CountedApart(first, h), CountedApart(second, h)
  PROVE  CountedApart(Merged(first, second, pairs), h)
<1> DEFINE merged == Merged(first, second, pairs)
<1>1. /\ Len(merged) = Len(pairs)
      /\ \A k \in 1..Len(pairs) :
           Tokens(merged[k]) = Tokens(first[pairs[k][1]]) \cup Tokens(second[pairs[k][2]])
  <2>1. AreMerged(ls, first, second, pairs, merged)
    BY MergedGroups
  <2> QED  BY <2>1 DEF AreMerged
<1>2. \A k \in 1..Len(pairs) :
        /\ pairs[k][1] \in 1..Len(first) /\ pairs[k][2] \in 1..Len(second)
        /\ ~first[pairs[k][1]].shared /\ ~second[pairs[k][2]].shared
  BY DEF ArePaired, CanPair, Pairable
<1> HIDE DEF merged
<1>3. ASSUME NEW k \in 1..Len(merged), NEW j \in 1..Len(h), ~h[j].shared
      PROVE  Tokens(merged[k]) \cap Tokens(h[j]) = {}
  <2>1. k \in 1..Len(pairs)
    BY <1>1
  <2>2. /\ Tokens(first[pairs[k][1]]) \cap Tokens(h[j]) = {}
        /\ Tokens(second[pairs[k][2]]) \cap Tokens(h[j]) = {}
    BY <1>2, <1>3, <2>1 DEF CountedApart
  <2> QED  BY <1>1, <2>1, <2>2
<1>4. CountedApart(merged, h)
  BY <1>3 DEF CountedApart
<1> QED  BY <1>4 DEF merged

Leadings(pairs)  == {pairs[k][1] : k \in DOMAIN pairs}
Trailings(pairs) == {pairs[k][2] : k \in DOMAIN pairs}

(* A group that stays counts no copy that the merged group counts. *)
LEMMA MergedAndRetained ==
  ASSUME NEW ls \in Seq(Nat), NEW first, NEW second,
         IsSoundGroup(first, ls, spanFiles), IsSoundGroup(second, ls, spanFiles),
         NEW pairs, ArePaired(first, second, pairs), CountedApart(first, second)
  PROVE  /\ CountedApart(Merged(first, second, pairs), Retained(first, Leadings(pairs)))
         /\ CountedApart(Merged(first, second, pairs), Retained(second, Trailings(pairs)))
<1> DEFINE merged == Merged(first, second, pairs)
           P == Leadings(pairs)
           Q == Trailings(pairs)
           one == Retained(first, P)
           two == Retained(second, Q)
<1>1. /\ Len(merged) = Len(pairs)
      /\ \A k \in 1..Len(pairs) :
           Tokens(merged[k]) = Tokens(first[pairs[k][1]]) \cup Tokens(second[pairs[k][2]])
  <2>1. AreMerged(ls, first, second, pairs, merged)
    BY MergedGroups
  <2> QED  BY <2>1 DEF AreMerged
<1>2. \A k \in 1..Len(pairs) :
        /\ pairs[k][1] \in 1..Len(first) /\ pairs[k][2] \in 1..Len(second)
        /\ ~first[pairs[k][1]].shared /\ ~second[pairs[k][2]].shared
        /\ pairs[k][1] \in P /\ pairs[k][2] \in Q
  <2>1. DOMAIN pairs = 1..Len(pairs)
    BY DEF ArePaired
  <2> QED  BY <2>1 DEF ArePaired, CanPair, Pairable, Leadings, Trailings
<1>3. /\ Len(one) = Len(first)
      /\ \A i \in 1..Len(first) : /\ Tokens(one[i]) = Tokens(first[i])
                                  /\ ~one[i].shared => ~first[i].shared /\ i \notin P
  BY RetainedGroups
<1>4. /\ Len(two) = Len(second)
      /\ \A i \in 1..Len(second) : /\ Tokens(two[i]) = Tokens(second[i])
                                   /\ ~two[i].shared => ~second[i].shared /\ i \notin Q
  BY RetainedGroups
<1> HIDE DEF merged, P, Q, one, two
<1>5. CountedApart(merged, one)
  <2>1. ASSUME NEW k \in 1..Len(pairs), NEW i \in 1..Len(first), ~one[i].shared
        PROVE  Tokens(merged[k]) \cap Tokens(one[i]) = {}
    <3>1. ~first[i].shared /\ i # pairs[k][1]
      BY <1>2, <1>3, <2>1
    <3>2. Tokens(first[pairs[k][1]]) \cap Tokens(first[i]) = {}
      BY <1>2, <3>1, CountedApartInside
    <3>3. Tokens(second[pairs[k][2]]) \cap Tokens(first[i]) = {}
      BY <1>2, <3>1 DEF CountedApart
    <3> QED  BY <1>1, <1>3, <3>2, <3>3
  <2> QED  BY <1>1, <1>3, <2>1 DEF CountedApart
<1>6. CountedApart(merged, two)
  <2>1. ASSUME NEW k \in 1..Len(pairs), NEW i \in 1..Len(second), ~two[i].shared
        PROVE  Tokens(merged[k]) \cap Tokens(two[i]) = {}
    <3>1. ~second[i].shared /\ i # pairs[k][2]
      BY <1>2, <1>4, <2>1
    <3>2. Tokens(second[pairs[k][2]]) \cap Tokens(second[i]) = {}
      BY <1>2, <3>1, CountedApartInside
    <3>3. Tokens(first[pairs[k][1]]) \cap Tokens(second[i]) = {}
      BY <1>2, <3>1 DEF CountedApart
    <3> QED  BY <1>1, <1>4, <3>2, <3>3
  <2> QED  BY <1>1, <1>4, <2>1 DEF CountedApart
<1> QED  BY <1>5, <1>6 DEF merged, P, Q, one, two

-----------------------------------------------------------------------------
(* A merge keeps the list of groups sound.                                 *)

IsReindexed(hs, gs) ==
  \E m \in Nat : \E p \in [1..m -> 1..Len(gs)] :
    /\ hs = [k \in 1..m |-> gs[p[k]]]
    /\ \A k, l \in 1..m : p[k] = p[l] => k = l

LEMMA ReindexedIsSound ==
  ASSUME NEW gs, NEW ls, NEW span, IsSound(gs, ls, span), NEW hs, IsReindexed(hs, gs)
  PROVE  IsSound(hs, ls, span)
<1>0. PICK m \in Nat : \E p \in [1..m -> 1..Len(gs)] :
        /\ hs = [k \in 1..m |-> gs[p[k]]]
        /\ \A k, l \in 1..m : p[k] = p[l] => k = l
  BY DEF IsReindexed
<1>p. PICK p \in [1..m -> 1..Len(gs)] :
        /\ hs = [k \in 1..m |-> gs[p[k]]]
        /\ \A k, l \in 1..m : p[k] = p[l] => k = l
  BY <1>0
<1>1. \A k \in 1..m : gs[p[k]] \in Seq(Occurrences) /\ IsSoundGroup(gs[p[k]], ls, span)
  BY <1>p DEF IsSound
<1>2. hs \in Seq(Seq(Occurrences)) /\ Len(hs) = m
  BY <1>1, <1>p
<1>3. \A k, l \in 1..m : k # l => CountedApart(gs[p[k]], gs[p[l]])
  BY <1>p DEF IsSound
<1>4. \A k \in 1..m : hs[k] = gs[p[k]]
  BY <1>p
<1> QED  BY <1>1, <1>2, <1>3, <1>4 DEF IsSound

(* compareGroups on three numbers. *)
Comes(a, b, i, c, d, j) == a < c \/ (a = c /\ (b < d \/ (b = d /\ i < j)))

LEMMA ComesIsTotal ==
  ASSUME NEW a \in Nat, NEW b \in Nat, NEW i \in Nat, NEW c \in Nat, NEW d \in Nat, NEW j \in Nat
  PROVE  Comes(a, b, i, c, d, j) \/ Comes(c, d, j, a, b, i) \/ i = j
BY DEF Comes

LEMMA ComesIsTransitive ==
  ASSUME NEW a \in Nat, NEW b \in Nat, NEW i \in Nat, NEW c \in Nat, NEW d \in Nat, NEW j \in Nat,
         NEW e \in Nat, NEW f \in Nat, NEW k \in Nat,
         Comes(a, b, i, c, d, j), Comes(c, d, j, e, f, k)
  PROVE  Comes(a, b, i, e, f, k)
BY DEF Comes

(* Sorting puts every group in one place. *)
LEMMA SortedPlaces ==
  ASSUME NEW gs \in Seq(Seq(Occurrences)), \A i \in 1..Len(gs) : gs[i] # <<>>
  PROVE  \E p \in [1..Len(gs) -> 1..Len(gs)] :
           /\ SortedGroups(gs) = [k \in 1..Len(gs) |-> gs[p[k]]]
           /\ \A k, l \in 1..Len(gs) : p[k] = p[l] => k = l
           /\ \A i \in 1..Len(gs) : \E k \in 1..Len(gs) : p[k] = i
<1> DEFINE n == Len(gs)
           S == 1..n
           first(i) == Head(gs[i])
           before(i, j) ==
             \/ first(i).start < first(j).start
             \/ first(i).start = first(j).start /\ first(i).end < first(j).end
             \/ first(i).start = first(j).start /\ first(i).end = first(j).end /\ i < j
           R == {x \in S \X S : before(x[1], x[2])}
           places == Arranged(S, before)
<1>1. n \in Nat /\ DOMAIN gs = S
  OBVIOUS
<1>2. SortedGroups(gs) = [k \in S |-> gs[places[k]]]
  BY <1>1 DEF SortedGroups
<1>3. \A i \in S : first(i).start \in Nat /\ first(i).end \in Nat
  <2> TAKE i \in S
  <2>1. gs[i] \in Seq(Occurrences) /\ gs[i] # <<>>
    OBVIOUS
  <2>2. first(i) \in Occurrences
    BY <2>1
  <2> QED  BY <2>2, OccurrenceFields
<1> DEFINE place(k) == CHOOSE x \in S : Cardinality({y \in S : before(y, x)}) = k - 1
<1>4. places = [k \in 1..Cardinality(S) |-> place(k)]
  BY DEF Arranged
<1>5. IsFiniteSet(S) /\ Cardinality(S) = n
  <2> HIDE DEF n
  <2>1. 1 \in Int /\ n \in Int /\ (IF 1 > n THEN 0 ELSE n - 1 + 1) = n
    BY <1>1
  <2> QED  BY <2>1, FS_Interval
<1>6. \A i, j \in S : <<i, j>> \in R <=> before(i, j)
  OBVIOUS
<1> DEFINE a(i) == first(i).start  b(i) == first(i).end
<1>7. IsOrder(R, S)
  <2>1. \A i \in S : a(i) \in Nat /\ b(i) \in Nat /\ i \in Nat
    BY <1>1, <1>3
  <2>2. \A i, j \in S :
          <<i, j>> \in R <=> (a(i) < a(j) \/ (a(i) = a(j) /\ (b(i) < b(j) \/ (b(i) = b(j) /\ i < j))))
    BY <1>3, <1>6
  <2> HIDE DEF a, b, R, S
  <2>3. \A i \in S : <<i, i>> \notin R
    BY <2>1, <2>2
  <2>4. ASSUME NEW i \in S, NEW j \in S
        PROVE  i = j \/ <<i, j>> \in R \/ <<j, i>> \in R
    <3>1. Comes(a(i), b(i), i, a(j), b(j), j) \/ Comes(a(j), b(j), j, a(i), b(i), i) \/ i = j
      BY <2>1, ComesIsTotal
    <3> QED  BY <2>2, <3>1 DEF Comes
  <2>5. ASSUME NEW i \in S, NEW j \in S, NEW k \in S, <<i, j>> \in R, <<j, k>> \in R
        PROVE  <<i, k>> \in R
    <3>1. Comes(a(i), b(i), i, a(j), b(j), j) /\ Comes(a(j), b(j), j, a(k), b(k), k)
      BY <2>2, <2>5 DEF Comes
    <3>2. Comes(a(i), b(i), i, a(k), b(k), k)
      BY <2>1, <3>1, ComesIsTransitive
    <3> QED  BY <2>2, <3>2 DEF Comes
  <2> QED  BY <2>3, <2>4, <2>5 DEF IsOrder
<1>8. \A x \in S : Rank(R, S, x) = Cardinality({y \in S : before(y, x)})
  <2> TAKE x \in S
  <2>1. {y \in S : <<y, x>> \in R} = {y \in S : before(y, x)}
    BY <1>6
  <2> QED  BY <2>1 DEF Rank
<1> HIDE DEF before, R, S, n
<1>9. IsArrangement(places, R, S)
  <2>1. \A k \in 1..Cardinality(S) : place(k) \in S /\ Rank(R, S, place(k)) = k - 1
    <3> TAKE k \in 1..Cardinality(S)
    <3>1. \E x \in S : Rank(R, S, x) = k - 1
      BY <1>5, <1>7, RanksAreTaken
    <3>2. \E x \in S : Cardinality({y \in S : before(y, x)}) = k - 1
      BY <1>8, <3>1
    <3>3. place(k) \in S /\ Cardinality({y \in S : before(y, place(k))}) = k - 1
      BY <3>2
    <3> QED  BY <1>8, <3>3
  <2> HIDE DEF place, places
  <2>2. places \in [1..Cardinality(S) -> S]
    BY <1>4, <2>1
  <2>3. \A k \in 1..Cardinality(S) : Rank(R, S, places[k]) = k - 1
    BY <1>4, <2>1
  <2> QED  BY <1>5, <1>7, <2>2, <2>3, ArrangementOf
<1> HIDE DEF places, place
<1>10. places \in [S -> S]
  <2>1. places \in Seq(S) /\ Len(places) = n
    BY <1>5, <1>9 DEF IsArrangement
  <2>2. DOMAIN places = S
    BY <2>1 DEF S
  <2> QED  BY <2>1, <2>2
<1>11. \A k, l \in S : places[k] = places[l] => k = l
  <2>1. \A k, l \in S : k < l => places[k] # places[l]
    <3>1. \A x \in S : <<x, x>> \notin R
      BY <1>7 DEF IsOrder
    <3>2. \A k, l \in S : k < l => <<places[k], places[l]>> \in R
      BY <1>1, <1>5, <1>9 DEF IsArrangement, S
    <3> QED  BY <1>10, <3>1, <3>2
  <2>2. \A k, l \in S : k = l \/ k < l \/ l < k
    BY <1>1 DEF S
  <2> QED  BY <2>1, <2>2
<1>12. \A i \in S : \E k \in S : places[k] = i
  BY <1>1, <1>5, <1>9 DEF IsArrangement, S
<1> QED  BY <1>2, <1>10, <1>11, <1>12 DEF S, n

(* The groups that stay, their paired copies marked. *)
Staying(gs, i, j, pairs) ==
  [gs EXCEPT ![i] = Retained(gs[i], Leadings(pairs)),
             ![j] = Retained(gs[j], Trailings(pairs))]

(* All of them stay apart, also from the merged group. *)
LEMMA AllAreSound ==
  ASSUME NEW ls \in Seq(Nat), NEW gs, IsSound(gs, ls, spanFiles),
         NEW i \in 1..Len(gs), NEW j \in 1..Len(gs), i # j,
         NEW pairs, ArePaired(gs[i], gs[j], pairs), Len(pairs) >= 2,
         Reportable(Merged(gs[i], gs[j], pairs))
  PROVE  /\ Staying(gs, i, j, pairs) \in Seq(Seq(Occurrences))
         /\ Len(Staying(gs, i, j, pairs)) = Len(gs)
         /\ Merged(gs[i], gs[j], pairs) \in Seq(Occurrences)
         /\ IsSound(Append(Staying(gs, i, j, pairs), Merged(gs[i], gs[j], pairs)), ls, spanFiles)
<1> DEFINE n == Len(gs)
           P == Leadings(pairs)
           Q == Trailings(pairs)
           one == Retained(gs[i], P)
           two == Retained(gs[j], Q)
           staying == Staying(gs, i, j, pairs)
           merged == Merged(gs[i], gs[j], pairs)
           all == Append(staying, merged)
<1>1. /\ gs \in Seq(Seq(Occurrences)) /\ n \in Nat
      /\ \A k \in 1..n : gs[k] \in Seq(Occurrences) /\ IsSoundGroup(gs[k], ls, spanFiles)
      /\ \A k, l \in 1..n : k # l => CountedApart(gs[k], gs[l])
  BY DEF IsSound
<1>2. IsSoundGroup(one, ls, spanFiles) /\ IsSoundGroup(two, ls, spanFiles)
  BY <1>1, RetainedGroups
<1>3. one \in Seq(Occurrences) /\ two \in Seq(Occurrences)
  BY <1>2 DEF IsSoundGroup
<1>4. merged \in Seq(Occurrences) /\ IsSoundGroup(merged, ls, spanFiles)
  <2>1. AreMerged(ls, gs[i], gs[j], pairs, merged)
    BY <1>1, MergedGroups
  <2> QED  BY <2>1 DEF AreMerged
<1>5. staying = [gs EXCEPT ![i] = one, ![j] = two]
  BY DEF Staying
<1>6. CountedApart(merged, one) /\ CountedApart(merged, two)
  <2>1. /\ IsSoundGroup(gs[i], ls, spanFiles) /\ IsSoundGroup(gs[j], ls, spanFiles)
        /\ CountedApart(gs[i], gs[j])
    BY <1>1
  <2> QED  BY <2>1, MergedAndRetained
<1>7. \A h : CountedApart(gs[i], h) => CountedApart(one, h)
  BY <1>1, RetainedStaysApart
<1>8. \A h : CountedApart(gs[j], h) => CountedApart(two, h)
  BY <1>1, RetainedStaysApart
<1>9. \A h : CountedApart(gs[i], h) /\ CountedApart(gs[j], h) => CountedApart(merged, h)
  BY <1>1, MergedStaysApart
<1> HIDE DEF P, Q, one, two, merged, staying
<1>10. /\ staying \in Seq(Seq(Occurrences)) /\ Len(staying) = n
       /\ \A k \in 1..n : staying[k] = IF k = j THEN two ELSE IF k = i THEN one ELSE gs[k]
  BY <1>1, <1>3, <1>5, SMTT(30)
<1>11. /\ all \in Seq(Seq(Occurrences)) /\ Len(all) = n + 1
       /\ \A k \in 1..n : all[k] = staying[k]
       /\ all[n + 1] = merged
  <2>1. staying \in Seq(Seq(Occurrences)) /\ merged \in Seq(Occurrences) /\ Len(staying) = n /\ n \in Nat
    BY <1>1, <1>4, <1>10
  <2> HIDE DEF n
  <2>2. all \in Seq(Seq(Occurrences)) /\ Len(all) = n + 1
    BY <2>1
  <2>3. \A k \in 1..n : all[k] = staying[k]
    BY <2>1
  <2>4. all[Len(staying) + 1] = merged
    BY <2>1
  <2> QED  BY <2>1, <2>2, <2>3, <2>4
<1>12. \A k \in 1..n : IsSoundGroup(staying[k], ls, spanFiles)
  BY <1>1, <1>2, <1>10
<1>13. \A k \in 1..n : CountedApart(merged, staying[k])
  <2> TAKE k \in 1..n
  <2>1. CASE k = i
    BY <1>6, <1>10, <2>1
  <2>2. CASE k = j
    BY <1>6, <1>10, <2>2
  <2>3. CASE k # i /\ k # j
    <3>1. CountedApart(gs[i], gs[k]) /\ CountedApart(gs[j], gs[k])
      BY <1>1, <2>3
    <3> QED  BY <1>9, <1>10, <2>3, <3>1
  <2> QED  BY <2>1, <2>2, <2>3
<1>14. \A k \in 1..n : \A h : CountedApart(gs[k], h) => CountedApart(staying[k], h)
  BY <1>7, <1>8, <1>10
<1>15. \A k, l \in 1..n : k # l => CountedApart(staying[k], staying[l])
  <2> SUFFICES ASSUME NEW k \in 1..n, NEW l \in 1..n, k # l
               PROVE  CountedApart(staying[k], staying[l])
    OBVIOUS
  <2>1. CountedApart(staying[k], gs[l])
    BY <1>1, <1>14
  <2>2. CountedApart(gs[l], staying[k])
    BY <2>1, CountedApartEitherWay
  <2>3. CountedApart(staying[l], staying[k])
    BY <1>14, <2>2
  <2> QED  BY <2>3, CountedApartEitherWay
<1> HIDE DEF all, n
<1>16. \A k \in 1..(n + 1) : k \in 1..n \/ k = n + 1
  BY <1>1
<1>17. \A k \in 1..(n + 1) : IsSoundGroup(all[k], ls, spanFiles)
  BY <1>4, <1>11, <1>12, <1>16
<1>18. \A k, l \in 1..(n + 1) : k # l => CountedApart(all[k], all[l])
  <2> SUFFICES ASSUME NEW k \in 1..(n + 1), NEW l \in 1..(n + 1), k # l
               PROVE  CountedApart(all[k], all[l])
    OBVIOUS
  <2>1. CASE k \in 1..n /\ l \in 1..n
    BY <1>11, <1>15, <2>1
  <2>2. CASE k = n + 1 /\ l \in 1..n
    BY <1>11, <1>13, <2>2
  <2>3. CASE k \in 1..n /\ l = n + 1
    <3>1. CountedApart(merged, staying[k])
      BY <1>13, <2>3
    <3>2. CountedApart(staying[k], merged)
      BY <3>1, CountedApartEitherWay
    <3> QED  BY <1>11, <2>3, <3>2
  <2> QED  BY <1>16, <2>1, <2>2, <2>3
<1>19. IsSound(all, ls, spanFiles)
  BY <1>11, <1>17, <1>18 DEF IsSound
<1> QED  BY <1>4, <1>10, <1>19 DEF all, n, staying, merged

LEMMA RemovedIs ==
  ASSUME NEW S, NEW s \in Seq(S), NEW i \in 1..Len(s)
  PROVE  RemoveAt(s, i) = [k \in 1..(Len(s) - 1) |-> IF k < i THEN s[k] ELSE s[k + 1]]
<1> DEFINE n == Len(s)
           a == SubSeq(s, 1, i - 1)
           b == SubSeq(s, i + 1, n)
<1>1. n \in Nat /\ i \in 1..n
  OBVIOUS
<1>2. a \in Seq(S) /\ Len(a) = i - 1 /\ \A k \in 1..(i - 1) : a[k] = s[k]
  OBVIOUS
<1>3. b \in Seq(S) /\ Len(b) = n - i /\ \A k \in 1..(n - i) : b[k] = s[k + i]
  <2>1. b \in Seq(S)
    OBVIOUS
  <2>2. Len(b) = n - i
    OBVIOUS
  <2>3. ASSUME NEW k \in 1..(n - i) PROVE b[k] = s[k + i]
    <3>1. b[k] = s[i + 1 + k - 1]
      BY <2>2
    <3>2. i + 1 + k - 1 = k + i
      BY <1>1
    <3> QED  BY <3>1, <3>2
  <2> QED  BY <2>1, <2>2, <2>3
<1>4. RemoveAt(s, i) = a \o b
  BY DEF RemoveAt
<1> HIDE DEF n, a, b
<1>5. a \o b \in Seq(S) /\ Len(a \o b) = n - 1
  <2>1. a \o b \in Seq(S) /\ Len(a \o b) = Len(a) + Len(b)
    <3>1. a \in Seq(S) /\ b \in Seq(S)
      BY <1>2, <1>3
    <3> QED  BY <3>1
  <2>2. (i - 1) + (n - i) = n - 1
    BY <1>1
  <2> QED  BY <1>2, <1>3, <2>1, <2>2
<1>6. \A k \in 1..(n - 1) : (a \o b)[k] = IF k < i THEN s[k] ELSE s[k + 1]
  <2> TAKE k \in 1..(n - 1)
  <2>1. CASE k < i
    <3>1. k \in 1..Len(a) /\ k \in 1..(i - 1)
      BY <1>1, <1>2, <2>1
    <3>2. (a \o b)[k] = a[k]
      BY <1>2, <1>3, <3>1
    <3> QED  BY <1>2, <2>1, <3>1, <3>2
  <2>2. CASE ~(k < i)
    <3> DEFINE l == k - (i - 1)
    <3>1. l \in 1..(n - i) /\ (i - 1) + l = k /\ l + i = k + 1
      BY <1>1, <2>2
    <3> HIDE DEF l
    <3>2. (a \o b)[Len(a) + l] = b[l]
      BY <1>2, <1>3, <3>1
    <3> QED  BY <1>2, <1>3, <2>2, <3>1, <3>2
  <2> QED  BY <2>1, <2>2
<1>7. a \o b = [k \in 1..(n - 1) |-> (a \o b)[k]]
  <2> DEFINE c == a \o b
  <2>1. c \in Seq(S) /\ Len(c) = n - 1
    BY <1>5
  <2> HIDE DEF c
  <2>2. c = [k \in 1..(n - 1) |-> c[k]]
    BY <2>1
  <2> QED  BY <2>2 DEF c
<1> QED  BY <1>4, <1>6, <1>7 DEF n

LEMMA MergeablePairs ==
  ASSUME NEW ls, NEW first, NEW second,
         IsSoundGroup(first, ls, spanFiles), IsSoundGroup(second, ls, spanFiles),
         Mergeable(first, second)
  PROVE  /\ ArePaired(first, second, Pairs(first, second))
         /\ Len(Pairs(first, second)) >= 2
         /\ Reportable(Merged(first, second, Pairs(first, second)))
<1>1. first \in Seq(Occurrences) /\ second \in Seq(Occurrences)
  BY DEF IsSoundGroup
<1> QED  BY <1>1, PairsAre DEF Mergeable

(* What is left to sort are all the groups but those that are replaced. *)
Gone(gs, i, j, pairs) ==
  {k \in {i} : Replaced(gs[i], pairs)} \cup {k \in {j} : Replaced(gs[j], pairs)}

AreLeft(hs, all, gone) ==
  /\ IsReindexed(hs, all)
  /\ \A k \in 1..Len(all) : k \notin gone => \E m \in 1..Len(hs) : hs[m] = all[k]

All(gs, i, j, pairs) == Append(Staying(gs, i, j, pairs), Merged(gs[i], gs[j], pairs))

LEMMA ReindexedTwice ==
  ASSUME NEW fs, NEW gs, NEW hs, IsReindexed(fs, gs), IsReindexed(gs, hs)
  PROVE  IsReindexed(fs, hs)
<1>1. PICK m \in Nat : \E p \in [1..m -> 1..Len(gs)] :
        /\ fs = [k \in 1..m |-> gs[p[k]]]
        /\ \A k, l \in 1..m : p[k] = p[l] => k = l
  BY DEF IsReindexed
<1>2. PICK p \in [1..m -> 1..Len(gs)] :
        /\ fs = [k \in 1..m |-> gs[p[k]]]
        /\ \A k, l \in 1..m : p[k] = p[l] => k = l
  BY <1>1
<1>3. PICK n \in Nat : \E q \in [1..n -> 1..Len(hs)] :
        /\ gs = [k \in 1..n |-> hs[q[k]]]
        /\ \A k, l \in 1..n : q[k] = q[l] => k = l
  BY DEF IsReindexed
<1>4. PICK q \in [1..n -> 1..Len(hs)] :
        /\ gs = [k \in 1..n |-> hs[q[k]]]
        /\ \A k, l \in 1..n : q[k] = q[l] => k = l
  BY <1>3
<1>5. Len(gs) = n
  BY <1>4
<1> DEFINE r == [k \in 1..m |-> q[p[k]]]
<1>6. \A k \in 1..m : p[k] \in 1..n
  BY <1>2, <1>5
<1>7. r \in [1..m -> 1..Len(hs)] /\ \A k \in 1..m : r[k] = q[p[k]]
  BY <1>4, <1>6
<1> HIDE DEF r
<1>8. \A k, l \in 1..m : r[k] = r[l] => k = l
  BY <1>2, <1>4, <1>6, <1>7
<1>9. \A k \in 1..m : gs[p[k]] = hs[r[k]]
  BY <1>4, <1>6, <1>7
<1>10. fs = [k \in 1..m |-> hs[r[k]]]
  BY <1>2, <1>9
<1> QED  BY <1>7, <1>8, <1>10 DEF IsReindexed

LEMMA SortedAreLeft ==
  ASSUME NEW gs, NEW ls, NEW span, IsSound(gs, ls, span)
  PROVE  AreLeft(SortedGroups(gs), gs, {})
<1> DEFINE hs == SortedGroups(gs)
<1>1. gs \in Seq(Seq(Occurrences)) /\ Len(gs) \in Nat
  BY DEF IsSound
<1>2. \A i \in 1..Len(gs) : gs[i] # <<>>
  <2> TAKE i \in 1..Len(gs)
  <2>1. Len(gs[i]) >= 2
    BY DEF IsSound, IsSoundGroup
  <2> QED  BY <2>1
<1>3. PICK p \in [1..Len(gs) -> 1..Len(gs)] :
        /\ hs = [k \in 1..Len(gs) |-> gs[p[k]]]
        /\ \A k, l \in 1..Len(gs) : p[k] = p[l] => k = l
        /\ \A i \in 1..Len(gs) : \E k \in 1..Len(gs) : p[k] = i
  BY <1>1, <1>2, SortedPlaces
<1> HIDE DEF hs
<1>4. IsReindexed(hs, gs)
  BY <1>1, <1>3 DEF IsReindexed
<1>5. Len(hs) = Len(gs)
  BY <1>1, <1>3
<1>6. \A i \in 1..Len(gs) : \E k \in 1..Len(hs) : hs[k] = gs[i]
  <2> TAKE i \in 1..Len(gs)
  <2>1. PICK k \in 1..Len(gs) : p[k] = i
    BY <1>3
  <2>2. hs[k] = gs[i]
    BY <1>3, <2>1
  <2> QED  BY <1>5, <2>1, <2>2
<1>7. AreLeft(hs, gs, {})
  BY <1>4, <1>6 DEF AreLeft
<1> QED  BY <1>7 DEF hs

LEMMA SortedIsSound ==
  ASSUME NEW gs, NEW ls, NEW span, IsSound(gs, ls, span)
  PROVE  IsSound(SortedGroups(gs), ls, span)
<1>1. AreLeft(SortedGroups(gs), gs, {})
  BY SortedAreLeft
<1> QED  BY <1>1, ReindexedIsSound DEF AreLeft

LEMMA LeftAndSorted ==
  ASSUME NEW hs, NEW all, NEW gone, AreLeft(hs, all, gone),
         NEW ls, NEW span, IsSound(all, ls, span)
  PROVE  AreLeft(SortedGroups(hs), all, gone)
<1>1. IsSound(hs, ls, span)
  BY ReindexedIsSound DEF AreLeft
<1>2. AreLeft(SortedGroups(hs), hs, {})
  BY <1>1, SortedAreLeft
<1>3. IsReindexed(SortedGroups(hs), all)
  BY <1>2, ReindexedTwice DEF AreLeft
<1>4. \A m \in 1..Len(hs) : \E l \in 1..Len(SortedGroups(hs)) : SortedGroups(hs)[l] = hs[m]
  BY <1>2 DEF AreLeft
<1>5. ASSUME NEW k \in 1..Len(all), k \notin gone
      PROVE  \E l \in 1..Len(SortedGroups(hs)) : SortedGroups(hs)[l] = all[k]
  <2>1. PICK m \in 1..Len(hs) : hs[m] = all[k]
    BY <1>5 DEF AreLeft
  <2> QED  BY <1>4, <2>1
<1> QED  BY <1>3, <1>5 DEF AreLeft

LEMMA AfterMergeIs ==
  ASSUME NEW ls \in Seq(Nat), IsSound(groups, ls, spanFiles),
         NEW i \in 1..Len(groups), NEW j \in 1..Len(groups), i # j,
         Mergeable(groups[i], groups[j]),
         NEW pairs, pairs = Pairs(groups[i], groups[j])
  PROVE  /\ AreLeft(AfterMerge(i, j), All(groups, i, j, pairs), Gone(groups, i, j, pairs))
         /\ IsSound(All(groups, i, j, pairs), ls, spanFiles)
<1> DEFINE n == Len(groups)
           merged == Merged(groups[i], groups[j], pairs)
           staying == Staying(groups, i, j, pairs)
           all == Append(staying, merged)
           gone == {k \in {i} : Replaced(groups[i], pairs)} \cup {k \in {j} : Replaced(groups[j], pairs)}
           place == IF gone = {} THEN n + 1 ELSE CHOOSE k \in gone : \A m \in gone : k <= m
           placed == IF gone = {} THEN all ELSE [staying EXCEPT ![place] = merged]
           other == CHOOSE k \in gone : k # place
           left == IF Cardinality(gone) = 2 THEN RemoveAt(placed, other) ELSE placed
<1>1. AfterMerge(i, j) = SortedGroups(left)
  BY DEF AfterMerge, Staying, Leadings, Trailings
<1>2. /\ IsSoundGroup(groups[i], ls, spanFiles) /\ IsSoundGroup(groups[j], ls, spanFiles)
      /\ n \in Nat
  BY DEF IsSound
<1>3. /\ ArePaired(groups[i], groups[j], pairs) /\ Len(pairs) >= 2
      /\ Reportable(Merged(groups[i], groups[j], pairs))
  BY <1>2, MergeablePairs
<1>4. /\ staying \in Seq(Seq(Occurrences)) /\ Len(staying) = n
      /\ merged \in Seq(Occurrences) /\ IsSound(all, ls, spanFiles)
  BY <1>3, AllAreSound
<1>5. gone \subseteq 1..n /\ gone \subseteq Nat
  OBVIOUS
<1> SUFFICES AreLeft(left, all, gone)
  <2>1. all = All(groups, i, j, pairs) /\ gone = Gone(groups, i, j, pairs)
    BY DEF All, Gone
  <2> HIDE DEF left, all, gone
  <2> QED  BY <1>1, <1>4, <2>1, LeftAndSorted
<1> HIDE DEF n, merged, staying, gone
<1>6. gone # {} => place \in gone
  BY <1>5, LeastOf
<1>7. /\ all \in Seq(Seq(Occurrences)) /\ Len(all) = n + 1
      /\ \A k \in 1..n : all[k] = staying[k]
      /\ all[n + 1] = merged
  <2>1. all \in Seq(Seq(Occurrences)) /\ Len(all) = n + 1
    BY <1>2, <1>4
  <2>2. \A k \in 1..n : all[k] = staying[k]
    BY <1>2, <1>4
  <2>3. all[Len(staying) + 1] = merged
    BY <1>4
  <2> QED  BY <1>4, <2>1, <2>2, <2>3
<1> HIDE DEF all
<1>8. CASE gone = {}
  <2>1. left = all
    BY <1>8, FS_EmptySet
  <2> DEFINE p == [k \in 1..(n + 1) |-> k]
  <2>2. all = [k \in 1..(n + 1) |-> all[p[k]]]
    BY <1>7
  <2>3. n + 1 \in Nat /\ p \in [1..(n + 1) -> 1..Len(all)] /\ \A k, l \in 1..(n + 1) : p[k] = p[l] => k = l
    BY <1>2, <1>7
  <2> HIDE DEF p
  <2>4. IsReindexed(all, all)
    BY <2>2, <2>3 DEF IsReindexed
  <2>5. AreLeft(all, all, gone)
    BY <2>4 DEF AreLeft
  <2> HIDE DEF left
  <2> QED  BY <2>1, <2>5
<1>9. CASE gone # {}
  <2>1. place \in 1..n /\ place \in gone
    BY <1>5, <1>6, <1>9
  <2>2. placed = [staying EXCEPT ![place] = merged]
    BY <1>9
  <2> HIDE DEF place, placed
  <2> DEFINE at(k) == IF k = place THEN n + 1 ELSE k
  <2>3. placed \in Seq(Seq(Occurrences)) /\ Len(placed) = n
    BY <1>2, <1>4, <2>1, <2>2
  <2>4. \A k \in 1..n : placed[k] = all[at(k)]
    BY <1>2, <1>4, <1>7, <2>1, <2>2
  <2>5. \A k \in 1..n : at(k) \in 1..(n + 1)
    BY <1>2
  <2>6. \A k, l \in 1..n : at(k) = at(l) => k = l
    BY <1>2
  <2>7. \A k \in 1..(n + 1) : k \notin gone => \E m \in 1..n : (m = place \/ m \notin gone) /\ placed[m] = all[k]
    <3> SUFFICES ASSUME NEW k \in 1..(n + 1), k \notin gone
                 PROVE  \E m \in 1..n : (m = place \/ m \notin gone) /\ placed[m] = all[k]
      OBVIOUS
    <3>1. CASE k = n + 1
      <4>1. placed[place] = all[k]
        BY <2>1, <2>4, <3>1
      <4> QED  BY <2>1, <4>1
    <3>2. CASE k # n + 1
      <4>1. k \in 1..n /\ k # place
        BY <1>2, <2>1, <3>2
      <4>2. placed[k] = all[k]
        BY <2>4, <4>1
      <4> QED  BY <4>1, <4>2
    <3> QED  BY <3>1, <3>2
  <2>8. CASE Cardinality(gone) # 2
    <3>1. left = placed
      BY <2>8
    <3> DEFINE p == [k \in 1..n |-> at(k)]
    <3> HIDE DEF at
    <3>2. \A k \in 1..n : p[k] = at(k)
      OBVIOUS
    <3>3. p \in [1..n -> 1..Len(all)] /\ \A k, l \in 1..n : p[k] = p[l] => k = l
      BY <1>7, <2>5, <2>6
    <3> HIDE DEF p
    <3>4. placed = [k \in 1..n |-> all[p[k]]]
      <4>1. placed = [k \in 1..n |-> placed[k]]
        BY <2>3
      <4> QED  BY <2>4, <3>2, <4>1
    <3>5. IsReindexed(placed, all)
      BY <1>2, <3>3, <3>4 DEF IsReindexed
    <3>6. AreLeft(placed, all, gone)
      BY <1>7, <2>3, <2>7, <3>5 DEF AreLeft
    <3> HIDE DEF left
    <3> QED  BY <3>1, <3>6
  <2>9. CASE Cardinality(gone) = 2
    <3>1. \E k \in gone : k # place
      <4>1. ASSUME ~\E k \in gone : k # place PROVE FALSE
        <5>1. gone = {place}
          BY <2>1, <4>1
        <5>2. Cardinality(gone) = 1
          BY <5>1, FS_Singleton
        <5> QED  BY <2>9, <5>2
      <4> QED  BY <4>1
    <3>2. other \in 1..n /\ other \in gone /\ other # place
      BY <1>5, <3>1
    <3>3. left = RemoveAt(placed, other)
      BY <2>9
    <3> HIDE DEF other, left
    <3> DEFINE next(k) == IF k < other THEN k ELSE k + 1
               p == [k \in 1..(n - 1) |-> at(next(k))]
               hs == RemoveAt(placed, other)
    <3>4. n - 1 \in Nat
      BY <1>2, <3>2
    <3>5. \A k \in 1..(n - 1) : next(k) \in 1..n
      BY <1>2, <3>2
    <3>6. \A k, l \in 1..(n - 1) : next(k) = next(l) => k = l
      BY <1>2, <3>2
    <3>7. hs = [k \in 1..(n - 1) |-> IF k < other THEN placed[k] ELSE placed[k + 1]]
      BY <2>3, <3>2, RemovedIs
    <3> HIDE DEF hs
    <3>8. hs = [k \in 1..(n - 1) |-> placed[next(k)]]
      BY <3>7
    <3>9. \A m \in 1..n : m # other => \E k \in 1..(n - 1) : next(k) = m
      <4> SUFFICES ASSUME NEW m \in 1..n, m # other PROVE \E k \in 1..(n - 1) : next(k) = m
        OBVIOUS
      <4>1. CASE m < other
        <5>1. m \in 1..(n - 1) /\ next(m) = m
          BY <1>2, <3>2, <4>1
        <5> QED  BY <5>1
      <4>2. CASE ~(m < other)
        <5>1. m - 1 \in 1..(n - 1) /\ next(m - 1) = m
          BY <1>2, <3>2, <4>2
        <5> QED  BY <5>1
      <4> QED  BY <4>1, <4>2
    <3> HIDE DEF next, at
    <3>10. \A k \in 1..(n - 1) : p[k] = at(next(k))
      OBVIOUS
    <3>11. p \in [1..(n - 1) -> 1..Len(all)]
      BY <1>7, <2>5, <3>5
    <3>12. \A k, l \in 1..(n - 1) : p[k] = p[l] => k = l
      BY <2>6, <3>5, <3>6, <3>10
    <3> HIDE DEF p
    <3>13. hs = [k \in 1..(n - 1) |-> all[p[k]]]
      BY <2>4, <3>5, <3>8, <3>10
    <3>14. IsReindexed(hs, all)
      BY <3>4, <3>11, <3>12, <3>13 DEF IsReindexed
    <3>15. Len(hs) = n - 1 /\ \A k \in 1..(n - 1) : hs[k] = placed[next(k)]
      BY <3>4, <3>8
    <3>16. ASSUME NEW k \in 1..Len(all), k \notin gone
           PROVE  \E m \in 1..Len(hs) : hs[m] = all[k]
      <4>1. PICK m \in 1..n : (m = place \/ m \notin gone) /\ placed[m] = all[k]
        BY <1>7, <2>7, <3>16
      <4>2. m # other
        BY <3>2, <4>1
      <4>3. PICK l \in 1..(n - 1) : next(l) = m
        BY <3>9, <4>1, <4>2
      <4> QED  BY <3>15, <4>1, <4>3
    <3>17. AreLeft(hs, all, gone)
      BY <3>14, <3>16 DEF AreLeft
    <3> QED  BY <3>3, <3>17 DEF hs
  <2> QED  BY <2>8, <2>9
<1> QED  BY <1>8, <1>9

LEMMA AfterMergeIsSound ==
  ASSUME NEW ls \in Seq(Nat), IsSound(groups, ls, spanFiles),
         NEW i \in 1..Len(groups), NEW j \in 1..Len(groups), i # j,
         Mergeable(groups[i], groups[j])
  PROVE  IsSound(AfterMerge(i, j), ls, spanFiles)
<1> DEFINE all == All(groups, i, j, Pairs(groups[i], groups[j]))
           gone == Gone(groups, i, j, Pairs(groups[i], groups[j]))
<1>1. AreLeft(AfterMerge(i, j), all, gone) /\ IsSound(all, ls, spanFiles)
  BY AfterMergeIs
<1> QED  BY <1>1, ReindexedIsSound DEF AreLeft

-----------------------------------------------------------------------------
(* The pairs the loop passes over.                                         *)

LEMMA PartnersEitherWay ==
  ASSUME NEW l, NEW r, Partners(l, r)
  PROVE  Partners(r, l)
BY DEF Partners

LEMMA MergeableArePartners ==
  ASSUME NEW ls, IsSound(groups, ls, spanFiles),
         NEW l \in DOMAIN groups, NEW r \in DOMAIN groups, Mergeable(groups[l], groups[r])
  PROVE  Partners(l, r)
<1> DEFINE first == groups[l]  second == groups[r]  pairs == Pairs(first, second)
<1>1. IsSoundGroup(first, ls, spanFiles) /\ IsSoundGroup(second, ls, spanFiles)
  <2>1. DOMAIN groups = 1..Len(groups)
    BY DEF IsSound
  <2> QED  BY <2>1 DEF IsSound
<1>2. ArePaired(first, second, pairs) /\ Len(pairs) >= 2
  BY <1>1, MergeablePairs
<1>3. first \in Seq(Occurrences) /\ second \in Seq(Occurrences)
  BY <1>1 DEF IsSoundGroup
<1> HIDE DEF pairs
<1>4. 1 \in 1..Len(pairs)
  BY <1>2 DEF ArePaired
<1> DEFINE m == pairs[1][1]  n == pairs[1][2]
<1>5. m \in 1..Len(first) /\ n \in 1..Len(second) /\ CanPair(first[m], second[n])
  BY <1>2, <1>4 DEF ArePaired
<1> HIDE DEF m, n
<1>6. /\ first[m] \in Occurrences /\ second[n] \in Occurrences
      /\ first[m] \in ToSet(first) /\ second[n] \in ToSet(second)
  BY <1>3, <1>5 DEF ToSet
<1>7. second[n].start \in first[m].end..(first[m].end + MaxGapTokens)
  <2>1. second[n].start \in Nat /\ first[m].end \in Nat /\ MaxGapTokens \in Nat
    BY <1>6, OccurrenceFields, MergingAssumption
  <2> QED  BY <1>5, <2>1 DEF CanPair
<1>8. \E o \in ToSet(first), p \in ToSet(second) : p.start \in o.end..(o.end + MaxGapTokens)
  BY <1>6, <1>7
<1> QED  BY <1>8 DEF Partners

LEMMA SkippedDoNotMerge ==
  ASSUME NEW ls, IsSound(groups, ls, spanFiles)
  PROVE  SkippedPairsDoNotMerge
BY MergeableArePartners, PartnersEitherWay DEF SkippedPairsDoNotMerge, MergesEitherWay

-----------------------------------------------------------------------------
(* What the selection hands over.                                          *)

CandidatesInv ==
  /\ lengths \in Seq(Nat) /\ IsFiniteSet(duplicates)
  /\ \A c \in duplicates :
       IsCandidate(c) /\ c.file \in 1..Len(lengths) /\ c.end <= lengths[c.file]
  /\ \A c, d \in duplicates : c.text = d.text /\ c.file = d.file /\ c.start = d.start => c = d

(* Every kept copy was counted at some point of the run. *)
OrderInv ==
  /\ order \in Seq(duplicates)
  /\ \A k \in kept : \E i \in 1..Len(order) : order[i] = k

At(c) == TokenOffsets(lengths)[c.file]

LEMMA OccurrenceOf ==
  ASSUME CandidatesInv, NEW c \in duplicates
  PROVE  /\ ToOccurrence(c) \in Occurrences /\ IsPlaced(ToOccurrence(c), lengths)
         /\ ToOccurrence(c).file = c.file
         /\ ToOccurrence(c).start = c.start + At(c) /\ ToOccurrence(c).end = c.end + At(c)
         /\ ToOccurrence(c).nested <=> c \in nested
         /\ ToOccurrence(c).shared <=> c \in nested
         /\ Tokens(ToOccurrence(c)) = ToOccurrence(c).start..(ToOccurrence(c).end - 1)
<1> DEFINE o == ToOccurrence(c)
           a == c.start + At(c)
           b == c.end + At(c)
           isNested == c \in nested
<1>1. /\ c.start \in Nat /\ c.end \in Nat /\ c.start < c.end /\ c.size \in Nat /\ c.file \in Nat
      /\ c.file \in 1..Len(lengths) /\ c.end <= lengths[c.file] /\ lengths \in Seq(Nat)
  BY DEF CandidatesInv, IsCandidate
<1>2. At(c) \in Nat /\ lengths[c.file] \in Nat
  <2>1. TokenOffsets(lengths) \in [1..Len(lengths) -> Nat]
    BY <1>1, OffsetsAre
  <2> QED  BY <1>1, <2>1 DEF At
<1>3. a \in Nat /\ b \in Nat /\ a < b /\ At(c) <= a /\ b <= At(c) + lengths[c.file]
  BY <1>1, <1>2, SMTT(30)
<1>4. o = [file |-> c.file, start |-> a, end |-> b, segments |-> <<<<a, b>>>>,
           size |-> c.size, shared |-> isNested, nested |-> isNested]
  BY DEF ToOccurrence, Occurrence, At
<1> HIDE DEF a, b, o, isNested
<1>5. <<<<a, b>>>> \in Seq(Nat \X Nat) /\ ToSet(<<<<a, b>>>>) = {<<a, b>>}
  <2>1. <<a, b>> \in Nat \X Nat
    BY <1>3
  <2> DEFINE x == <<a, b>>
  <2> HIDE DEF x
  <2>2. ToSet(<<x>>) = {x}
    BY DEF ToSet
  <2>3. <<x>> \in Seq(Nat \X Nat)
    BY <2>1 DEF x
  <2> QED  BY <2>2, <2>3 DEF x
<1>6. o.file = c.file /\ o.start = a /\ o.end = b /\ o.segments = <<<<a, b>>>>
  BY <1>4
<1>7. (o.nested <=> c \in nested) /\ (o.shared <=> c \in nested)
  BY <1>4 DEF isNested
<1>8. o \in Occurrences
  <2>1. isNested \in BOOLEAN
    BY DEF isNested
  <2>2. o \in OccurrenceType
    BY <1>1, <1>3, <1>4, <1>5, <2>1 DEF OccurrenceType
  <2> QED  BY <1>3, <1>6, <2>2 DEF Occurrences
<1>9. Tokens(o) = a..(b - 1)
  <2>1. Tokens(o) = UNION {x[1]..(x[2] - 1) : x \in {<<a, b>>}}
    BY <1>5, <1>6 DEF Tokens
  <2>2. {x[1]..(x[2] - 1) : x \in {<<a, b>>}} = {a..(b - 1)}
    OBVIOUS
  <2> QED  BY <2>1, <2>2
<1>10. IsPlaced(o, lengths)
  <2>1. TokenOffsets(lengths)[o.file] = At(c) /\ lengths[o.file] = lengths[c.file]
    BY <1>6 DEF At
  <2> QED  BY <1>1, <1>3, <1>6, <1>7, <1>9, <2>1 DEF IsPlaced
<1> QED  BY <1>6, <1>7, <1>8, <1>9, <1>10 DEF o, a, b

(* Copies of an earlier file come first. *)
LEMMA FilesFollow ==
  ASSUME CandidatesInv, NEW c \in duplicates, NEW d \in duplicates, c.file < d.file
  PROVE  ToOccurrence(c).end < ToOccurrence(d).start
<1>1. ToOccurrence(c).end = c.end + At(c) /\ ToOccurrence(d).start = d.start + At(d)
  BY OccurrenceOf
<1>2. /\ lengths \in Seq(Nat)
      /\ c.file \in 1..Len(lengths) /\ c.end <= lengths[c.file] /\ c.end \in Nat
      /\ d.file \in 1..Len(lengths) /\ d.start \in Nat
  BY DEF CandidatesInv, IsCandidate
<1>3. /\ At(c) \in Nat /\ At(d) \in Nat /\ lengths[c.file] \in Nat
      /\ At(c) + lengths[c.file] + MaxGapTokens + 1 <= At(d)
  <2>1. /\ TokenOffsets(lengths) \in [1..Len(lengths) -> Nat]
        /\ TokenOffsets(lengths)[c.file] + lengths[c.file] + MaxGapTokens + 1 <= TokenOffsets(lengths)[d.file]
    BY <1>2, OffsetsAre, SMTT(30)
  <2>2. lengths[c.file] \in Nat
    BY <1>2
  <2>3. TokenOffsets(lengths)[c.file] \in Nat /\ TokenOffsets(lengths)[d.file] \in Nat
    BY <1>2, <2>1
  <2> QED  BY <2>1, <2>2, <2>3 DEF At
<1> DEFINE p == At(c)  q == At(d)  l == lengths[c.file]  e == c.end  s == d.start
<1>4. /\ p \in Nat /\ q \in Nat /\ l \in Nat /\ e \in Nat /\ s \in Nat /\ MaxGapTokens \in Nat
      /\ p + l + MaxGapTokens + 1 <= q /\ e <= l
  BY <1>2, <1>3, MergingAssumption
<1> HIDE DEF p, q, l, e, s
<1>5. e + p < s + q
  BY <1>4
<1> QED  BY <1>1, <1>5 DEF p, q, l, e, s

LEMMA CopiesApart ==
  ASSUME CandidatesInv, NEW c \in duplicates, NEW d \in duplicates, ~Overlap(c, d)
  PROVE  \/ ToOccurrence(c).end <= ToOccurrence(d).start
         \/ ToOccurrence(d).end <= ToOccurrence(c).start
<1>1. /\ ToOccurrence(c).end \in Nat /\ ToOccurrence(d).start \in Nat
      /\ ToOccurrence(d).end \in Nat /\ ToOccurrence(c).start \in Nat
  BY OccurrenceOf, OccurrenceFields
<1>2. /\ c.file \in Nat /\ d.file \in Nat
      /\ c.start \in Nat /\ c.end \in Nat /\ d.start \in Nat /\ d.end \in Nat
  BY DEF CandidatesInv, IsCandidate
<1>3. CASE c.file < d.file
  BY <1>1, <1>3, FilesFollow
<1>4. CASE d.file < c.file
  BY <1>1, <1>4, FilesFollow
<1>5. CASE c.file = d.file
  <2>1. c.end <= d.start \/ d.end <= c.start
    BY <1>2, <1>5 DEF Overlap
  <2>2. At(c) = At(d) /\ At(c) \in Nat
    <3>1. TokenOffsets(lengths) \in [1..Len(lengths) -> Nat] /\ c.file \in 1..Len(lengths)
      BY OffsetsAre DEF CandidatesInv
    <3> QED  BY <1>5, <3>1 DEF At
  <2>3. c.end + At(c) <= d.start + At(d) \/ d.end + At(d) <= c.start + At(c)
    BY <1>2, <2>1, <2>2
  <2> QED  BY <2>3, OccurrenceOf
<1> QED  BY <1>2, <1>3, <1>4, <1>5

(* The copies of one text start at different tokens. *)
LEMMA CopiesStartApart ==
  ASSUME CandidatesInv, NEW c \in duplicates, NEW d \in duplicates, c.text = d.text,
         ToOccurrence(c).start = ToOccurrence(d).start
  PROVE  c = d
<1>1. /\ ToOccurrence(c) \in Occurrences /\ ToOccurrence(d) \in Occurrences
  BY OccurrenceOf
<1>2. /\ ToOccurrence(c).end \in Nat /\ ToOccurrence(d).start \in Nat
      /\ ToOccurrence(d).end \in Nat /\ ToOccurrence(c).start \in Nat
      /\ ToOccurrence(c).start < ToOccurrence(c).end
      /\ ToOccurrence(d).start < ToOccurrence(d).end
  BY <1>1, OccurrenceFields
<1>3. c.file \in Nat /\ d.file \in Nat /\ c.start \in Nat /\ d.start \in Nat
  BY DEF CandidatesInv, IsCandidate
<1>4. ~(c.file < d.file)
  BY <1>2, FilesFollow
<1>5. ~(d.file < c.file)
  BY <1>2, FilesFollow
<1>6. c.file = d.file
  BY <1>3, <1>4, <1>5
<1>7. At(c) = At(d) /\ At(c) \in Nat
  <2>1. TokenOffsets(lengths) \in [1..Len(lengths) -> Nat] /\ c.file \in 1..Len(lengths)
    BY OffsetsAre DEF CandidatesInv
  <2> QED  BY <1>6, <2>1 DEF At
<1>8. c.start + At(c) = d.start + At(d)
  BY OccurrenceOf
<1>9. c.start = d.start
  BY <1>3, <1>7, <1>8
<1> QED  BY <1>6, <1>9 DEF CandidatesInv

(* Counted copies share no token. *)
LEMMA KeptCopiesApart ==
  ASSUME CandidatesInv, KeptRegionsAreDisjoint, kept \subseteq duplicates,
         NEW c \in kept, NEW d \in kept, c # d
  PROVE  /\ \/ ToOccurrence(c).end <= ToOccurrence(d).start
            \/ ToOccurrence(d).end <= ToOccurrence(c).start
         /\ Tokens(ToOccurrence(c)) \cap Tokens(ToOccurrence(d)) = {}
<1>1. \/ ToOccurrence(c).end <= ToOccurrence(d).start
      \/ ToOccurrence(d).end <= ToOccurrence(c).start
  BY CopiesApart DEF KeptRegionsAreDisjoint
<1>2. ToOccurrence(c) \in Occurrences /\ ToOccurrence(d) \in Occurrences
  BY OccurrenceOf
<1> DEFINE a == ToOccurrence(c).start  b == ToOccurrence(c).end
           e == ToOccurrence(d).start  f == ToOccurrence(d).end
<1>3. a \in Nat /\ b \in Nat /\ e \in Nat /\ f \in Nat /\ (b <= e \/ f <= a)
  BY <1>1, <1>2, OccurrenceFields
<1>4. Tokens(ToOccurrence(c)) = a..(b - 1) /\ Tokens(ToOccurrence(d)) = e..(f - 1)
  BY OccurrenceOf
<1> HIDE DEF a, b, e, f
<1>5. (a..(b - 1)) \cap (e..(f - 1)) = {}
  BY <1>3
<1> QED  BY <1>1, <1>4, <1>5

-----------------------------------------------------------------------------
(* The groups the selection hands over are sound.                          *)

LEMMA SortedCopies ==
  ASSUME NEW S, IsFiniteSet(S), \A o \in S : o.start \in Nat,
         \A o, p \in S : o.start = p.start => o = p
  PROVE  /\ SortedOccurrences(S) \in Seq(S)
         /\ \A i, j \in 1..Len(SortedOccurrences(S)) :
              i < j => SortedOccurrences(S)[i].start < SortedOccurrences(S)[j].start
         /\ \A x \in S : \E i \in 1..Len(SortedOccurrences(S)) : SortedOccurrences(S)[i] = x
<1> DEFINE q == SortedOccurrences(S)
           place(k) == CHOOSE x \in S : Cardinality({y \in S : y.start < x.start}) = k - 1
           key == [x \in S |-> x.start]
           R == {x \in S \X S : key[x[1]] < key[x[2]]}
<1>1. q = [k \in 1..Cardinality(S) |-> place(k)]
  BY DEF SortedOccurrences, Arranged
<1>2. key \in [S -> Nat] /\ \A x, y \in S : key[x] = key[y] => x = y
  OBVIOUS
<1>3. \A x \in S : key[x] = x.start
  OBVIOUS
<1>4. \A x, y \in S : <<x, y>> \in R <=> key[x] < key[y]
  OBVIOUS
<1> HIDE DEF q, key, R
<1>5. IsOrder(R, S)
  BY <1>2, <1>4, OrderByNumber
<1>6. \A x \in S : Rank(R, S, x) = Cardinality({y \in S : y.start < x.start})
  <2> TAKE x \in S
  <2>1. {y \in S : <<y, x>> \in R} = {y \in S : y.start < x.start}
    BY <1>3, <1>4
  <2> QED  BY <2>1 DEF Rank
<1>7. \A k \in 1..Cardinality(S) : place(k) \in S /\ Rank(R, S, place(k)) = k - 1
  <2> TAKE k \in 1..Cardinality(S)
  <2>1. \E x \in S : Rank(R, S, x) = k - 1
    BY <1>5, RanksAreTaken
  <2>2. \E x \in S : Cardinality({y \in S : y.start < x.start}) = k - 1
    BY <1>6, <2>1
  <2>3. place(k) \in S /\ Cardinality({y \in S : y.start < place(k).start}) = k - 1
    BY <2>2
  <2> QED  BY <1>6, <2>3
<1> HIDE DEF place
<1>8. q \in [1..Cardinality(S) -> S]
  BY <1>1, <1>7
<1>9. \A k \in 1..Cardinality(S) : Rank(R, S, q[k]) = k - 1
  BY <1>1, <1>7
<1>10. IsArrangement(q, R, S)
  BY <1>5, <1>8, <1>9, ArrangementOf
<1>11. q \in Seq(S) /\ \A x \in S : \E i \in 1..Len(q) : q[i] = x
  BY <1>10 DEF IsArrangement
<1>12. \A i, j \in 1..Len(q) : i < j => q[i].start < q[j].start
  <2> TAKE i, j \in 1..Len(q)
  <2>1. i < j => <<q[i], q[j]>> \in R
    BY <1>10 DEF IsArrangement
  <2>2. q[i] \in S /\ q[j] \in S
    BY <1>11
  <2> QED  BY <1>3, <1>4, <2>1, <2>2
<1> QED  BY <1>11, <1>12 DEF q

(* The texts are listed in the order in which they were first counted. *)
LEMMA TextsAreListed ==
  ASSUME CandidatesInv, OrderInv, kept \subseteq duplicates
  PROVE  /\ CountedTexts \in Seq(TextsOf(kept))
         /\ \A i, j \in 1..Len(CountedTexts) : i < j => CountedTexts[i] # CountedTexts[j]
<1> DEFINE S == TextsOf(kept)
           q == CountedTexts
           place(k) == CHOOSE x \in S : Cardinality({y \in S : CountedAt(y) < CountedAt(x)}) = k - 1
           key == [x \in S |-> CountedAt(x)]
           R == {x \in S \X S : key[x[1]] < key[x[2]]}
<1>1. q = [k \in 1..Cardinality(S) |-> place(k)]
  BY DEF CountedTexts, Arranged
<1>2. IsFiniteSet(S)
  <2>1. IsFiniteSet(kept)
    BY FS_Subset DEF CandidatesInv
  <2> DEFINE f == [c \in kept |-> c.text]
  <2>2. f \in [kept -> S] /\ \A y \in S : \E x \in kept : f[x] = y
    BY DEF TextsOf
  <2> HIDE DEF f
  <2> QED  BY <2>1, <2>2, ImageIsFinite
<1>3. ASSUME NEW t \in S
      PROVE  CountedAt(t) \in 1..Len(order) /\ order[CountedAt(t)].text = t
  <2> DEFINE places == {i \in 1..Len(order) : order[i].text = t}
  <2>1. Len(order) \in Nat
    BY DEF OrderInv
  <2>2. PICK c \in kept : c.text = t
    BY <1>3 DEF TextsOf
  <2>3. places # {} /\ places \subseteq Nat
    BY <2>1, <2>2 DEF OrderInv
  <2>4. PICK i \in places : \A j \in places : i <= j
    <3> HIDE DEF places
    <3> QED  BY <2>3, LeastOf
  <2>5. i \in 1..Len(order) /\ order[i].text = t /\ \A j \in 1..(i - 1) : order[j].text # t
    <3>1. \A j \in 1..(i - 1) : j \in 1..Len(order) /\ ~(i <= j)
      BY <2>1, <2>4
    <3> QED  BY <2>4, <3>1
  <2>6. \E k \in 1..Len(order) : order[k].text = t /\ \A j \in 1..(k - 1) : order[j].text # t
    BY <2>5
  <2> QED  BY <2>6 DEF CountedAt
<1>4. key \in [S -> Nat]
  <2>1. Len(order) \in Nat
    BY DEF OrderInv
  <2> QED  BY <1>3, <2>1
<1>5. \A x, y \in S : key[x] = key[y] => x = y
  <2> TAKE x, y \in S
  <2>1. key[x] = CountedAt(x) /\ key[y] = CountedAt(y)
    OBVIOUS
  <2>2. order[CountedAt(x)].text = x /\ order[CountedAt(y)].text = y
    BY <1>3
  <2> HIDE DEF key
  <2> QED  BY <2>1, <2>2
<1>6. \A x \in S : key[x] = CountedAt(x)
  OBVIOUS
<1>7. \A x, y \in S : <<x, y>> \in R <=> key[x] < key[y]
  OBVIOUS
<1> HIDE DEF q, key, R, S
<1>8. IsOrder(R, S)
  BY <1>4, <1>5, <1>7, OrderByNumber
<1>9. \A x \in S : Rank(R, S, x) = Cardinality({y \in S : CountedAt(y) < CountedAt(x)})
  <2> TAKE x \in S
  <2>1. {y \in S : <<y, x>> \in R} = {y \in S : CountedAt(y) < CountedAt(x)}
    BY <1>6, <1>7
  <2> QED  BY <2>1 DEF Rank
<1>10. \A k \in 1..Cardinality(S) : place(k) \in S /\ Rank(R, S, place(k)) = k - 1
  <2> TAKE k \in 1..Cardinality(S)
  <2>1. \E x \in S : Rank(R, S, x) = k - 1
    BY <1>2, <1>8, RanksAreTaken
  <2>2. \E x \in S : Cardinality({y \in S : CountedAt(y) < CountedAt(x)}) = k - 1
    BY <1>9, <2>1
  <2>3. place(k) \in S /\ Cardinality({y \in S : CountedAt(y) < CountedAt(place(k))}) = k - 1
    BY <2>2
  <2> QED  BY <1>9, <2>3
<1> HIDE DEF place
<1>11. q \in [1..Cardinality(S) -> S]
  BY <1>1, <1>10
<1>12. \A k \in 1..Cardinality(S) : Rank(R, S, q[k]) = k - 1
  BY <1>1, <1>10
<1>13. IsArrangement(q, R, S)
  BY <1>2, <1>8, <1>11, <1>12, ArrangementOf
<1>14. \A i, j \in 1..Len(q) : i < j => q[i] # q[j]
  <2> TAKE i, j \in 1..Len(q)
  <2>1. q[i] \in S /\ <<q[i], q[i]>> \notin R
    BY <1>8, <1>13 DEF IsArrangement, IsOrder
  <2>2. i < j => <<q[i], q[j]>> \in R
    BY <1>13 DEF IsArrangement
  <2> QED  BY <2>1, <2>2
<1> QED  BY <1>13, <1>14 DEF q, S, IsArrangement

CopiesOf(t) == {ToOccurrence(c) : c \in Reported(t)}

LEMMA SelectedGroupIs ==
  ASSUME CandidatesInv, kept \cup nested \subseteq duplicates, NEW t
  PROVE  /\ SortedOccurrences(CopiesOf(t)) \in Seq(Occurrences)
         /\ \A i \in 1..Len(SortedOccurrences(CopiesOf(t))) :
              \E c \in Reported(t) : SortedOccurrences(CopiesOf(t))[i] = ToOccurrence(c)
         /\ \A c \in Reported(t) :
              \E i \in 1..Len(SortedOccurrences(CopiesOf(t))) :
                SortedOccurrences(CopiesOf(t))[i] = ToOccurrence(c)
         /\ \A i, j \in 1..Len(SortedOccurrences(CopiesOf(t))) :
              i < j => SortedOccurrences(CopiesOf(t))[i].start < SortedOccurrences(CopiesOf(t))[j].start
<1> DEFINE S == CopiesOf(t)
           g == SortedOccurrences(S)
<1>1. Reported(t) \subseteq duplicates /\ \A c \in Reported(t) : c.text = t
  BY DEF Reported, Copies
<1>2. IsFiniteSet(S)
  <2>1. IsFiniteSet(Reported(t))
    BY <1>1, FS_Subset DEF CandidatesInv
  <2> DEFINE f == [c \in Reported(t) |-> ToOccurrence(c)]
  <2>2. f \in [Reported(t) -> S] /\ \A y \in S : \E x \in Reported(t) : f[x] = y
    BY DEF CopiesOf
  <2> HIDE DEF f, S
  <2> QED  BY <2>1, <2>2, ImageIsFinite
<1>3. S \subseteq Occurrences
  BY <1>1, OccurrenceOf DEF CopiesOf
<1>4. \A o \in S : o.start \in Nat
  BY <1>3, OccurrenceFields
<1>5. \A o, p \in S : o.start = p.start => o = p
  <2> SUFFICES ASSUME NEW c \in Reported(t), NEW d \in Reported(t),
                      ToOccurrence(c).start = ToOccurrence(d).start
               PROVE  ToOccurrence(c) = ToOccurrence(d)
    BY DEF CopiesOf
  <2>1. c = d
    BY <1>1, CopiesStartApart
  <2> QED  BY <2>1
<1> HIDE DEF S
<1>6. /\ g \in Seq(S)
      /\ \A i, j \in 1..Len(g) : i < j => g[i].start < g[j].start
      /\ \A x \in S : \E i \in 1..Len(g) : g[i] = x
  BY <1>2, <1>4, <1>5, SortedCopies
<1> HIDE DEF g
<1>7. g \in Seq(Occurrences) /\ \A i \in 1..Len(g) : g[i] \in S
  BY <1>3, <1>6
<1>8. \A i \in 1..Len(g) : \E c \in Reported(t) : g[i] = ToOccurrence(c)
  BY <1>7 DEF S, CopiesOf
<1>9. \A c \in Reported(t) : \E i \in 1..Len(g) : g[i] = ToOccurrence(c)
  BY <1>6 DEF S, CopiesOf
<1> QED  BY <1>6, <1>7, <1>8, <1>9 DEF g, S

LEMMA SelectedGroupIsSound ==
  ASSUME CandidatesInv, kept \cup nested \subseteq duplicates, KeptRegionsAreDisjoint,
         NEW t, Survives(rule, Reported(t))
  PROVE  IsSoundGroup(SortedOccurrences(CopiesOf(t)), lengths, rule = "files")
<1> DEFINE g == SortedOccurrences(CopiesOf(t))
<1>1. /\ g \in Seq(Occurrences)
      /\ \A i \in 1..Len(g) : \E c \in Reported(t) : g[i] = ToOccurrence(c)
      /\ \A c \in Reported(t) : \E i \in 1..Len(g) : g[i] = ToOccurrence(c)
      /\ \A i, j \in 1..Len(g) : i < j => g[i].start < g[j].start
  BY SelectedGroupIs
<1> HIDE DEF g
<1>2. Reported(t) \subseteq duplicates /\ \A c \in Reported(t) : c.text = t
  BY DEF Reported, Copies
<1>3. Len(g) >= 2
  <2>1. IsFiniteSet(Reported(t)) /\ Cardinality(Reported(t)) >= 2
    BY <1>2, FS_Subset DEF CandidatesInv, Survives
  <2>2. PICK c, d \in Reported(t) : c # d
    BY <2>1, AtLeastTwo
  <2>3. ToOccurrence(c) # ToOccurrence(d)
    BY <1>2, <2>2, CopiesStartApart
  <2>4. PICK i \in 1..Len(g) : g[i] = ToOccurrence(c)
    BY <1>1, <2>2
  <2>5. PICK j \in 1..Len(g) : g[j] = ToOccurrence(d)
    BY <1>1, <2>2
  <2>6. i # j
    BY <2>3, <2>4, <2>5
  <2>7. Len(g) \in Nat
    BY <1>1
  <2> QED  BY <2>4, <2>5, <2>6, <2>7
<1>4. \A i \in 1..Len(g) : IsPlaced(g[i], lengths)
  <2> TAKE i \in 1..Len(g)
  <2>1. PICK c \in Reported(t) : g[i] = ToOccurrence(c)
    BY <1>1
  <2>2. c \in duplicates
    BY <1>2
  <2> QED  BY <2>1, <2>2, OccurrenceOf
<1>5. ASSUME NEW i \in 1..Len(g), NEW j \in 1..Len(g), i < j, ~g[i].nested, ~g[j].nested
      PROVE  g[i].end <= g[j].start
  <2>1. PICK c \in Reported(t) : g[i] = ToOccurrence(c)
    BY <1>1
  <2>2. PICK d \in Reported(t) : g[j] = ToOccurrence(d)
    BY <1>1
  <2>3. c \in duplicates /\ d \in duplicates
    BY <1>2, <2>1, <2>2
  <2>4. c \notin nested /\ d \notin nested
    BY <1>5, <2>1, <2>2, <2>3, OccurrenceOf
  <2>5. c \in kept /\ d \in kept
    BY <2>1, <2>2, <2>4 DEF Reported, Copies
  <2>6. g[i].start < g[j].start
    BY <1>1, <1>5
  <2>7. g[i] \in Occurrences /\ g[j] \in Occurrences
    <3>1. g \in Seq(Occurrences)
      BY <1>1
    <3> QED  BY <3>1
  <2>8. c # d
    BY <2>1, <2>2, <2>6, <2>7, OccurrenceFields
  <2>9. g[i].end <= g[j].start \/ g[j].end <= g[i].start
    BY <2>1, <2>2, <2>5, <2>8, KeptCopiesApart
  <2>10. /\ g[i].start \in Nat /\ g[i].end \in Nat /\ g[j].start \in Nat /\ g[j].end \in Nat
         /\ g[i].start < g[i].end /\ g[j].start < g[j].end
    BY <2>7, OccurrenceFields
  <2> QED  BY <2>6, <2>9, <2>10
<1>6. ASSUME rule = "files" PROVE \E i, j \in 1..Len(g) : g[i].file # g[j].file
  <2>1. PICK c, d \in Reported(t) : c.file # d.file
    BY <1>6 DEF Survives
  <2>2. PICK i \in 1..Len(g) : g[i] = ToOccurrence(c)
    BY <1>1, <2>1
  <2>3. PICK j \in 1..Len(g) : g[j] = ToOccurrence(d)
    BY <1>1, <2>1
  <2>4. g[i].file = c.file /\ g[j].file = d.file
    BY <1>2, <2>1, <2>2, <2>3, OccurrenceOf
  <2> QED  BY <2>1, <2>2, <2>3, <2>4
<1> QED  BY <1>1, <1>3, <1>4, <1>5, <1>6 DEF IsSoundGroup, g

LEMMA SelectedGroupsApart ==
  ASSUME CandidatesInv, kept \cup nested \subseteq duplicates, KeptRegionsAreDisjoint,
         NEW t, NEW u, t # u
  PROVE  CountedApart(SortedOccurrences(CopiesOf(t)), SortedOccurrences(CopiesOf(u)))
<1> DEFINE g == SortedOccurrences(CopiesOf(t))
           h == SortedOccurrences(CopiesOf(u))
<1>1. \A i \in 1..Len(g) : \E c \in Reported(t) : g[i] = ToOccurrence(c)
  BY SelectedGroupIs
<1>2. \A j \in 1..Len(h) : \E d \in Reported(u) : h[j] = ToOccurrence(d)
  BY SelectedGroupIs
<1> HIDE DEF g, h
<1>3. ASSUME NEW i \in 1..Len(g), NEW j \in 1..Len(h), ~g[i].shared, ~h[j].shared
      PROVE  Tokens(g[i]) \cap Tokens(h[j]) = {}
  <2>1. PICK c \in Reported(t) : g[i] = ToOccurrence(c)
    BY <1>1
  <2>2. PICK d \in Reported(u) : h[j] = ToOccurrence(d)
    BY <1>2
  <2>3. c \in duplicates /\ d \in duplicates /\ c # d
    BY <2>1, <2>2 DEF Reported, Copies
  <2>4. c \notin nested /\ d \notin nested
    BY <1>3, <2>1, <2>2, <2>3, OccurrenceOf
  <2>5. c \in kept /\ d \in kept
    BY <2>1, <2>2, <2>4 DEF Reported, Copies
  <2> QED  BY <2>1, <2>2, <2>3, <2>5, KeptCopiesApart
<1>4. CountedApart(g, h)
  BY <1>3 DEF CountedApart
<1> QED  BY <1>4 DEF g, h

LEMMA SelectionIsSound ==
  ASSUME CandidatesInv, OrderInv, IInv, step = "selected"
  PROVE  IsSound(CountedGroups, lengths, rule = "files")
<1> DEFINE q == CountedTexts
           gs == CountedGroups
           group(t) == SortedOccurrences(CopiesOf(t))
<1>1. kept \cup nested \subseteq duplicates /\ KeptRegionsAreDisjoint
  BY DEF IInv, TypeOK
<1>2. q \in Seq(TextsOf(kept)) /\ \A i, j \in 1..Len(q) : i < j => q[i] # q[j]
  BY <1>1, TextsAreListed
<1>3. gs = [i \in 1..Len(q) |-> group(q[i])] /\ Len(q) \in Nat
  <2>1. DOMAIN q = 1..Len(q) /\ Len(q) \in Nat
    BY <1>2
  <2>2. gs = [i \in DOMAIN q |-> group(q[i])]
    BY DEF CountedGroups, CopiesOf
  <2> QED  BY <2>1, <2>2
<1> HIDE DEF q, gs, group
<1>4. \A i \in 1..Len(q) : IsSoundGroup(group(q[i]), lengths, rule = "files")
  <2> TAKE i \in 1..Len(q)
  <2>1. q[i] \in TextsOf(kept \cup nested)
    BY <1>2 DEF TextsOf
  <2>2. Survives(rule, Reported(q[i]))
    BY <2>1 DEF IInv, SelectedGroupsSurvive
  <2> QED  BY <1>1, <2>2, SelectedGroupIsSound DEF group
<1>5. \A i, j \in 1..Len(q) : i # j => q[i] # q[j]
  <2> TAKE i, j \in 1..Len(q)
  <2>1. i = j \/ i < j \/ j < i
    BY <1>3
  <2> QED  BY <1>2, <2>1
<1>6. \A i, j \in 1..Len(q) : i # j => CountedApart(group(q[i]), group(q[j]))
  BY <1>1, <1>5, SelectedGroupsApart DEF group
<1>7. gs \in Seq(Seq(Occurrences)) /\ Len(gs) = Len(q) /\ \A i \in 1..Len(q) : gs[i] = group(q[i])
  <2>1. \A i \in 1..Len(q) : group(q[i]) \in Seq(Occurrences)
    BY <1>4 DEF IsSoundGroup
  <2> QED  BY <1>3, <2>1
<1>8. IsSound(gs, lengths, rule = "files")
  BY <1>4, <1>6, <1>7 DEF IsSound
<1> QED  BY <1>8 DEF gs

-----------------------------------------------------------------------------
(* The invariant of the whole: what is handed over is as the selection     *)
(* needs it, what was kept was counted, and the groups are sound.          *)
CloneInv ==
  /\ CandidatesInv
  /\ OrderInv
  /\ IsSound(groups, lengths, spanFiles)

LEMMA InitCloneInv == CloneInit => CloneInv
<1> SUFFICES ASSUME NEW in \in Inputs, Called(in), lengths = in.lengths, MergingInit
             PROVE  CloneInv
  BY DEF CloneInit
<1>1. duplicates \subseteq in.candidates /\ duplicates \subseteq Deduped(in.candidates)
  BY DEF Called, Surviving, Deduped
<1>2. /\ in.lengths \in Seq(Nat) /\ IsFiniteSet(in.candidates)
      /\ \A c \in in.candidates : c.file \in DOMAIN in.lengths /\ c.end <= in.lengths[c.file]
      /\ \A c, d \in in.candidates : /\ c.pos = d.pos => c = d
                                     /\ c.text = d.text => c.end - c.start = d.end - d.start
      /\ \A c \in in.candidates : IsCandidate(c)
  BY CandidatesAssumption, SelectionAssumption
<1>3. IsFiniteSet(duplicates)
  BY <1>1, <1>2, FS_Subset
<1>4. ASSUME NEW c \in duplicates
      PROVE  IsCandidate(c) /\ c.file \in 1..Len(lengths) /\ c.end <= lengths[c.file]
  BY <1>1, <1>2
<1>5. ASSUME NEW c \in duplicates, NEW d \in duplicates, c.text = d.text, c.file = d.file, c.start = d.start
      PROVE  c = d
  <2>1. /\ c.start \in Nat /\ c.end \in Nat /\ d.end \in Nat /\ c.pos \in Nat /\ d.pos \in Nat
        /\ c.end - c.start = d.end - d.start
    BY <1>1, <1>2, <1>5 DEF IsCandidate
  <2>2. c.end = d.end
    BY <1>5, <2>1
  <2>3. c.pos <= d.pos
    BY <1>1, <1>5, <2>2 DEF Deduped
  <2>4. d.pos <= c.pos
    BY <1>1, <1>5, <2>2 DEF Deduped
  <2>5. c.pos = d.pos
    BY <2>1, <2>3, <2>4
  <2> QED  BY <1>1, <1>2, <2>5
<1>6. CandidatesInv
  BY <1>2, <1>3, <1>4, <1>5 DEF CandidatesInv
<1>7. OrderInv
  BY DEF OrderInv, Called
<1>8. IsSound(groups, lengths, spanFiles)
  <2>1. groups \in Seq(Seq(Occurrences)) /\ Len(groups) = 0
    BY DEF MergingInit
  <2> QED  BY <2>1 DEF IsSound
<1> QED  BY <1>6, <1>7, <1>8 DEF CloneInv

LEMMA CandidatesStay ==
  ASSUME CandidatesInv, duplicates' \subseteq duplicates, UNCHANGED lengths
  PROVE  CandidatesInv'
<1>1. IsFiniteSet(duplicates')
  BY FS_Subset DEF CandidatesInv
<1> QED  BY <1>1 DEF CandidatesInv

(* A copy that is kept is counted at once. *)
LEMMA CountedAtOnce ==
  ASSUME OrderInv, NEW c \in duplicates, UNCHANGED duplicates,
         kept' \subseteq kept \cup {c}, order' = Append(order, c)
  PROVE  OrderInv'
<1>1. /\ order \in Seq(duplicates) /\ Len(order) \in Nat
      /\ \A k \in kept : \E i \in 1..Len(order) : order[i] = k
  BY DEF OrderInv
<1>2. order' \in Seq(duplicates') /\ Len(order') = Len(order) + 1
  BY <1>1
<1>3. order'[Len(order) + 1] = c
  BY <1>1
<1>4. \A i \in 1..Len(order) : order'[i] = order[i]
  BY <1>1
<1>5. \A k \in kept' : \E i \in 1..Len(order') : order'[i] = k
  <2> TAKE k \in kept'
  <2>1. CASE k \in kept
    <3>1. PICK i \in 1..Len(order) : order[i] = k
      BY <1>1, <2>1
    <3>2. i \in 1..Len(order') /\ order'[i] = k
      BY <1>1, <1>2, <1>4, <3>1
    <3> QED  BY <3>2
  <2>2. CASE k = c
    <3>1. Len(order) + 1 \in 1..Len(order')
      BY <1>1, <1>2
    <3> QED  BY <1>3, <2>2, <3>1
  <2> QED  BY <2>1, <2>2
<1> QED  BY <1>2, <1>5 DEF OrderInv

LEMMA SelectGroupsStep == ASSUME IInv, CloneInv, SelectGroups PROVE CloneInv'
<1>1. rest \subseteq duplicates /\ CandidatesInv /\ OrderInv
  BY DEF IInv, TypeOK, CloneInv
<1>2. SelectionNext /\ UNCHANGED <<groups, spanFiles, lengths>>
  BY DEF SelectGroups, mergingVars
<1>3. duplicates' \subseteq duplicates /\ OrderInv'
  <2>1. ASSUME NEW c \in rest, VisitFirst(c) PROVE duplicates' = duplicates /\ OrderInv'
    <3>1. UNCHANGED duplicates
      BY <2>1 DEF VisitFirst, Visited
    <3>2. CASE UNCHANGED <<kept, order>>
      BY <1>1, <3>1, <3>2 DEF OrderInv
    <3>3. CASE kept' = kept \cup {c} /\ order' = Append(order, c)
      BY <1>1, <3>1, <3>3, CountedAtOnce
    <3> QED  BY <2>1, <3>1, <3>2, <3>3 DEF VisitFirst, Nest, LeaveOver
  <2>2. ASSUME NEW c \in rest, VisitSecond(c) PROVE duplicates' = duplicates /\ OrderInv'
    <3>1. UNCHANGED duplicates
      BY <2>2 DEF VisitSecond, Visited
    <3>2. CASE UNCHANGED <<kept, order>>
      BY <1>1, <3>1, <3>2 DEF OrderInv
    <3>3. CASE Enclose(c) /\ order' = Append(order, c)
      <4>1. kept' \subseteq kept \cup {c}
        BY <3>3 DEF Enclose
      <4> QED  BY <1>1, <3>1, <3>3, <4>1, CountedAtOnce
    <3> QED  BY <2>2, <3>1, <3>2, <3>3 DEF VisitSecond, Nest, LeaveOver
  <2>3. ASSUME EndFirst \/ EndSecond \/ Accept \/ GiveUp PROVE duplicates' = duplicates /\ OrderInv'
    <3>1. UNCHANGED <<duplicates, kept, order>>
      BY <2>3 DEF EndFirst, EndSecond, Accept, GiveUp
    <3> QED  BY <1>1, <3>1 DEF OrderInv
  <2>4. ASSUME DropFailedGroups PROVE duplicates' = duplicates /\ OrderInv'
    <3>1. UNCHANGED <<duplicates, order>> /\ kept' \subseteq kept
      BY <2>4 DEF DropFailedGroups
    <3> QED  BY <1>1, <3>1 DEF OrderInv
  <2>5. ASSUME Rerun PROVE duplicates' \subseteq duplicates /\ OrderInv'
    <3>1. duplicates' \subseteq duplicates /\ kept' = {} /\ order' = <<>>
      BY <2>5 DEF Rerun, StartRun
    <3> QED  BY <3>1 DEF OrderInv
  <2> QED  BY <1>2, <2>1, <2>2, <2>3, <2>4, <2>5 DEF SelectionNext
<1>4. CandidatesInv'
  BY <1>1, <1>2, <1>3, CandidatesStay
<1>5. IsSound(groups, lengths, spanFiles)'
  BY <1>2 DEF CloneInv
<1> QED  BY <1>3, <1>4, <1>5 DEF CloneInv

LEMMA MergeGroupsStep == ASSUME IInv, CloneInv, MergeGroups PROVE CloneInv'
<1>1. /\ CandidatesInv /\ OrderInv /\ IsSound(groups, lengths, spanFiles)
      /\ step = "selected" /\ UNCHANGED <<duplicates, kept, order, lengths>>
  BY DEF CloneInv, MergeGroups, selectionVars
<1>2. CandidatesInv' /\ OrderInv'
  BY <1>1, CandidatesStay DEF OrderInv
<1>3. lengths \in Seq(Nat)
  BY <1>1 DEF CandidatesInv
<1>4. CASE StartMerging(CountedGroups, rule = "files")
  <2>1. IsSound(CountedGroups, lengths, rule = "files")
    BY <1>1, SelectionIsSound
  <2>2. IsSound(SortedGroups(CountedGroups), lengths, rule = "files")
    BY <2>1, SortedIsSound
  <2> DEFINE gs == CountedGroups
             inFiles == rule = "files"
  <2>3. /\ groups' = gs \/ groups' = SortedGroups(gs)
        /\ spanFiles' = inFiles
    BY <1>4 DEF StartMerging
  <2>4. IsSound(gs, lengths, inFiles) /\ IsSound(SortedGroups(gs), lengths, inFiles)
    BY <2>1, <2>2
  <2> HIDE DEF gs, inFiles
  <2>5. IsSound(groups', lengths', spanFiles')
    BY <1>1, <2>3, <2>4
  <2> QED  BY <1>2, <2>5 DEF CloneInv
<1>5. CASE MergeNext
  <2>1. PICK l, r \in DOMAIN groups :
          /\ l < r /\ MergesEitherWay(l, r)
          /\ groups' = IF Mergeable(groups[l], groups[r]) THEN AfterMerge(l, r) ELSE AfterMerge(r, l)
    BY <1>5 DEF MergeNext
  <2>2. l \in 1..Len(groups) /\ r \in 1..Len(groups) /\ l # r /\ r # l
    <3>1. DOMAIN groups = 1..Len(groups) /\ Len(groups) \in Nat
      BY <1>1 DEF IsSound
    <3> QED  BY <2>1, <3>1
  <2>3. UNCHANGED spanFiles
    BY <1>5 DEF MergeNext
  <2>4. CASE Mergeable(groups[l], groups[r])
    <3>1. IsSound(AfterMerge(l, r), lengths, spanFiles)
      BY <1>1, <1>3, <2>2, <2>4, AfterMergeIsSound
    <3>2. groups' = AfterMerge(l, r)
      BY <2>1, <2>4
    <3>3. IsSound(groups', lengths', spanFiles')
      BY <1>1, <2>3, <3>1, <3>2
    <3> QED  BY <1>2, <3>3 DEF CloneInv
  <2>5. CASE ~Mergeable(groups[l], groups[r])
    <3>1. Mergeable(groups[r], groups[l])
      BY <2>1, <2>5 DEF MergesEitherWay
    <3>2. IsSound(AfterMerge(r, l), lengths, spanFiles)
      BY <1>1, <1>3, <2>2, <3>1, AfterMergeIsSound
    <3>3. groups' = AfterMerge(r, l)
      BY <2>1, <2>5
    <3>4. IsSound(groups', lengths', spanFiles')
      BY <1>1, <2>3, <3>2, <3>3
    <3> QED  BY <1>2, <3>4 DEF CloneInv
  <2> QED  BY <2>4, <2>5
<1>6. CASE NothingMerges
  <2>1. UNCHANGED <<groups, spanFiles>>
    BY <1>6 DEF NothingMerges
  <2>2. IsSound(groups', lengths', spanFiles')
    BY <1>1, <2>1
  <2> QED  BY <1>2, <2>2 DEF CloneInv
<1> QED  BY <1>4, <1>5, <1>6 DEF MergeGroups

LEMMA CloneStutterStep == ASSUME CloneInv, UNCHANGED cloneVars PROVE CloneInv'
<1>1. UNCHANGED <<duplicates, kept, order, groups, spanFiles, lengths>>
  BY DEF cloneVars, selectionVars, mergingVars
<1>2. CandidatesInv' /\ OrderInv'
  BY <1>1 DEF CloneInv, CandidatesInv, OrderInv
<1>3. IsSound(groups', lengths', spanFiles')
  BY <1>1 DEF CloneInv
<1> QED  BY <1>2, <1>3 DEF CloneInv

(* Selecting the groups of clones follows the selection by itself. *)
LEMMA CloneSpecSelects == CloneSpec => Safety
<1>1. CloneInit => Init
  BY DEF CloneInit, Init
<1>2. [CloneNext]_cloneVars => [SelectionNext]_selectionVars
  BY DEF CloneNext, SelectGroups, MergeGroups, Finished, cloneVars
<1> QED  BY <1>1, <1>2, PTL DEF CloneSpec, Safety

(* The inductive invariant of selecting and merging. *)
THEOREM CloneInvariant == CloneSpec => []CloneInv
<1>1. CloneInit => CloneInv
  BY InitCloneInv
<1>2. IInv /\ CloneInv /\ [CloneNext]_cloneVars => CloneInv'
  BY SelectGroupsStep, MergeGroupsStep, CloneStutterStep DEF CloneNext, Finished
<1> QED  BY <1>1, <1>2, CloneSpecSelects, SelectionInvariant, PTL DEF CloneSpec

LEMMA SoundGroupsAreSound ==
  ASSUME CloneInv
  PROVE  MergedGroupsAreSound
<1>1. /\ groups \in Seq(Seq(Occurrences)) /\ DOMAIN groups = 1..Len(groups)
      /\ \A g \in 1..Len(groups) : groups[g] \in Seq(Occurrences)
      /\ \A g \in 1..Len(groups) : IsSoundGroup(groups[g], lengths, spanFiles)
      /\ \A g, h \in 1..Len(groups) : g # h => CountedApart(groups[g], groups[h])
  BY DEF CloneInv, IsSound
<1>2. \A g \in 1..Len(groups) : DOMAIN groups[g] = 1..Len(groups[g])
  BY <1>1
<1>3. SpansCountedOnce
  <2>1. ASSUME NEW g \in DOMAIN groups, NEW h \in DOMAIN groups,
               NEW i \in DOMAIN groups[g], NEW j \in DOMAIN groups[h],
               g # h \/ i # j, ~groups[g][i].shared, ~groups[h][j].shared
        PROVE  Tokens(groups[g][i]) \cap Tokens(groups[h][j]) = {}
    <3>1. /\ g \in 1..Len(groups) /\ h \in 1..Len(groups)
          /\ i \in 1..Len(groups[g]) /\ j \in 1..Len(groups[h])
      BY <1>1, <1>2
    <3>2. CASE g # h
      BY <1>1, <2>1, <3>1, <3>2 DEF CountedApart
    <3>3. CASE g = h
      <4>1. IsSoundGroup(groups[g], lengths, spanFiles) /\ i # j /\ j \in 1..Len(groups[g])
        BY <1>1, <2>1, <3>1, <3>3
      <4> QED  BY <2>1, <3>1, <3>3, <4>1, CountedApartInside
    <3> QED  BY <3>2, <3>3
  <2> QED  BY <2>1 DEF SpansCountedOnce
<1>4. ASSUME NEW g \in ToSet(groups) PROVE \E k \in 1..Len(groups) : g = groups[k]
  BY <1>1, <1>4 DEF ToSet
<1>5. \A g \in ToSet(groups) : IsSoundGroup(g, lengths, spanFiles) /\ DOMAIN g = 1..Len(g)
  BY <1>1, <1>2, <1>4
<1>6. CopiesStayInTheirFile
  BY <1>5 DEF CopiesStayInTheirFile, IsSoundGroup, IsPlaced, ToSet
<1>7. CopiesOfAGroupAreApart
  BY <1>5 DEF CopiesOfAGroupAreApart, IsSoundGroup
<1>8. GroupsStayReportable
  <2> SUFFICES ASSUME NEW g \in ToSet(groups)
               PROVE  Len(g) >= 2 /\ (spanFiles => \E o, p \in ToSet(g) : o.file # p.file)
    BY DEF GroupsStayReportable
  <2>1. Len(g) >= 2 /\ (spanFiles => \E i, j \in 1..Len(g) : g[i].file # g[j].file)
    BY <1>5 DEF IsSoundGroup
  <2>2. \A i \in 1..Len(g) : g[i] \in ToSet(g)
    BY <1>5 DEF ToSet
  <2> QED  BY <2>1, <2>2
<1> QED  BY <1>3, <1>6, <1>7, <1>8 DEF MergedGroupsAreSound

(* Whatever groups are merged, kept beside the merged group or nested in    *)
(* others, each stays reportable, lies in real stretches of one file each,  *)
(* and no token is counted twice.                                          *)
THEOREM MergingKeepsGroupsSound == CloneSpec => []MergedGroupsAreSound
<1>1. CloneInv => MergedGroupsAreSound
  BY SoundGroupsAreSound
<1> QED  BY <1>1, CloneInvariant, PTL

(* The pairs of groups the loop does not try could not have merged. *)
THEOREM MergingSkipsNoPair == CloneSpec => []SkippedPairsDoNotMerge
<1>1. CloneInv => SkippedPairsDoNotMerge
  BY SkippedDoNotMerge DEF CloneInv
<1> QED  BY <1>1, CloneInvariant, PTL

-----------------------------------------------------------------------------
(* Each merge leaves fewer copies to pair.                                 *)

Places(gs) == UNION {{g} \X {i \in DOMAIN gs[g] : Pairable(gs[g][i])} : g \in DOMAIN gs}

IsPlace(x, gs) ==
  \E g \in 1..Len(gs) : \E i \in 1..Len(gs[g]) : x = <<g, i>> /\ Pairable(gs[g][i])

LEMMA PlacesAre ==
  ASSUME NEW gs \in Seq(Seq(Occurrences))
  PROVE  /\ IsFiniteSet(Places(gs))
         /\ \A x : x \in Places(gs) <=> IsPlace(x, gs)
<1> DEFINE of(g) == {g} \X {i \in DOMAIN gs[g] : Pairable(gs[g][i])}
           n == Len(gs)
<1>1. /\ n \in Nat /\ DOMAIN gs = 1..n
      /\ \A g \in 1..n : DOMAIN gs[g] = 1..Len(gs[g]) /\ Len(gs[g]) \in Nat
  OBVIOUS
<1>2. ASSUME NEW x PROVE x \in Places(gs) <=> IsPlace(x, gs)
  <2>1. x \in Places(gs) <=> \E g \in 1..n : x \in of(g)
    BY <1>1 DEF Places
  <2>2. ASSUME NEW g \in 1..n
        PROVE  x \in of(g) <=> \E i \in 1..Len(gs[g]) : x = <<g, i>> /\ Pairable(gs[g][i])
    <3> DEFINE able == {i \in DOMAIN gs[g] : Pairable(gs[g][i])}
    <3>1. \A i : i \in able <=> i \in 1..Len(gs[g]) /\ Pairable(gs[g][i])
      BY <1>1
    <3>2. of(g) = {g} \X able
      OBVIOUS
    <3> HIDE DEF able
    <3>3. x \in {g} \X able <=> \E i \in able : x = <<g, i>>
      OBVIOUS
    <3> HIDE DEF of
    <3> QED  BY <3>1, <3>2, <3>3
  <2> HIDE DEF of
  <2> QED  BY <2>1, <2>2 DEF IsPlace
<1>3. \A g \in 1..n : IsFiniteSet(of(g))
  <2> TAKE g \in 1..n
  <2>1. IsFiniteSet(1..Len(gs[g]))
    <3> DEFINE m == Len(gs[g])
    <3>1. m \in Nat
      BY <1>1
    <3> HIDE DEF m
    <3>2. IsFiniteSet(1..m)
      BY <3>1, FS_Interval
    <3> QED  BY <3>2 DEF m
  <2>2. IsFiniteSet({i \in DOMAIN gs[g] : Pairable(gs[g][i])})
    BY <1>1, <2>1, FS_Subset
  <2> QED  BY <2>2, FS_Singleton, FS_Product
<1>4. IsFiniteSet(Places(gs))
  <2> DEFINE S == {of(g) : g \in DOMAIN gs}
             f == [g \in 1..n |-> of(g)]
  <2>1. IsFiniteSet(1..n)
    BY <1>1, FS_Interval
  <2>2. f \in [1..n -> S] /\ \A y \in S : \E g \in 1..n : f[g] = y
    BY <1>1
  <2>3. \A T \in S : IsFiniteSet(T)
    BY <1>1, <1>3
  <2>4. Places(gs) = UNION S
    BY DEF Places
  <2> HIDE DEF S, f
  <2>5. IsFiniteSet(S)
    BY <2>1, <2>2, ImageIsFinite
  <2> QED  BY <2>3, <2>4, <2>5, FS_UNION
<1> QED  BY <1>2, <1>4

(* Some of the groups have no more places than all of them. *)
LEMMA ReindexedPlaces ==
  ASSUME NEW gs \in Seq(Seq(Occurrences)), NEW hs \in Seq(Seq(Occurrences)), IsReindexed(hs, gs)
  PROVE  Cardinality(Places(hs)) <= Cardinality(Places(gs))
<1>1. PICK m \in Nat : \E p \in [1..m -> 1..Len(gs)] :
        /\ hs = [k \in 1..m |-> gs[p[k]]]
        /\ \A k, l \in 1..m : p[k] = p[l] => k = l
  BY DEF IsReindexed
<1>2. PICK p \in [1..m -> 1..Len(gs)] :
        /\ hs = [k \in 1..m |-> gs[p[k]]]
        /\ \A k, l \in 1..m : p[k] = p[l] => k = l
  BY <1>1
<1>3. Len(hs) = m /\ \A k \in 1..m : hs[k] = gs[p[k]] /\ p[k] \in 1..Len(gs)
  BY <1>2
<1> DEFINE S == Places(hs)
           T == Places(gs)
           f == [x \in S |-> <<p[x[1]], x[2]>>]
<1>4. IsFiniteSet(T) /\ (\A x : x \in S <=> IsPlace(x, hs)) /\ (\A x : x \in T <=> IsPlace(x, gs))
  BY PlacesAre
<1> HIDE DEF S, T
<1>5. ASSUME NEW x \in S
      PROVE  \E k \in 1..m : \E i \in 1..Len(hs[k]) : x = <<k, i>> /\ f[x] = <<p[k], i>> /\ f[x] \in T
  <2>1. PICK k \in 1..m : \E i \in 1..Len(hs[k]) : x = <<k, i>> /\ Pairable(hs[k][i])
    BY <1>3, <1>4 DEF IsPlace
  <2>2. PICK i \in 1..Len(hs[k]) : x = <<k, i>> /\ Pairable(hs[k][i])
    BY <2>1
  <2>3. f[x] = <<p[k], i>>
    BY <2>2
  <2>4. p[k] \in 1..Len(gs) /\ i \in 1..Len(gs[p[k]]) /\ Pairable(gs[p[k]][i])
    BY <1>3, <2>2
  <2>5. IsPlace(<<p[k], i>>, gs)
    BY <2>4 DEF IsPlace
  <2> HIDE DEF f
  <2> QED  BY <1>4, <2>2, <2>3, <2>5
<1>6. f \in [S -> T]
  <2>1. \A x \in S : f[x] \in T
    BY <1>5
  <2> QED  BY <2>1
<1> HIDE DEF f
<1>7. \A x, y \in S : f[x] = f[y] => x = y
  <2> SUFFICES ASSUME NEW x \in S, NEW y \in S, f[x] = f[y] PROVE x = y
    OBVIOUS
  <2>1. PICK k \in 1..m : \E i \in 1..Len(hs[k]) : x = <<k, i>> /\ f[x] = <<p[k], i>>
    BY <1>5
  <2>2. PICK i \in 1..Len(hs[k]) : x = <<k, i>> /\ f[x] = <<p[k], i>>
    BY <2>1
  <2>3. PICK l \in 1..m : \E j \in 1..Len(hs[l]) : y = <<l, j>> /\ f[y] = <<p[l], j>>
    BY <1>5
  <2>4. PICK j \in 1..Len(hs[l]) : y = <<l, j>> /\ f[y] = <<p[l], j>>
    BY <2>3
  <2>5. p[k] = p[l] /\ i = j
    BY <2>2, <2>4
  <2>6. k = l
    BY <1>2, <2>5
  <2> QED  BY <2>2, <2>4, <2>5, <2>6
<1>8. f \in Injection(S, T)
  BY <1>6, <1>7, Fun_IsInj
<1>9. Cardinality(S) <= Cardinality(T)
  BY <1>4, <1>8, FS_Injection
<1> QED  BY <1>9 DEF S, T

(* The merged copies take the places of leading ones; those of the trailing *)
(* ones are gone.                                                          *)
LEMMA MergedPlaces ==
  ASSUME NEW ls \in Seq(Nat), NEW gs, IsSound(gs, ls, spanFiles),
         NEW i \in 1..Len(gs), NEW j \in 1..Len(gs), i # j,
         NEW pairs, ArePaired(gs[i], gs[j], pairs), Len(pairs) >= 2,
         Reportable(Merged(gs[i], gs[j], pairs))
  PROVE  Cardinality(Places(All(gs, i, j, pairs))) < Cardinality(Places(gs))
<1> DEFINE n == Len(gs)
           P == Leadings(pairs)
           Q == Trailings(pairs)
           one == Retained(gs[i], P)
           two == Retained(gs[j], Q)
           merged == Merged(gs[i], gs[j], pairs)
           staying == Staying(gs, i, j, pairs)
           all == All(gs, i, j, pairs)
           S == Places(all)
           T == Places(gs)
           f == [x \in S |-> IF x[1] = n + 1 THEN <<i, pairs[x[2]][1]>> ELSE x]
           lost == <<j, pairs[1][2]>>
<1>1. /\ gs \in Seq(Seq(Occurrences)) /\ n \in Nat
      /\ \A k \in 1..n : gs[k] \in Seq(Occurrences) /\ IsSoundGroup(gs[k], ls, spanFiles)
  BY DEF IsSound
<1>2. /\ staying \in Seq(Seq(Occurrences)) /\ Len(staying) = n
      /\ merged \in Seq(Occurrences)
  BY AllAreSound
<1>3. /\ \A x \in 1..Len(gs[i]) : Pairable(one[x]) => Pairable(gs[i][x]) /\ x \notin P
      /\ Len(one) = Len(gs[i])
  BY <1>1, RetainedGroups DEF Pairable
<1>4. /\ \A x \in 1..Len(gs[j]) : Pairable(two[x]) => Pairable(gs[j][x]) /\ x \notin Q
      /\ Len(two) = Len(gs[j])
  BY <1>1, RetainedGroups DEF Pairable
<1>5. Len(merged) = Len(pairs)
  <2>1. AreMerged(ls, gs[i], gs[j], pairs, merged)
    BY <1>1, MergedGroups
  <2> QED  BY <2>1 DEF AreMerged
<1>6. /\ \A k \in 1..n : staying[k] = IF k = j THEN two ELSE IF k = i THEN one ELSE gs[k]
      /\ all = Append(staying, merged)
  BY <1>1 DEF Staying, All
<1>7. /\ \A k \in 1..Len(pairs) :
           /\ pairs[k][1] \in 1..Len(gs[i]) /\ pairs[k][2] \in 1..Len(gs[j])
           /\ Pairable(gs[i][pairs[k][1]]) /\ Pairable(gs[j][pairs[k][2]])
           /\ pairs[k][1] \in P /\ pairs[k][2] \in Q
           /\ pairs[k][1] \in Nat
      /\ \A k, l \in 1..Len(pairs) : k < l => pairs[k][1] < pairs[l][1]
      /\ Len(pairs) \in Nat
  <2>1. DOMAIN pairs = 1..Len(pairs) /\ Len(pairs) \in Nat
    BY DEF ArePaired
  <2>2. ASSUME NEW k \in 1..Len(pairs)
        PROVE  /\ pairs[k][1] \in 1..Len(gs[i]) /\ pairs[k][2] \in 1..Len(gs[j])
               /\ Pairable(gs[i][pairs[k][1]]) /\ Pairable(gs[j][pairs[k][2]])
               /\ pairs[k][1] \in Nat
    <3>1. /\ pairs[k][1] \in 1..Len(gs[i]) /\ pairs[k][2] \in 1..Len(gs[j])
          /\ CanPair(gs[i][pairs[k][1]], gs[j][pairs[k][2]])
      BY DEF ArePaired
    <3>2. pairs[k] \in Nat \X Nat
      BY DEF ArePaired
    <3> QED  BY <3>1, <3>2 DEF CanPair
  <2>3. \A k \in 1..Len(pairs) : pairs[k][1] \in P /\ pairs[k][2] \in Q
    BY <2>1 DEF Leadings, Trailings
  <2>4. \A k, l \in 1..Len(pairs) : k < l => pairs[k][1] < pairs[l][1]
    BY DEF ArePaired
  <2> QED  BY <2>1, <2>2, <2>3, <2>4
<1> HIDE DEF P, Q, one, two, merged, staying
<1>8. /\ all \in Seq(Seq(Occurrences)) /\ Len(all) = n + 1
      /\ \A k \in 1..n : all[k] = staying[k]
      /\ all[n + 1] = merged
  <2>0. all = Append(staying, merged) /\ n \in Nat
    BY <1>1, <1>6
  <2> HIDE DEF all, n
  <2>1. all \in Seq(Seq(Occurrences)) /\ Len(all) = n + 1
    BY <1>2, <2>0
  <2>2. \A k \in 1..n : all[k] = staying[k]
    BY <1>2, <2>0
  <2>3. all[Len(staying) + 1] = merged
    BY <1>2, <2>0
  <2> QED  BY <1>2, <2>1, <2>2, <2>3
<1> HIDE DEF all
<1>9. IsFiniteSet(T) /\ (\A x : x \in S <=> IsPlace(x, all)) /\ (\A x : x \in T <=> IsPlace(x, gs))
  BY <1>1, <1>8, PlacesAre
<1> HIDE DEF S, T, n
<1>10. ASSUME NEW x \in S
       PROVE  \/ \E k \in 1..n, y \in Nat :
                   /\ x = <<k, y>> /\ x \in T /\ f[x] = x /\ x # lost
                   /\ k = i => y \notin P
              \/ \E y \in 1..Len(pairs) : /\ x = <<n + 1, y>> /\ f[x] = <<i, pairs[y][1]>>
                                          /\ f[x] \in T /\ pairs[y][1] \in P
  <2>1. PICK k \in 1..(n + 1) : \E y \in 1..Len(all[k]) : x = <<k, y>> /\ Pairable(all[k][y])
    BY <1>8, <1>9 DEF IsPlace
  <2>2. PICK y \in 1..Len(all[k]) : x = <<k, y>> /\ Pairable(all[k][y])
    BY <2>1
  <2>3. x[1] = k /\ x[2] = y
    BY <2>2
  <2>4. CASE k = n + 1
    <3>1. y \in 1..Len(pairs)
      BY <1>5, <1>8, <2>4
    <3>2. f[x] = <<i, pairs[y][1]>>
      BY <2>3, <2>4
    <3>3. pairs[y][1] \in 1..Len(gs[i]) /\ Pairable(gs[i][pairs[y][1]]) /\ pairs[y][1] \in P
      BY <1>7, <3>1
    <3>4. IsPlace(<<i, pairs[y][1]>>, gs)
      BY <3>3 DEF IsPlace
    <3>5. <<i, pairs[y][1]>> \in T
      BY <1>9, <3>4
    <3> HIDE DEF f
    <3> QED  BY <2>2, <2>4, <3>1, <3>2, <3>3, <3>5
  <2>5. CASE k # n + 1
    <3>1. k \in 1..n /\ all[k] = staying[k]
      <4>1. n \in Nat
        BY <1>1
      <4>2. k \in 1..n
        BY <2>5, <4>1
      <4> QED  BY <1>8, <4>2
    <3>2. f[x] = x
      BY <2>3, <2>5
    <3>3. /\ y \in 1..Len(gs[k]) /\ Pairable(gs[k][y])
          /\ k = i => y \notin P
          /\ k = j => y \notin Q
      <4>1. CASE k = i
        <5>1. all[k] = one
          BY <1>6, <3>1, <4>1
        <5> QED  BY <1>3, <2>2, <4>1, <5>1
      <4>2. CASE k = j
        <5>1. all[k] = two
          BY <1>6, <3>1, <4>2
        <5> QED  BY <1>4, <2>2, <4>2, <5>1
      <4>3. CASE k # i /\ k # j
        <5>1. all[k] = gs[k]
          BY <1>6, <3>1, <4>3
        <5> QED  BY <2>2, <4>3, <5>1
      <4> QED  BY <4>1, <4>2, <4>3
    <3>4. x \in T
      <4>1. IsPlace(x, gs)
        BY <2>2, <3>1, <3>3 DEF IsPlace, n
      <4> QED  BY <1>9, <4>1
    <3>5. x # lost
      <4>1. pairs[1][2] \in Q
        BY <1>7
      <4> QED  BY <2>2, <3>3, <4>1
    <3>6. y \in Nat
      BY <1>1, <3>1, <3>3
    <3> HIDE DEF f, lost
    <3> QED  BY <2>2, <3>1, <3>2, <3>3, <3>4, <3>5, <3>6
  <2> QED  BY <2>4, <2>5
<1>11. f \in [S -> T]
  <2>1. \A x \in S : f[x] \in T
    BY <1>10
  <2> QED  BY <2>1
<1>12. lost \in T /\ \A x \in S : f[x] # lost
  <2>1. pairs[1][2] \in 1..Len(gs[j]) /\ Pairable(gs[j][pairs[1][2]])
    BY <1>7
  <2>2. IsPlace(lost, gs)
    BY <2>1 DEF IsPlace
  <2>3. ASSUME NEW x \in S PROVE f[x] # lost
    <3>1. CASE f[x] = x /\ x # lost
      BY <3>1
    <3>2. CASE \E y \in 1..Len(pairs) : f[x] = <<i, pairs[y][1]>>
      BY <3>2
    <3> HIDE DEF f, lost
    <3> QED  BY <1>10, <3>1, <3>2
  <2> QED  BY <1>9, <2>2, <2>3
<1> HIDE DEF f, lost
<1>13. \A x, y \in S : f[x] = f[y] => x = y
  <2> SUFFICES ASSUME NEW x \in S, NEW y \in S, f[x] = f[y] PROVE x = y
    OBVIOUS
  <2> DEFINE stays(z) == \E k \in 1..n, q \in Nat : z = <<k, q>> /\ f[z] = z /\ (k = i => q \notin P)
             joins(z) == \E q \in 1..Len(pairs) :
                           z = <<n + 1, q>> /\ f[z] = <<i, pairs[q][1]>> /\ pairs[q][1] \in P
  <2>1. \A z \in S : stays(z) \/ joins(z)
    BY <1>10
  <2>2. CASE stays(x) /\ stays(y)
    BY <2>2
  <2>3. CASE joins(x) /\ joins(y)
    <3>1. PICK q \in 1..Len(pairs) : x = <<n + 1, q>> /\ f[x] = <<i, pairs[q][1]>>
      BY <2>3
    <3>2. PICK r \in 1..Len(pairs) : y = <<n + 1, r>> /\ f[y] = <<i, pairs[r][1]>>
      BY <2>3
    <3>3. pairs[q][1] = pairs[r][1]
      BY <3>1, <3>2
    <3>4. ~(q < r) /\ ~(r < q)
      BY <1>7, <3>3
    <3>5. q = r
      BY <1>7, <3>4
    <3> QED  BY <3>1, <3>2, <3>5
  <2>4. ASSUME NEW u \in S, NEW v \in S, stays(u), joins(v) PROVE f[u] # f[v]
    <3>1. PICK k \in 1..n, q \in Nat : u = <<k, q>> /\ f[u] = u /\ (k = i => q \notin P)
      BY <2>4
    <3>2. PICK r \in 1..Len(pairs) : f[v] = <<i, pairs[r][1]>> /\ pairs[r][1] \in P
      BY <2>4
    <3> QED  BY <3>1, <3>2
  <2> HIDE DEF stays, joins
  <2> QED  BY <2>1, <2>2, <2>3, <2>4
<1>14. f \in Injection(S, T)
  BY <1>11, <1>13, Fun_IsInj
<1>15. f \notin Surjection(S, T)
  BY <1>12 DEF Surjection
<1>16. Cardinality(S) <= Cardinality(T) /\ Cardinality(S) # Cardinality(T)
  BY <1>9, <1>14, <1>15, FS_Injection
<1>17. Cardinality(S) \in Nat /\ Cardinality(T) \in Nat
  BY <1>9, <1>14, FS_Injection, FS_CardinalityType
<1>18. Cardinality(S) < Cardinality(T)
  BY <1>16, <1>17
<1> QED  BY <1>18 DEF S, T, all

-----------------------------------------------------------------------------
(* What is covered stays covered.                                          *)

AllTokens(gs) == UNION {GroupTokens(g) : g \in ToSet(gs)}

IsCovered(x, gs) == \E g \in 1..Len(gs) : \E i \in 1..Len(gs[g]) : x \in Tokens(gs[g][i])

LEMMA TokensAreCovered ==
  ASSUME NEW gs \in Seq(Seq(Occurrences)), NEW x
  PROVE  x \in AllTokens(gs) <=> IsCovered(x, gs)
<1>1. /\ ToSet(gs) = {gs[g] : g \in 1..Len(gs)}
      /\ \A g \in 1..Len(gs) : ToSet(gs[g]) = {gs[g][i] : i \in 1..Len(gs[g])}
  <2>1. DOMAIN gs = 1..Len(gs) /\ \A g \in 1..Len(gs) : DOMAIN gs[g] = 1..Len(gs[g])
    OBVIOUS
  <2> QED  BY <2>1 DEF ToSet
<1>2. \A g \in 1..Len(gs) : x \in GroupTokens(gs[g]) <=> \E i \in 1..Len(gs[g]) : x \in Tokens(gs[g][i])
  BY <1>1, Zenon DEF GroupTokens
<1>3. x \in AllTokens(gs) <=> \E g \in 1..Len(gs) : x \in GroupTokens(gs[g])
  BY <1>1, Zenon DEF AllTokens
<1> QED  BY <1>2, <1>3 DEF IsCovered

(* at goes through some of n places, from the first to the last. *)
Visits(at, m, n) ==
  /\ at \in [1..m -> 1..n]
  /\ \A k, l \in 1..m : k < l => at[k] < at[l]

Reaches(at, m, i) == \E k \in 1..m : at[k] = i

(* In a group that is replaced every copy is paired. *)
LEMMA ReplacedArePaired ==
  ASSUME NEW g \in Seq(Occurrences), NEW pairs, Replaced(g, pairs), Len(pairs) \in Nat,
         NEW at, Visits(at, Len(pairs), Len(g)), NEW place \in 1..Len(g)
  PROVE  Reaches(at, Len(pairs), place)
<1> DEFINE n == Len(g)
           m == Len(pairs)
<1>1. n \in Nat /\ DOMAIN g = 1..n
  OBVIOUS
<1>2. m = n
  <2>1. \A i \in 1..n : ~g[i].nested
    BY <1>1 DEF Replaced, ToSet
  <2>2. {i \in DOMAIN g : ~g[i].nested} = 1..n
    BY <1>1, <2>1
  <2>3. m = Cardinality(1..n)
    BY <2>2 DEF Replaced, FullyPaired, StandaloneCount
  <2> HIDE DEF n, m
  <2>4. Cardinality(1..n) = n
    BY <1>1, FS_Interval
  <2> QED  BY <2>3, <2>4
<1> HIDE DEF n
<1>3. at \in [1..n -> 1..n] /\ \A k, l \in 1..n : k < l => at[k] < at[l]
  BY <1>2 DEF n, Visits
<1>4. \A k, l \in 1..n : at[k] = at[l] => k = l
  <2> SUFFICES ASSUME NEW k \in 1..n, NEW l \in 1..n, at[k] = at[l] PROVE k = l
    OBVIOUS
  <2>1. at[k] \in Nat /\ at[l] \in Nat
    BY <1>1, <1>3
  <2>2. ~(k < l) /\ ~(l < k)
    BY <1>3, <2>1
  <2> QED  BY <1>1, <2>2
<1>5. at \in Injection(1..n, 1..n)
  BY <1>3, <1>4, Fun_IsInj
<1>6. at \in Surjection(1..n, 1..n)
  BY <1>1, <1>5, FS_Interval, FS_Injection
<1>7. \A y \in 1..n : \E k \in 1..n : at[k] = y
  BY <1>6 DEF Surjection
<1>8. place \in 1..n
  BY DEF n
<1> QED  BY <1>2, <1>7, <1>8 DEF n, Reaches

LEMMA StaysCovered ==
  ASSUME NEW ls \in Seq(Nat), IsSound(groups, ls, spanFiles),
         NEW i \in 1..Len(groups), NEW j \in 1..Len(groups), i # j,
         Mergeable(groups[i], groups[j]), NEW x, IsCovered(x, groups)
  PROVE  IsCovered(x, AfterMerge(i, j))
<1> DEFINE n == Len(groups)
           pairs == Pairs(groups[i], groups[j])
           one == Retained(groups[i], Leadings(pairs))
           two == Retained(groups[j], Trailings(pairs))
           merged == Merged(groups[i], groups[j], pairs)
           staying == Staying(groups, i, j, pairs)
           all == All(groups, i, j, pairs)
           gone == Gone(groups, i, j, pairs)
           hs == AfterMerge(i, j)
<1>1. /\ groups \in Seq(Seq(Occurrences)) /\ n \in Nat
      /\ \A k \in 1..n : groups[k] \in Seq(Occurrences) /\ IsSoundGroup(groups[k], ls, spanFiles)
  BY DEF IsSound
<1>2. AreLeft(hs, all, gone)
  BY AfterMergeIs
<1>3. /\ ArePaired(groups[i], groups[j], pairs) /\ Len(pairs) >= 2
      /\ Reportable(merged)
  BY <1>1, MergeablePairs
<1>4. /\ staying \in Seq(Seq(Occurrences)) /\ Len(staying) = n
      /\ merged \in Seq(Occurrences)
  <2> HIDE DEF pairs
  <2> QED  BY <1>3, AllAreSound
<1>5. /\ Len(one) = Len(groups[i])
      /\ \A k \in 1..Len(groups[i]) : Tokens(one[k]) = Tokens(groups[i][k])
  BY <1>1, RetainedGroups
<1>6. /\ Len(two) = Len(groups[j])
      /\ \A k \in 1..Len(groups[j]) : Tokens(two[k]) = Tokens(groups[j][k])
  BY <1>1, RetainedGroups
<1>7. /\ Len(merged) = Len(pairs)
      /\ \A k \in 1..Len(pairs) :
           Tokens(merged[k]) = Tokens(groups[i][pairs[k][1]]) \cup Tokens(groups[j][pairs[k][2]])
  <2>1. AreMerged(ls, groups[i], groups[j], pairs, merged)
    BY <1>1, <1>3, MergedGroups
  <2> QED  BY <2>1 DEF AreMerged
<1>8. /\ \A k \in 1..n : staying[k] = IF k = j THEN two ELSE IF k = i THEN one ELSE groups[k]
      /\ all = Append(staying, merged)
  <2> HIDE DEF pairs
  <2> QED  BY <1>1 DEF Staying, All
<1>9. \A k \in gone : (k = i /\ Replaced(groups[i], pairs)) \/ (k = j /\ Replaced(groups[j], pairs))
  BY DEF Gone
<1> HIDE DEF pairs, one, two, merged, staying, gone, hs
<1>10. /\ Len(all) = n + 1
       /\ \A k \in 1..n : all[k] = staying[k]
       /\ all[n + 1] = merged
  <2>0. all = Append(staying, merged) /\ n \in Nat
    BY <1>1, <1>8
  <2> HIDE DEF all, n
  <2>1. all \in Seq(Seq(Occurrences)) /\ Len(all) = n + 1
    BY <1>4, <2>0
  <2>2. \A k \in 1..n : all[k] = staying[k]
    BY <1>4, <2>0
  <2>3. all[Len(staying) + 1] = merged
    BY <1>4, <2>0
  <2> QED  BY <1>4, <2>1, <2>2, <2>3
<1> HIDE DEF all, n
<1>11. \A k \in 1..(n + 1) : k \notin gone => \E m \in 1..Len(hs) : hs[m] = all[k]
  BY <1>2, <1>10 DEF AreLeft
<1>12. i \in 1..n /\ j \in 1..n
  BY DEF n
<1>13. SUFFICES \E k \in 1..(n + 1) : k \notin gone /\ \E y \in 1..Len(all[k]) : x \in Tokens(all[k][y])
  <2>1. PICK k \in 1..(n + 1) : k \notin gone /\ \E y \in 1..Len(all[k]) : x \in Tokens(all[k][y])
    BY <1>13
  <2>2. PICK m \in 1..Len(hs) : hs[m] = all[k]
    BY <1>11, <2>1
  <2>3. \E y \in 1..Len(hs[m]) : x \in Tokens(hs[m][y])
    BY <2>1, <2>2
  <2>4. IsCovered(x, hs)
    BY <2>3 DEF IsCovered
  <2> QED  BY <2>4 DEF hs
<1>14. PICK g \in 1..n : \E y \in 1..Len(groups[g]) : x \in Tokens(groups[g][y])
  BY DEF IsCovered, n
<1>15. PICK y \in 1..Len(groups[g]) : x \in Tokens(groups[g][y])
  BY <1>14
<1>16. g \in 1..(n + 1) /\ n + 1 \in 1..(n + 1) /\ n + 1 \notin gone
  <2>1. n \in Nat /\ n + 1 # i /\ n + 1 # j
    BY <1>1, <1>12
  <2> QED  BY <1>9, <2>1
<1>17. CASE g \notin gone
  <2>1. y \in 1..Len(all[g]) /\ x \in Tokens(all[g][y])
    <3>1. CASE g = j
      <4>1. all[g] = two
        BY <1>8, <1>10, <3>1
      <4> QED  BY <1>6, <1>15, <3>1, <4>1
    <3>2. CASE g = i
      <4>1. all[g] = one
        BY <1>8, <1>10, <3>2
      <4> QED  BY <1>5, <1>15, <3>2, <4>1
    <3>3. CASE g # i /\ g # j
      <4>1. all[g] = groups[g]
        BY <1>8, <1>10, <3>3
      <4> QED  BY <1>15, <4>1
    <3> QED  BY <3>1, <3>2, <3>3
  <2> QED  BY <1>16, <1>17, <2>1
<1>18. /\ Len(pairs) \in Nat
       /\ \A k \in 1..Len(pairs) :
            pairs[k][1] \in 1..Len(groups[i]) /\ pairs[k][2] \in 1..Len(groups[j])
       /\ \A k, l \in 1..Len(pairs) : k < l => pairs[k][1] < pairs[l][1] /\ pairs[k][2] < pairs[l][2]
  <2>1. ArePaired(groups[i], groups[j], pairs)
    BY <1>3
  <2>2. ASSUME NEW k \in 1..Len(pairs)
        PROVE  pairs[k][1] \in 1..Len(groups[i]) /\ pairs[k][2] \in 1..Len(groups[j])
    BY <2>1 DEF ArePaired
  <2>3. \A k, l \in 1..Len(pairs) : k < l => pairs[k][1] < pairs[l][1] /\ pairs[k][2] < pairs[l][2]
    BY <2>1 DEF ArePaired
  <2>4. Len(pairs) \in Nat
    BY <2>1 DEF ArePaired
  <2> QED  BY <2>2, <2>3, <2>4
<1>19. CASE g \in gone
  <2>1. \E k \in 1..Len(pairs) : x \in Tokens(merged[k])
    <3>2. CASE g = i /\ Replaced(groups[i], pairs)
      <4> DEFINE at == [k \in 1..Len(pairs) |-> pairs[k][1]]
      <4>1. Visits(at, Len(pairs), Len(groups[i]))
        BY <1>18 DEF Visits
      <4>2. \A k \in 1..Len(pairs) : at[k] = pairs[k][1]
        OBVIOUS
      <4> HIDE DEF at
      <4>3. groups[i] \in Seq(Occurrences)
        BY <1>1, <1>12
      <4>4. Replaced(groups[i], pairs) /\ Len(pairs) \in Nat /\ y \in 1..Len(groups[i])
        BY <1>15, <1>18, <3>2
      <4>5. Reaches(at, Len(pairs), y)
        BY <4>1, <4>3, <4>4, ReplacedArePaired
      <4>6. PICK k \in 1..Len(pairs) : at[k] = y
        BY <4>5 DEF Reaches
      <4>7. pairs[k][1] = y /\ x \in Tokens(groups[i][y])
        BY <1>15, <3>2, <4>2, <4>6
      <4>8. x \in Tokens(merged[k])
        BY <1>7, <4>7
      <4> QED  BY <4>8
    <3>3. CASE g = j /\ Replaced(groups[j], pairs)
      <4> DEFINE at == [k \in 1..Len(pairs) |-> pairs[k][2]]
      <4>1. Visits(at, Len(pairs), Len(groups[j]))
        BY <1>18 DEF Visits
      <4>2. \A k \in 1..Len(pairs) : at[k] = pairs[k][2]
        OBVIOUS
      <4> HIDE DEF at
      <4>3. groups[j] \in Seq(Occurrences)
        BY <1>1, <1>12
      <4>4. Replaced(groups[j], pairs) /\ Len(pairs) \in Nat /\ y \in 1..Len(groups[j])
        BY <1>15, <1>18, <3>3
      <4>5. Reaches(at, Len(pairs), y)
        BY <4>1, <4>3, <4>4, ReplacedArePaired
      <4>6. PICK k \in 1..Len(pairs) : at[k] = y
        BY <4>5 DEF Reaches
      <4>7. pairs[k][2] = y /\ x \in Tokens(groups[j][y])
        BY <1>15, <3>3, <4>2, <4>6
      <4>8. x \in Tokens(merged[k])
        BY <1>7, <4>7
      <4> QED  BY <4>8
    <3> QED  BY <1>9, <1>19, <3>2, <3>3
  <2> QED  BY <1>7, <1>10, <1>16, <2>1
<1> QED  BY <1>17, <1>19

(* One merge of either order. *)
LEMMA MergeShrinks ==
  ASSUME NEW ls \in Seq(Nat), IsSound(groups, ls, spanFiles),
         NEW i \in 1..Len(groups), NEW j \in 1..Len(groups), i # j,
         Mergeable(groups[i], groups[j]), groups' = AfterMerge(i, j)
  PROVE  PairableCount' < PairableCount /\ Covered \subseteq Covered'
<1> DEFINE pairs == Pairs(groups[i], groups[j])
           all == All(groups, i, j, pairs)
           gs == groups
           hs == AfterMerge(i, j)
<1>1. gs \in Seq(Seq(Occurrences))
  BY DEF IsSound
<1>2. AreLeft(hs, all, Gone(groups, i, j, pairs)) /\ IsSound(all, ls, spanFiles)
  BY AfterMergeIs
<1>3. /\ ArePaired(groups[i], groups[j], pairs) /\ Len(pairs) >= 2
      /\ Reportable(Merged(groups[i], groups[j], pairs))
  <2>1. IsSoundGroup(groups[i], ls, spanFiles) /\ IsSoundGroup(groups[j], ls, spanFiles)
    BY DEF IsSound
  <2> QED  BY <2>1, MergeablePairs
<1>4. IsSound(hs, ls, spanFiles)
  BY AfterMergeIsSound
<1>5. all \in Seq(Seq(Occurrences)) /\ hs \in Seq(Seq(Occurrences))
  BY <1>2, <1>4 DEF IsSound
<1>6. Cardinality(Places(all)) < Cardinality(Places(gs))
  <2> HIDE DEF pairs
  <2> QED  BY <1>3, MergedPlaces
<1>7. \A x : IsCovered(x, gs) => IsCovered(x, hs)
  BY StaysCovered
<1>8. PairableCount = Cardinality(Places(gs)) /\ PairableCount' = Cardinality(Places(hs))
  BY DEF PairableCount, PairablePlaces, Places
<1>9. Covered = AllTokens(gs) /\ Covered' = AllTokens(hs)
  BY DEF Covered, AllTokens
<1> HIDE DEF all, gs, hs
<1>10. Cardinality(Places(hs)) <= Cardinality(Places(all))
  BY <1>2, <1>5, ReindexedPlaces DEF AreLeft
<1>11. PairableCount' < PairableCount
  <2>1. /\ Cardinality(Places(hs)) \in Nat /\ Cardinality(Places(all)) \in Nat
        /\ Cardinality(Places(gs)) \in Nat
    BY <1>1, <1>5, PlacesAre, FS_CardinalityType
  <2> QED  BY <1>6, <1>8, <1>10, <2>1
<1>12. Covered \subseteq Covered'
  <2> SUFFICES ASSUME NEW x \in AllTokens(gs) PROVE x \in AllTokens(hs)
    BY <1>9
  <2>1. IsCovered(x, gs)
    BY <1>1, TokensAreCovered
  <2>2. IsCovered(x, hs)
    BY <1>7, <2>1
  <2> QED  BY <1>5, <2>2, TokensAreCovered
<1> QED  BY <1>11, <1>12

LEMMA MergeNextShrinks ==
  ASSUME CloneInv, MergeNext
  PROVE  PairableCount' < PairableCount /\ Covered \subseteq Covered'
<1>1. IsSound(groups, lengths, spanFiles) /\ lengths \in Seq(Nat)
  BY DEF CloneInv, CandidatesInv
<1>2. PICK l, r \in DOMAIN groups :
        /\ l < r /\ MergesEitherWay(l, r)
        /\ groups' = IF Mergeable(groups[l], groups[r]) THEN AfterMerge(l, r) ELSE AfterMerge(r, l)
  BY DEF MergeNext
<1>3. l \in 1..Len(groups) /\ r \in 1..Len(groups) /\ l # r /\ r # l
  <2>1. DOMAIN groups = 1..Len(groups) /\ Len(groups) \in Nat
    BY <1>1 DEF IsSound
  <2> QED  BY <1>2, <2>1
<1>4. CASE Mergeable(groups[l], groups[r])
  <2>1. groups' = AfterMerge(l, r)
    BY <1>2, <1>4
  <2> QED  BY <1>1, <1>3, <1>4, <2>1, MergeShrinks
<1>5. CASE ~Mergeable(groups[l], groups[r])
  <2>1. Mergeable(groups[r], groups[l]) /\ groups' = AfterMerge(r, l)
    BY <1>2, <1>5 DEF MergesEitherWay
  <2> QED  BY <1>1, <1>3, <2>1, MergeShrinks
<1> QED  BY <1>4, <1>5

(* Every merge leaves fewer copies that could be paired, which is why the    *)
(* loop ends, and uncovers no token.                                       *)
THEOREM MergingComesToAnEnd == CloneSpec => MergesShrinkTheWork
<1>1. CloneInv => (MergeNext => PairableCount' < PairableCount /\ Covered \subseteq Covered')
  BY MergeNextShrinks
<1>2. CloneInv => [MergeNext => PairableCount' < PairableCount /\ Covered \subseteq Covered']_cloneVars
  BY <1>1
<1> QED  BY <1>2, CloneInvariant, PTL DEF MergesShrinkTheWork
=============================================================================
