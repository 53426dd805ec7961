----------------------------- MODULE CheckProofs -----------------------------
(***************************************************************************)
(* What a check of a change reports of functions against the check of the  *)
(* whole file, for every file and every change; what the exit code of a    *)
(* run tells, for any number of files, changes and edits; and the order of *)
(* a file's duplicated regions, for every set of inputs.                   *)
(***************************************************************************)
EXTENDS DuplicatedRegions, ChangeCheck, CheckCommand, FiniteSetTheorems, SequenceTheorems, TLAPS

(* Functions as the measurement places them, with the values of any metrics. *)
ArePlaced(functions) ==
  \A f \in DOMAIN functions : functions[f].startLine \in Nat /\ functions[f].endLine \in Nat

(* Spans within one another. *)
LEMMA EnclosingIsTransitive ==
  ASSUME NEW a, NEW b, NEW c, Encloses(a, b), Encloses(b, c),
         a.startLine \in Nat, b.startLine \in Nat, c.startLine \in Nat,
         a.endLine \in Nat, b.endLine \in Nat, c.endLine \in Nat,
         a.startColumn \in {1, 2}, b.startColumn \in {1, 2}, c.startColumn \in {1, 2},
         a.endColumn = 9, b.endColumn = 9, c.endColumn = 9
  PROVE  Encloses(a, c)
<1>1. \/ a.startLine < c.startLine
      \/ a.startLine = c.startLine /\ a.startColumn <= c.startColumn
  BY DEF Encloses
<1>2. \/ c.endLine < a.endLine
      \/ a.endLine = c.endLine /\ c.endColumn <= a.endColumn
  BY DEF Encloses
<1> QED  BY <1>1, <1>2 DEF Encloses

(* What touches a function touches every function around it. *)
LEMMA TouchReachesOutwards ==
  ASSUME NEW outer, NEW inner, Encloses(outer, inner),
         outer.startLine \in Nat, outer.endLine \in Nat,
         inner.startLine \in Nat, inner.endLine \in Nat,
         NEW h \in HunkType, NEW byIndentation \in BOOLEAN,
         TouchesSpan(h, inner.startLine, inner.endLine, byIndentation)
  PROVE  TouchesSpan(h, outer.startLine, outer.endLine, byIndentation)
<1>1. outer.startLine <= inner.startLine /\ inner.endLine <= outer.endLine
  BY DEF Encloses
<1>2. h.headStart \in Nat /\ h.headCount \in Nat
  BY DEF HunkType
<1>3. CASE h.headCount = 0
  BY <1>1, <1>2, <1>3 DEF TouchesSpan
<1>4. CASE h.headCount # 0
  BY <1>1, <1>2, <1>4 DEF TouchesSpan
<1> QED
  BY <1>3, <1>4

(* So whatever encloses a checked function is checked. *)
LEMMA EnclosingFunctionIsChecked ==
  ASSUME NEW file, ArePlaced(file.functions), file.endsByIndentation \in BOOLEAN,
         NEW diff \in ChangeType,
         NEW f \in CheckedFunctions(file, diff), NEW g \in DOMAIN file.functions,
         Encloses(file.functions[g], file.functions[f])
  PROVE  g \in CheckedFunctions(file, diff)
<1> DEFINE fn(k) == file.functions[k]
<1>1. f \in DOMAIN file.functions /\ Covers(diff, fn(f).startLine, fn(f).endLine, file.endsByIndentation)
  BY DEF CheckedFunctions
<1>2. /\ fn(f).startLine \in Nat /\ fn(f).endLine \in Nat
      /\ fn(g).startLine \in Nat /\ fn(g).endLine \in Nat
  BY <1>1 DEF ArePlaced
<1>3. CASE diff.whole
  BY <1>3 DEF CheckedFunctions, Covers
<1>4. CASE ~diff.whole
  <2>1. PICK h \in diff.hunks : TouchesSpan(h, fn(f).startLine, fn(f).endLine, file.endsByIndentation)
    BY <1>1, <1>4 DEF Covers
  <2>2. h \in HunkType
    BY <2>1 DEF ChangeType
  <2>3. TouchesSpan(h, fn(g).startLine, fn(g).endLine, file.endsByIndentation)
    BY <1>2, <2>1, <2>2, TouchReachesOutwards
  <2> QED
    BY <2>1, <2>3 DEF CheckedFunctions, Covers
<1> QED
  BY <1>3, <1>4

(* A function that the change touches is judged as in the check of the whole  *)
(* file: no limit of it is reported that a function around it reports in the   *)
(* whole check, and none is lost (isReportedByEnclosingFunction).              *)
THEOREM ChangeJudgesItsFunctionsAsTheFile ==
  ASSUME NEW file, ArePlaced(file.functions), file.endsByIndentation \in BOOLEAN,
         NEW diff \in ChangeType
  PROVE  FunctionExcesses(file, diff) =
           {e \in FunctionExcesses(file, WholeFile) : e.subject \in CheckedFunctions(file, diff)}
<1> DEFINE checked == CheckedFunctions(file, diff)
           all == CheckedFunctions(file, WholeFile)
           own(f, within) == {e \in Exceeded(file.functions[f].values) :
                                ~ReportedByEnclosing(file, within, f, e.metric)}
<1>1. all = DOMAIN file.functions /\ checked \subseteq all
  BY DEF CheckedFunctions, Covers, WholeFile
<1>2. ASSUME NEW f \in checked PROVE own(f, checked) = own(f, all)
  <2>1. ASSUME NEW metric
        PROVE ReportedByEnclosing(file, checked, f, metric) <=> ReportedByEnclosing(file, all, f, metric)
    <3>1. ASSUME NEW g \in all, Encloses(file.functions[g], file.functions[f])
          PROVE g \in checked
      BY <1>1, <3>1, EnclosingFunctionIsChecked
    <3> QED
      BY <1>1, <3>1 DEF ReportedByEnclosing
  <2> QED
    BY <2>1
<1>3. FunctionExcesses(file, diff) = UNION {{[subject |-> f, limit |-> e] : e \in own(f, checked)} : f \in checked}
  BY DEF FunctionExcesses
<1>4. FunctionExcesses(file, WholeFile) = UNION {{[subject |-> f, limit |-> e] : e \in own(f, all)} : f \in all}
  BY DEF FunctionExcesses
<1> HIDE DEF checked, all, own
<1>5. ASSUME NEW e PROVE e \in FunctionExcesses(file, diff)
        <=> e \in FunctionExcesses(file, WholeFile) /\ e.subject \in checked
  BY <1>1, <1>2, <1>3, <1>4
<1> QED
  BY <1>5 DEF checked

(* And so is every directive: what it allows, what outgrew it and whether it *)
(* is used (checkThresholds).                                                *)
THEOREM ChangeUsesDirectivesAsTheFile ==
  ASSUME NEW file, ArePlaced(file.functions), file.endsByIndentation \in BOOLEAN,
         NEW diff \in ChangeType, NEW d
  PROVE  ProblemsOf(file, diff, d) = ProblemsOf(file, WholeFile, d)
<1>1. FunctionExcesses(file, diff) \subseteq FunctionExcesses(file, WholeFile)
  BY ChangeJudgesItsFunctionsAsTheFile
<1>2. FileExcesses(file, diff) \subseteq FileExcesses(file, WholeFile)
  BY DEF FileExcesses, WholeFile
<1>3. JudgedForUsage(file, diff) = JudgedForUsage(file, WholeFile)
  BY <1>1, <1>2 DEF JudgedForUsage, Judged
<1> QED
  BY <1>3 DEF ProblemsOf, Used, Outgrown

-----------------------------------------------------------------------------
(* The measurement of a file: its functions are places of the file, in a   *)
(* sequence without repetition.                                            *)

LEMMA MinIsLeast ==
  ASSUME NEW S, S \subseteq Nat, S # {}
  PROVE  Min(S) \in S /\ \A x \in S : Min(S) <= x
<1>1. \E x \in S : \A y \in S : ~(<<y, x>> \in OpToRel(<, Nat))
  BY NatLessThanWellFounded, WFMin
<1>2. PICK x \in S : \A y \in S : ~(<<y, x>> \in OpToRel(<, Nat))
  BY <1>1
<1>3. \A y \in S : ~(y < x)
  BY <1>2 DEF OpToRel
<1>4. \A y \in S : x =< y
  BY <1>3
<1> QED  BY <1>4 DEF Min

LEMMA MaxIsGreatest ==
  ASSUME NEW n \in Nat, NEW S, S \subseteq 0..n, S # {}
  PROVE  Max(S) \in S /\ \A x \in S : x <= Max(S)
<1> DEFINE T == {n - x : x \in S}
<1>1. T \subseteq Nat /\ T # {}
  <2>1. \A x \in S : x \in 0..n /\ n - x \in Nat
    OBVIOUS
  <2> QED  BY <2>1
<1>2. Min(T) \in T /\ \A x \in T : Min(T) <= x
  BY <1>1, MinIsLeast
<1>3. PICK m \in S : Min(T) = n - m
  BY <1>2
<1>4. \A x \in S : n - x \in T
  OBVIOUS
<1>5. \A x \in S : m >= x
  <2>1. \A x \in S : n - m <= n - x
    BY <1>2, <1>3, <1>4
  <2>2. \A x \in S : x \in 0..n
    OBVIOUS
  <2> QED  BY <2>1, <2>2
<1> QED  BY <1>5 DEF Max

LEMMA LinesOfCode ==
  ASSUME NEW lines \in Seq(LineType)
  PROVE  /\ Len(lines) \in Nat /\ DOMAIN lines = 1..Len(lines)
         /\ CodeOf(lines) \subseteq 1..Len(lines) /\ IsFiniteSet(CodeOf(lines))
<1>1. Len(lines) \in Nat /\ DOMAIN lines = 1..Len(lines)
  OBVIOUS
<1>2. CodeOf(lines) \subseteq 1..Len(lines)
  BY <1>1 DEF CodeOf
<1>3. IsFiniteSet(1..Len(lines))
  BY <1>1, FS_Interval
<1> QED  BY <1>1, <1>2, <1>3, FS_Subset

LEMMA BodiesEnd ==
  ASSUME NEW lines \in Seq(LineType), NEW l \in CodeOf(lines)
  PROVE  BodyEnd(lines, l) \in Nat
<1> DEFINE after == {c \in CodeOf(lines) : c > l /\ lines[c].depth <= lines[l].depth}
           next == Min(after \cup {Len(lines) + 1})
           within == {c \in CodeOf(lines) : l <= c /\ c < next}
<1>1. Len(lines) \in Nat /\ CodeOf(lines) \subseteq 1..Len(lines) /\ l \in 1..Len(lines)
  BY LinesOfCode
<1>2. next \in after \cup {Len(lines) + 1}
  <2>1. after \cup {Len(lines) + 1} \subseteq Nat
    BY <1>1
  <2> QED  BY <2>1, MinIsLeast
<1>3. next \in Nat /\ l < next
  BY <1>1, <1>2
<1>4. l \in within /\ within \subseteq 0..Len(lines)
  BY <1>1, <1>3
<1> HIDE DEF within, next
<1>5. Max(within) \in 0..Len(lines)
  BY <1>1, <1>4, MaxIsGreatest
<1> QED  BY <1>1, <1>3, <1>5 DEF BodyEnd, within, next, after

LEMMA SequenceOfASet ==
  ASSUME NEW S, IsFiniteSet(S)
  PROVE  /\ Cardinality(S) \in Nat /\ SetToSeq(S) \in [1..Cardinality(S) -> S]
         /\ \A i, j \in 1..Cardinality(S) : SetToSeq(S)[i] = SetToSeq(S)[j] => i = j
<1> DEFINE n == Cardinality(S)
<1>1. n \in Nat /\ ExistsBijection(1..n, S)
  BY FS_CardinalityType
<1> HIDE DEF n
<1>2. PICK g \in [1..n -> S] : IsInjective(g)
  BY <1>1 DEF ExistsBijection, Bijection, Injection
<1>3. SetToSeq(S) \in [1..n -> S] /\ IsInjective(SetToSeq(S))
  BY <1>2 DEF SetToSeq, n
<1> QED  BY <1>1, <1>3 DEF IsInjective, n

(* The functions of a measured file. *)
LEMMA FunctionsArePlaces ==
  ASSUME NEW lines \in Seq(LineType)
  PROVE  LET functions == Measured(lines).functions
         IN /\ \E n \in Nat : DOMAIN functions = 1..n
            /\ \A f \in DOMAIN functions : \E l \in CodeOf(lines), column \in {1, 2} :
                 functions[f] = FunctionOf(lines, l, column)
            /\ \A f, g \in DOMAIN functions :
                 /\ functions[f].startLine = functions[g].startLine
                 /\ functions[f].startColumn = functions[g].startColumn
                 => f = g
<1> DEFINE S == {place \in Opening(lines) \X {1, 2} : place[2] <= lines[place[1]].opens}
           places == FunctionPlaces(lines)
           functions == Measured(lines).functions
<1>1. Opening(lines) \subseteq CodeOf(lines) /\ IsFiniteSet(CodeOf(lines))
  BY LinesOfCode DEF Opening
<1>2. IsFiniteSet(S)
  <2>1. IsFiniteSet(Opening(lines))
    BY <1>1, FS_Subset
  <2>2. IsFiniteSet({1, 2})
    <3>1. IsFiniteSet({1})
      BY FS_Singleton
    <3>2. IsFiniteSet({1} \cup {2})
      BY <3>1, FS_AddElement
    <3>3. {1, 2} = {1} \cup {2}
      OBVIOUS
    <3> QED  BY <3>2, <3>3
  <2>3. IsFiniteSet(Opening(lines) \X {1, 2})
    BY <2>1, <2>2, FS_Product
  <2> QED  BY <2>3, FS_Subset
<1>3. places = SetToSeq(S)
  BY DEF FunctionPlaces
<1>4. functions = [f \in DOMAIN places |-> FunctionOf(lines, places[f][1], places[f][2])]
  BY DEF Measured
<1> HIDE DEF S, places, functions
<1> DEFINE n == Cardinality(S)
<1>5. n \in Nat /\ places \in [1..n -> S] /\ \A i, j \in 1..n : places[i] = places[j] => i = j
  BY <1>2, <1>3, SequenceOfASet
<1> HIDE DEF n
<1>6. \A i \in 1..n : /\ places[i] = <<places[i][1], places[i][2]>>
                      /\ places[i][1] \in CodeOf(lines) /\ places[i][2] \in {1, 2}
  BY <1>1, <1>5 DEF S
<1>7. DOMAIN functions = 1..n /\ \A f \in 1..n : functions[f] = FunctionOf(lines, places[f][1], places[f][2])
  BY <1>4, <1>5
<1>8. \A f \in 1..n : functions[f].startLine = places[f][1] /\ functions[f].startColumn = places[f][2]
  BY <1>7 DEF FunctionOf
<1>9. \A f, g \in 1..n : /\ functions[f].startLine = functions[g].startLine
                         /\ functions[f].startColumn = functions[g].startColumn
                         => f = g
  BY <1>5, <1>6, <1>8
<1> QED  BY <1>5, <1>6, <1>7, <1>9 DEF functions

LEMMA MeasuredIsPlaced ==
  ASSUME NEW lines \in Seq(LineType)
  PROVE  /\ ArePlaced(Measured(lines).functions)
         /\ Measured(lines).endsByIndentation = endsByIndentation
         /\ Measured(lines).content = lines
         /\ NoFunction \notin DOMAIN Measured(lines).functions
<1> DEFINE functions == Measured(lines).functions
<1>1. Measured(lines).endsByIndentation = endsByIndentation /\ Measured(lines).content = lines
  BY DEF Measured
<1>2. /\ \E n \in Nat : DOMAIN functions = 1..n
      /\ \A f \in DOMAIN functions : \E l \in CodeOf(lines), column \in {1, 2} :
           functions[f] = FunctionOf(lines, l, column)
  BY FunctionsArePlaces
<1> HIDE DEF functions
<1>3. ASSUME NEW f \in DOMAIN functions
      PROVE  functions[f].startLine \in Nat /\ functions[f].endLine \in Nat
  <2>1. PICK l \in CodeOf(lines), column \in {1, 2} : functions[f] = FunctionOf(lines, l, column)
    BY <1>2
  <2>2. l \in Nat /\ BodyEnd(lines, l) \in Nat
    BY LinesOfCode, BodiesEnd
  <2> QED  BY <2>1, <2>2 DEF FunctionOf
<1>4. NoFunction \notin DOMAIN functions
  BY <1>2 DEF NoFunction
<1> QED  BY <1>1, <1>3, <1>4 DEF ArePlaced, functions

-----------------------------------------------------------------------------
(* An edited file, the hunks of its change, and what a check of them       *)
(* reports.                                                                *)

LineOfHead == [text : LineType, origin : Nat]
FileTyped ==
  /\ baseLines \in Seq(LineType) /\ endsByIndentation \in BOOLEAN
  /\ head \in Seq(LineOfHead)

LEMMA UnchangedIsTyped ==
  ASSUME NEW lines \in Seq(LineType)
  PROVE  Unchanged(lines) \in Seq(LineOfHead)
<1>1. Len(lines) \in Nat /\ DOMAIN lines = 1..Len(lines)
  OBVIOUS
<1>2. \A l \in 1..Len(lines) :
        [text |-> lines[l], origin |-> l] \in LineOfHead
  BY DEF LineOfHead
<1>3. Unchanged(lines) = [l \in 1..Len(lines) |-> [text |-> lines[l], origin |-> l]]
  BY <1>1 DEF Unchanged
<1>4. Unchanged(lines) \in [1..Len(lines) -> LineOfHead]
  BY <1>2, <1>3
<1> QED  BY <1>1, <1>4

LEMMA FileTypedAlways == FileSpec => []FileTyped
<1>1. FileInit => FileTyped
  <2> SUFFICES ASSUME FileInit PROVE FileTyped
    OBVIOUS
  <2>1. baseLines \in Seq(LineType) /\ endsByIndentation \in BOOLEAN
    BY ChangeAssumption DEF FileInit
  <2> QED  BY <2>1, UnchangedIsTyped DEF FileInit, FileTyped
<1>2. FileTyped /\ [FileNext]_fileVars => FileTyped'
  <2> SUFFICES ASSUME FileTyped, [FileNext]_fileVars PROVE FileTyped'
    OBVIOUS
  <2>1. head \in Seq(LineOfHead) /\ Len(head) \in Nat /\ \A l \in 1..Len(head) : head[l] \in LineOfHead
    BY DEF FileTyped
  <2>2. ASSUME NEW l \in DOMAIN head, DeleteLine(l) PROVE FileTyped'
    <3>1. l \in 1..Len(head)
      BY <2>1
    <3>2. SubSeq(head, 1, l - 1) \in Seq(LineOfHead) /\ SubSeq(head, l + 1, Len(head)) \in Seq(LineOfHead)
      BY <2>1, <3>1, SubSeqProperties
    <3>3. RemoveAt(head, l) \in Seq(LineOfHead)
      BY <3>2, ConcatProperties DEF RemoveAt
    <3> QED  BY <2>2, <3>3 DEF DeleteLine, FileTyped
  <2>3. ASSUME NEW l \in 1..(Len(head) + 1), NEW text \in Texts, AddLine(l, text)
        PROVE  FileTyped'
    <3> DEFINE added == [text |-> text, origin |-> 0]
    <3>1. <<added>> \in Seq(LineOfHead)
      BY ChangeAssumption DEF LineOfHead
    <3>2. SubSeq(head, 1, l - 1) \in Seq(LineOfHead) /\ SubSeq(head, l, Len(head)) \in Seq(LineOfHead)
      BY <2>1, SubSeqProperties
    <3>3. SubSeq(head, 1, l - 1) \o <<added>> \in Seq(LineOfHead)
      BY <3>1, <3>2, ConcatProperties
    <3>4. InsertAt(head, l, added) \in Seq(LineOfHead)
      BY <3>2, <3>3, ConcatProperties DEF InsertAt
    <3> QED  BY <2>3, <3>4 DEF AddLine, FileTyped
  <2>4. CASE UNCHANGED fileVars
    BY <2>4 DEF fileVars, FileTyped
  <2> QED  BY <2>2, <2>3, <2>4 DEF FileNext
<1> QED  BY <1>1, <1>2, PTL DEF FileSpec

LEMMA HunksAreTyped ==
  ASSUME FileTyped
  PROVE  Change \in ChangeType
<1>1. KeptLines \subseteq Nat
  <2>1. Len(head) \in Nat /\ DOMAIN head = 1..Len(head)
    BY DEF FileTyped
  <2> QED  BY <2>1 DEF KeptLines
<1>2. LineHunks \subseteq HunkType
  <2>1. ASSUME NEW p \in KeptLines, NEW q \in KeptLines, AreNeighbours(p, q)
        PROVE  HunkBetween(p, q) \in HunkType
    <3>1. p \in Nat /\ q \in Nat /\ p < q
      BY <1>1, <2>1 DEF AreNeighbours
    <3>2. (IF q = p + 1 THEN p ELSE p + 1) \in Nat /\ q - p - 1 \in Nat
      BY <3>1
    <3>3. DeletesDirective(p, q) \in BOOLEAN
      BY DEF DeletesDirective
    <3> QED  BY <3>2, <3>3 DEF HunkBetween, HunkType
  <2> QED  BY <2>1 DEF LineHunks
<1>3. ASSUME NEW h \in HunkType PROVE AnchoredToCode(h) \in HunkType
  <2> DEFINE S == {0} \cup {l \in 1..h.headStart : ~IsPassedByAnchoring(head[l].text)}
  <2>1. h.headStart \in Nat
    BY DEF HunkType
  <2>2. S \subseteq 0..h.headStart /\ S # {}
    BY <2>1
  <2>3. Max(S) \in S
    BY <2>1, <2>2, MaxIsGreatest
  <2>4. Max(S) \in Nat
    BY <2>1, <2>2, <2>3
  <2> HIDE DEF S
  <2>5. [h EXCEPT !.headStart = Max(S)] \in HunkType
    BY <2>4 DEF HunkType
  <2> QED  BY <2>5 DEF AnchoredToCode, S
<1> QED  BY <1>2, <1>3 DEF Change, ChangedBy, ChangeType

LEMMA HeadIsMeasured ==
  ASSUME FileTyped
  PROVE  \E lines \in Seq(LineType) : HeadFile = Measured(lines)
<1> DEFINE lines == [l \in DOMAIN head |-> head[l].text]
<1>1. Len(head) \in Nat /\ DOMAIN head = 1..Len(head)
      /\ \A l \in 1..Len(head) : head[l].text \in LineType
  <2>1. /\ Len(head) \in Nat /\ DOMAIN head = 1..Len(head)
        /\ \A l \in 1..Len(head) : head[l] \in LineOfHead
    BY DEF FileTyped
  <2> QED  BY <2>1 DEF LineOfHead
<1>2. lines \in [1..Len(head) -> LineType]
  BY <1>1
<1>3. lines \in Seq(LineType)
  BY <1>1, <1>2
<1> QED  BY <1>3 DEF HeadFile

LEMMA ExpandedIsTyped ==
  ASSUME NEW file, Len(file.content) \in Nat, NEW c \in ChangeType
  PROVE  Expanded(file, c) \in ChangeType
<1> DEFINE all == [headStart |-> 1, headCount |-> Len(file.content), deletesDirective |-> FALSE]
<1>1. all \in HunkType
  BY DEF HunkType
<1>2. ChangedBy({all}) \in ChangeType
  BY <1>1 DEF ChangedBy, ChangeType
<1>3. Expanded(file, c) \in {c, ChangedBy({all})}
  BY DEF Expanded
<1> QED  BY <1>2, <1>3

(* README.md:165: with --base the report is the one of the whole file, less *)
(* the functions that the change does not touch; the directives' problems   *)
(* are those of the whole file.                                             *)
THEOREM ChangesFilterTheReport == FileSpec => []ChangeFiltersTheReport
<1>1. FileTyped => ChangeFiltersTheReport
  <2> SUFFICES ASSUME FileTyped PROVE ChangeFiltersTheReport
    OBVIOUS
  <2> DEFINE file == HeadFile
             diff == CheckedChange
             checked == CheckedFunctions(file, diff)
             ofFunctions(es) == {e \in es : e.subject # NoFunction}
             within(es) == {e \in es : e.subject \in checked}
  <2>1. PICK lines \in Seq(LineType) : file = Measured(lines)
    BY HeadIsMeasured
  <2>2. /\ ArePlaced(file.functions) /\ file.endsByIndentation \in BOOLEAN
        /\ Len(file.content) \in Nat /\ NoFunction \notin DOMAIN file.functions
    BY <2>1, MeasuredIsPlaced DEF FileTyped
  <2>3. diff \in ChangeType
    BY <2>2, HunksAreTyped, ExpandedIsTyped DEF CheckedChange
  <2> HIDE DEF file, diff
  <2>4. FunctionExcesses(file, diff) = within(FunctionExcesses(file, WholeFile))
    BY <2>2, <2>3, ChangeJudgesItsFunctionsAsTheFile
  <2>5. \A d : ProblemsOf(file, diff, d) = ProblemsOf(file, WholeFile, d)
    BY <2>2, <2>3, ChangeUsesDirectivesAsTheFile
  <2>6. NoFunction \notin checked
    BY <2>2 DEF CheckedFunctions
  <2>7. \A c : \A e \in FileExcesses(file, c) : e.subject = NoFunction
    BY DEF FileExcesses
  <2>8. \A e \in FunctionExcesses(file, diff) : e.subject \in checked
    BY DEF FunctionExcesses
  <2> HIDE DEF checked
  <2>9. ASSUME NEW e
        PROVE  /\ e \in ofFunctions(Judged(file, diff)) <=> e \in FunctionExcesses(file, diff)
               /\ e \in within(Judged(file, WholeFile)) <=> e \in within(FunctionExcesses(file, WholeFile))
    BY <2>6, <2>7, <2>8 DEF Judged
  <2>10. ofFunctions(Reported(file, diff)) = within(Reported(file, WholeFile))
    BY <2>4, <2>9 DEF Reported
  <2>11. ofFunctions(Allowed(file, diff)) = within(Allowed(file, WholeFile))
    BY <2>4, <2>9 DEF Allowed, Reported
  <2> QED  BY <2>5, <2>10, <2>11 DEF ChangeFiltersTheReport, file, diff, checked
<1> QED  BY <1>1, FileTypedAlways, PTL

(* The outermost function that exceeds a limit its parts may exceed reports *)
(* for those in it, and its value is the largest.                           *)
LEMMA CountsGrowOutwards ==
  ASSUME NEW lines \in Seq(LineType), NEW from \in Nat, NEW to \in Nat,
         NEW first \in Nat, NEW last \in Nat, first <= from, to <= last
  PROVE  /\ Statements(lines, from, to) \in Nat /\ Statements(lines, first, last) \in Nat
         /\ Statements(lines, from, to) <= Statements(lines, first, last)
<1> DEFINE Inner == {l \in CodeOf(lines) : from <= l /\ l <= to /\ ~lines[l].closes}
           Outer == {l \in CodeOf(lines) : first <= l /\ l <= last /\ ~lines[l].closes}
<1>1. IsFiniteSet(CodeOf(lines)) /\ CodeOf(lines) \subseteq Nat
  BY LinesOfCode
<1>2. Inner \subseteq Outer /\ Outer \subseteq CodeOf(lines)
  BY <1>1
<1> HIDE DEF Inner, Outer
<1>3. IsFiniteSet(Outer)
  BY <1>1, <1>2, FS_Subset
<1>4. IsFiniteSet(Inner) /\ Cardinality(Inner) <= Cardinality(Outer)
  BY <1>2, <1>3, FS_Subset
<1>5. Cardinality(Inner) \in Nat /\ Cardinality(Outer) \in Nat
  BY <1>3, <1>4, FS_CardinalityType
<1> QED  BY <1>4, <1>5 DEF Statements, Inner, Outer

LEMMA LargerValuesAreErrorsToo ==
  ASSUME NEW m \in FunctionMetrics, NEW v \in Nat, NEW u \in Nat, v <= u,
         LevelOf(m, v) = "error"
  PROVE  LevelOf(m, u) = "error"
<1>1. Exceeds(v, ErrorLimits[m])
  BY DEF LevelOf
<1>2. ErrorLimits[m] # Infinity /\ ErrorLimits[m] \in Nat /\ v > ErrorLimits[m]
  BY <1>1, LimitsAssumption DEF Exceeds
<1>3. u > ErrorLimits[m]
  BY <1>2
<1>4. Exceeds(u, ErrorLimits[m])
  BY <1>2, <1>3 DEF Exceeds
<1> QED  BY <1>4 DEF LevelOf

LEMMA ExceededOf ==
  ASSUME NEW values, NEW limit
  PROVE  limit \in Exceeded(values) <=>
           \E m \in DOMAIN values :
             /\ LevelOf(m, values[m]) # "none"
             /\ limit = [metric |-> m, value |-> values[m], level |-> LevelOf(m, values[m])]
BY DEF Exceeded

LEMMA OutermostReports ==
  ASSUME NEW lines \in Seq(LineType), NEW f \in DOMAIN Measured(lines).functions,
         NEW metric \in {e.metric : e \in Exceeded(Measured(lines).functions[f].values)}
  PROVE  \E g \in DOMAIN Measured(lines).functions :
           /\ metric \in {e.metric : e \in Exceeded(Measured(lines).functions[g].values)}
           /\ Encloses(Measured(lines).functions[g], Measured(lines).functions[f])
           /\ ~\E h \in DOMAIN Measured(lines).functions \ {g} :
                /\ Encloses(Measured(lines).functions[h], Measured(lines).functions[g])
                /\ metric \in {e.metric : e \in Exceeded(Measured(lines).functions[h].values)}
<1> DEFINE fn == Measured(lines).functions
           TooHigh(g) == metric \in {e.metric : e \in Exceeded(fn[g].values)}
           G == {g \in DOMAIN fn : TooHigh(g) /\ Encloses(fn[g], fn[f])}
           place(g) == 3 * fn[g].startLine + fn[g].startColumn
           Starts == {place(g) : g \in G}
<1>1. \A g \in DOMAIN fn : /\ fn[g].startLine \in Nat /\ fn[g].startColumn \in {1, 2}
                           /\ fn[g].endLine \in Nat /\ fn[g].endColumn = 9
  <2>1. ASSUME NEW g \in DOMAIN fn
        PROVE  fn[g].startColumn \in {1, 2} /\ fn[g].endColumn = 9
    <3>1. PICK l \in CodeOf(lines), column \in {1, 2} : fn[g] = FunctionOf(lines, l, column)
      BY FunctionsArePlaces
    <3> QED  BY <3>1 DEF FunctionOf
  <2> QED  BY <2>1, MeasuredIsPlaced DEF ArePlaced
<1>2. \A g, h \in DOMAIN fn :
        (fn[g].startLine = fn[h].startLine /\ fn[g].startColumn = fn[h].startColumn) => g = h
  BY FunctionsArePlaces
<1>3. TooHigh(f) /\ f \in DOMAIN fn
  OBVIOUS
<1> HIDE DEF fn, TooHigh
<1>4. f \in G
  BY <1>1, <1>3 DEF Encloses
<1>5. Starts \subseteq Nat /\ Starts # {}
  <2>1. \A g \in G : place(g) \in Nat
    BY <1>1
  <2> QED  BY <1>4, <2>1
<1>6. PICK g \in G : \A h \in G : place(g) <= place(h)
  <2>1. Min(Starts) \in Starts /\ \A x \in Starts : Min(Starts) <= x
    BY <1>5, MinIsLeast
  <2>2. PICK g \in G : Min(Starts) = place(g)
    BY <2>1
  <2>3. \A h \in G : place(h) \in Starts
    OBVIOUS
  <2> QED  BY <2>1, <2>2, <2>3
<1>7. ASSUME NEW h \in DOMAIN fn \ {g}, Encloses(fn[h], fn[g]), TooHigh(h) PROVE FALSE
  <2>1. Encloses(fn[h], fn[f])
    <3>1. h \in DOMAIN fn /\ g \in DOMAIN fn /\ Encloses(fn[g], fn[f])
      BY <1>7
    <3> QED  BY <1>1, <1>3, <1>7, <3>1, EnclosingIsTransitive
  <2>2. place(g) <= place(h)
    BY <1>6, <1>7, <2>1
  <2>3. fn[g].startLine = fn[h].startLine /\ fn[g].startColumn = fn[h].startColumn
    <3>1. h \in DOMAIN fn /\ g \in DOMAIN fn
      BY <1>7
    <3>2. /\ fn[h].startLine \in Nat /\ fn[g].startLine \in Nat
          /\ fn[h].startColumn \in {1, 2} /\ fn[g].startColumn \in {1, 2}
      BY <1>1, <3>1
    <3>3. \/ fn[h].startLine < fn[g].startLine
          \/ fn[h].startLine = fn[g].startLine /\ fn[h].startColumn <= fn[g].startColumn
      BY <1>7, <3>2 DEF Encloses
    <3>4. 3 * fn[g].startLine + fn[g].startColumn <= 3 * fn[h].startLine + fn[h].startColumn
      BY <2>2
    <3> DEFINE gl == fn[g].startLine
               gc == fn[g].startColumn
               hl == fn[h].startLine
               hc == fn[h].startColumn
    <3> HIDE DEF gl, gc, hl, hc
    <3>5. gl \in Nat /\ hl \in Nat /\ gc \in 1..2 /\ hc \in 1..2
      BY <3>2 DEF gl, gc, hl, hc
    <3>6. (hl < gl \/ (hl = gl /\ hc <= gc)) /\ 3 * gl + gc <= 3 * hl + hc
      BY <3>3, <3>4 DEF gl, gc, hl, hc
    <3>7. gl = hl /\ gc = hc
      BY <3>5, <3>6
    <3> QED  BY <3>7 DEF gl, gc, hl, hc
  <2> QED  BY <1>2, <1>7, <2>3
<1> QED  BY <1>6, <1>7 DEF fn, TooHigh

LEMMA InnerCountsAreSmaller ==
  ASSUME NEW lines \in Seq(LineType), NEW f \in DOMAIN Measured(lines).functions,
         NEW g \in DOMAIN Measured(lines).functions,
         Encloses(Measured(lines).functions[g], Measured(lines).functions[f])
  PROVE  /\ Measured(lines).functions[f].values.ncss \in Nat
         /\ Measured(lines).functions[g].values.ncss \in Nat
         /\ Measured(lines).functions[f].values.ncss <= Measured(lines).functions[g].values.ncss
<1> DEFINE fn == Measured(lines).functions
<1>1. PICK l \in CodeOf(lines), column \in {1, 2} : fn[f] = FunctionOf(lines, l, column)
  BY FunctionsArePlaces
<1>2. PICK k \in CodeOf(lines), column2 \in {1, 2} : fn[g] = FunctionOf(lines, k, column2)
  BY FunctionsArePlaces
<1>3. l \in Nat /\ k \in Nat /\ BodyEnd(lines, l) \in Nat /\ BodyEnd(lines, k) \in Nat
  BY LinesOfCode, BodiesEnd
<1>4. fn[f].startLine = l /\ fn[f].endLine = BodyEnd(lines, l)
      /\ fn[g].startLine = k /\ fn[g].endLine = BodyEnd(lines, k)
  BY <1>1, <1>2 DEF FunctionOf
<1>5. k <= l /\ BodyEnd(lines, l) <= BodyEnd(lines, k)
  BY <1>3, <1>4 DEF Encloses
<1>6. fn[f].values.ncss = Statements(lines, l, BodyEnd(lines, l))
      /\ fn[g].values.ncss = Statements(lines, k, BodyEnd(lines, k))
  BY <1>1, <1>2 DEF FunctionOf
<1> QED  BY <1>3, <1>5, <1>6, CountsGrowOutwards

(* A function whose limit is left to those around it has one around it that *)
(* reports a value as large, so every limit is reported of some function at *)
(* or around the one that exceeds it (isReportedByEnclosingFunction).       *)
THEOREM ExcessesAreNeverLost == FileSpec => []NoExcessIsLost
<1>1. FileTyped => NoExcessIsLost
  <2> SUFFICES ASSUME FileTyped PROVE NoExcessIsLost
    OBVIOUS
  <2> DEFINE file == HeadFile
             fn == file.functions
             around(f) == {g \in DOMAIN fn : g = f \/ Encloses(fn[g], fn[f])}
             concerns(e, f, limit) ==
               /\ e.subject \in around(f) /\ e.limit.metric = limit.metric
               /\ e.limit.value >= limit.value
  <2>1. PICK lines \in Seq(LineType) : file = Measured(lines)
    BY HeadIsMeasured
  <2> HIDE DEF file
  <2>2. ASSUME NEW f \in DOMAIN fn, NEW limit \in Exceeded(fn[f].values)
        PROVE  \E e \in Judged(file, WholeFile) :
                 concerns(e, f, limit) /\ (limit.level = "error" => e.limit.level = "error")
    <3>1. PICK m \in DOMAIN fn[f].values :
            limit = [metric |-> m, value |-> fn[f].values[m], level |-> LevelOf(m, fn[f].values[m])]
      BY ExceededOf
    <3>2. m \in {e.metric : e \in Exceeded(fn[f].values)}
      BY <3>1
    <3>3. /\ m \in {"parameterCount", "ncss"} /\ m \in FunctionMetrics
          /\ fn[f].values[m] \in Nat
      <4>1. PICK l \in CodeOf(lines), column \in {1, 2} : fn[f] = FunctionOf(lines, l, column)
        BY <2>1, FunctionsArePlaces
      <4>2. m \in {"parameterCount", "ncss"}
        BY <4>1 DEF FunctionOf
      <4>3. lines[l].parameters \in Nat
        <5>1. lines[l] \in LineType
          BY LinesOfCode
        <5> QED  BY <5>1 DEF LineType
      <4>4. Statements(lines, l, BodyEnd(lines, l)) \in Nat
        BY LinesOfCode, BodiesEnd, CountsGrowOutwards
      <4> QED  BY <4>1, <4>2, <4>3, <4>4, ChangeAssumption DEF FunctionOf
    <3>4. PICK g \in around(f) :
            /\ m \in {e.metric : e \in Exceeded(fn[g].values)}
            /\ ~ReportedByEnclosing(file, DOMAIN fn, g, m)
            /\ fn[g].values[m] \in Nat /\ fn[f].values[m] <= fn[g].values[m]
      <4>1. CASE ReportedByEnclosing(file, DOMAIN fn, f, m)
        <5>1. m = "ncss"
          BY <3>3, <4>1, ChangeAssumption DEF ReportedByEnclosing
        <5>2. PICK g \in DOMAIN fn :
                /\ m \in {e.metric : e \in Exceeded(fn[g].values)}
                /\ Encloses(fn[g], fn[f])
                /\ ~\E h \in DOMAIN fn \ {g} :
                     Encloses(fn[h], fn[g]) /\ m \in {e.metric : e \in Exceeded(fn[h].values)}
          BY <2>1, <3>2, OutermostReports
        <5>3. fn[g].values.ncss \in Nat /\ fn[f].values.ncss <= fn[g].values.ncss
          BY <2>1, <5>2, InnerCountsAreSmaller
        <5>4. ~ReportedByEnclosing(file, DOMAIN fn, g, m)
          BY <5>2 DEF ReportedByEnclosing
        <5> QED  BY <5>1, <5>2, <5>3, <5>4
      <4>2. CASE ~ReportedByEnclosing(file, DOMAIN fn, f, m)
        BY <3>2, <3>3, <4>2
      <4> QED  BY <4>1, <4>2
    <3>5. PICK own \in Exceeded(fn[g].values) : own.metric = m
      BY <3>4
    <3>6. own.value = fn[g].values[m] /\ own.level = LevelOf(m, fn[g].values[m])
      <4>1. PICK k \in DOMAIN fn[g].values :
              own = [metric |-> k, value |-> fn[g].values[k], level |-> LevelOf(k, fn[g].values[k])]
        BY ExceededOf
      <4> QED  BY <3>5, <4>1
    <3> DEFINE e == [subject |-> g, limit |-> own]
    <3>7. e \in Judged(file, WholeFile)
      <4>1. CheckedFunctions(file, WholeFile) = DOMAIN fn
        BY DEF CheckedFunctions, Covers, WholeFile
      <4>2. own \in {x \in Exceeded(fn[g].values) : ~ReportedByEnclosing(file, DOMAIN fn, g, x.metric)}
        BY <3>4, <3>5
      <4>3. g \in DOMAIN fn
        BY <3>4
      <4>4. e \in FunctionExcesses(file, WholeFile)
        BY <4>1, <4>2, <4>3 DEF FunctionExcesses
      <4> QED  BY <4>4 DEF Judged
    <3>8. concerns(e, f, limit)
      BY <3>1, <3>3, <3>4, <3>5, <3>6
    <3>9. limit.level = "error" => own.level = "error"
      BY <3>1, <3>3, <3>4, <3>6, LargerValuesAreErrorsToo
    <3> QED  BY <3>7, <3>8, <3>9
  <2>3. \A e \in Judged(file, WholeFile) :
          e.limit.level = "error" => e \in Reported(file, WholeFile)
    BY DEF Reported, Allowing
  <2> QED  BY <2>2, <2>3 DEF NoExcessIsLost, file
<1> QED  BY <1>1, FileTypedAlways, PTL

-----------------------------------------------------------------------------
(* The files that git shows and that no edit touched. *)
Quiet == {f \in Present \ touched : f \in tracked \/ f \notin Ignored}

(* What the run knows of a file once it was scanned. *)
IsKnown(f) == f \in errors \/ (f \in DOMAIN measured /\ measured[f] = work[f])

(* An entry of the change under which a file of the change is checked. *)
Shows(e, f) ==
  /\ e \in [status : {"added", "modified"}, head : Files]
  /\ e.head = f /\ (e.status = "added" \/ work[f] # base[f])
IsShown(f) == f \in errors \/ \E e \in DOMAIN hunks : Shows(e, f) /\ hunks[e]
IsToBeShown(f) == \E e \in toRead : Shows(e, f)
HasEntry(f) == \E e \in ChangedFiles : Shows(e, f)

StepsInv ==
  /\ work \in [Files -> Contents \cup {Absent}]
  /\ step = "done" <=> exitCode # Running
  /\ (onlyChanges /\ step \in {"hunks", "directives", "line ends"}) =>
       Commands["changes"] \subseteq DOMAIN seen
  /\ step = "changes" => onlyChanges
  /\ step = "hunks" => onlyChanges

ListedInv == \A f \in Quiet :
  /\ "ls-files" \in DOMAIN seen => f \in seen["ls-files"]
  /\ "ls-files --deleted" \in DOMAIN seen => f \notin seen["ls-files --deleted"]

ChangesInv == \A f \in Quiet :
  /\ ("diff" \in DOMAIN seen /\ f \in tracked /\ work[f] # base[f]) =>
       \E e \in seen["diff"] : e.head = f /\ e \in [status : {"added", "modified"}, head : Files]
  /\ ("ls-files --others" \in DOMAIN seen /\ f \notin tracked) => f \in seen["ls-files --others"]

ScannedInv ==
  /\ step = "scan" => \A f \in Quiet : f \in toRead \/ IsKnown(f)
  /\ step \in {"changes", "hunks", "directives", "line ends"} => \A f \in Quiet : IsKnown(f)

CheckedInv ==
  /\ step = "hunks" => \A f \in Due : IsShown(f) \/ IsToBeShown(f)
  /\ step \in {"directives", "line ends"} => \A f \in Due : IsShown(f)

CheckInv == StepsInv /\ ListedInv /\ ChangesInv /\ ScannedInv /\ CheckedInv /\ ExitCodeIsOfEveryFile
-----------------------------------------------------------------------------
LEMMA DueIsQuiet == Due \subseteq Quiet
  BY DEF Due, Quiet

LEMMA DueIsQuietNext == Due' \subseteq Quiet'
  BY DEF Due, Quiet

LEMMA RunningIsNoExitCode ==
  /\ Running # 0 /\ Running # 1 /\ Running # 2
  /\ Running \notin {0, 1} /\ 2 \notin {0, 1} /\ 1 # 0 /\ 2 # 0
  BY DEF Running

LEMMA InitHolds == Init => CheckInv
<1> SUFFICES ASSUME Init PROVE CheckInv
  OBVIOUS
<1> USE DEF Init
<1>1. StepsInv
  BY DEF StepsInv, Running
<1>2. ListedInv /\ ChangesInv
  BY DEF ListedInv, ChangesInv
<1>3. ScannedInv /\ CheckedInv /\ ExitCodeIsOfEveryFile
  BY DEF ScannedInv, CheckedInv, ExitCodeIsOfEveryFile, Running
<1> QED
  BY <1>1, <1>2, <1>3 DEF CheckInv

(* An edit changes nothing of the files that stay untouched. *)
LEMMA EditKeepsQuietFiles ==
  ASSUME CheckInv, NEW f \in Files, Edit(f)
  PROVE  /\ work' \in [Files -> Contents \cup {Absent}]
         /\ Quiet' \subseteq Quiet /\ Due' \subseteq Due
         /\ \A g \in Quiet' : work'[g] = work[g] /\ (g \in tracked' <=> g \in tracked)
<1>1. work \in [Files -> Contents \cup {Absent}]
  BY DEF CheckInv, StepsInv
<1>2. work' \in [Files -> Contents \cup {Absent}]
  BY <1>1 DEF Edit
<1>3. \A g \in Files \ touched' :
        g \notin touched /\ work'[g] = work[g] /\ (g \in tracked' <=> g \in tracked)
  BY <1>1 DEF Edit
<1>4. Quiet' \subseteq Files \ touched' /\ Due' \subseteq Files \ touched'
  BY DEF Quiet, Due, Present
<1>5. Quiet' \subseteq Quiet
  BY <1>3, <1>4 DEF Quiet, Present
<1>6. Due' \subseteq Due
  BY <1>3, <1>4 DEF Due, Present, Edit
<1> QED
  BY <1>2, <1>3, <1>4, <1>5, <1>6

LEMMA EditKeepsInv ==
  ASSUME CheckInv, NEW f \in Files, Edit(f)
  PROVE  CheckInv'
<1>1. UNCHANGED <<base, onlyChanges, step, seen, toRead, measured, errors, hunks, exitCode>> /\ exitCode = Running
  BY DEF Edit
<1>2. /\ work' \in [Files -> Contents \cup {Absent}]
      /\ Quiet' \subseteq Quiet /\ Due' \subseteq Due
      /\ \A g \in Quiet' : work'[g] = work[g] /\ (g \in tracked' <=> g \in tracked)
  BY EditKeepsQuietFiles
<1>3. StepsInv'
  BY <1>1, <1>2 DEF CheckInv, StepsInv
<1>4. ListedInv' /\ ChangesInv'
  BY <1>1, <1>2 DEF CheckInv, ListedInv, ChangesInv
<1>5. ScannedInv'
  BY <1>1, <1>2 DEF CheckInv, ScannedInv, IsKnown
<1>6. CheckedInv'
  <2>1. ASSUME NEW g \in Due', NEW e PROVE Shows(e, g)' <=> Shows(e, g)
    BY <1>1, <1>2, DueIsQuietNext DEF Shows
  <2> QED
    BY <1>1, <1>2, <2>1 DEF CheckInv, CheckedInv, IsShown, IsToBeShown
<1>7. ExitCodeIsOfEveryFile'
  BY <1>1 DEF ExitCodeIsOfEveryFile, Running
<1> QED
  BY <1>3, <1>4, <1>5, <1>6, <1>7 DEF CheckInv

(* What git answers shows the files that no edit touched. *)
LEMMA AnswersKeepInv ==
  ASSUME CheckInv, NEW command, GitAnswers(command)
  PROVE  CheckInv'
<1>1. /\ UNCHANGED <<world, onlyChanges, step, toRead, measured, errors, hunks, exitCode>>
      /\ seen' = With(seen, command, Answer(command))
      /\ command \in {"ls-files", "ls-files --deleted", "diff", "ls-files --others"}
  <2>1. step \in DOMAIN Commands /\ command \in Commands[step]
    BY DEF GitAnswers
  <2>2. DOMAIN Commands = {"list", "changes"}
    BY DEF Commands
  <2>3. /\ Commands["list"] = {"ls-files", "ls-files --deleted"}
        /\ Commands["changes"] = {"diff", "ls-files --others"}
    BY DEF Commands
  <2>4. command \in {"ls-files", "ls-files --deleted", "diff", "ls-files --others"}
    BY <2>1, <2>2, <2>3
  <2> QED
    BY <2>4 DEF GitAnswers
<1>2. /\ DOMAIN seen' = DOMAIN seen \cup {command}
      /\ seen'[command] = Answer(command)
      /\ \A c \in DOMAIN seen : c # command => seen'[c] = seen[c]
  BY <1>1 DEF With
<1>3. Quiet' = Quiet /\ Due' = Due
  BY <1>1 DEF Quiet, Due, Present, world
<1>4. StepsInv'
  BY <1>1, <1>2 DEF CheckInv, StepsInv, world
<1>5. ListedInv'
  <2>1. ASSUME NEW f \in Quiet
        PROVE f \in Answer("ls-files") /\ f \notin Answer("ls-files --deleted")
    BY DEF Answer, Untracked, Quiet
  <2> QED
    BY <1>1, <1>2, <1>3, <2>1 DEF CheckInv, ListedInv
<1>6. ChangesInv'
  <2>1. ASSUME NEW f \in Quiet, f \in tracked, work[f] # base[f]
        PROVE \E e \in Answer("diff") : e.head = f /\ e \in [status : {"added", "modified"}, head : Files]
    <3> DEFINE e == [status |-> IF base[f] = Absent THEN "added" ELSE "modified", head |-> f]
    <3>1. f \in Files /\ f \in Present
      BY DEF Quiet, Present
    <3>2. e \in [status : {"added", "modified"}, head : Files] /\ e.head = f
      BY <3>1
    <3>3. e \in Differing
      BY <2>1, <3>1 DEF Differing
    <3> QED
      BY <3>2, <3>3 DEF Answer
  <2>2. ASSUME NEW f \in Quiet, f \notin tracked
        PROVE f \in Answer("ls-files --others")
    BY <2>2 DEF Answer, Untracked, Quiet
  <2>3. UNCHANGED <<work, base, tracked>>
    BY <1>1 DEF world
  <2>4. ASSUME NEW f \in Quiet, "diff" \in DOMAIN seen', f \in tracked, work[f] # base[f]
        PROVE \E e \in seen'["diff"] : e.head = f /\ e \in [status : {"added", "modified"}, head : Files]
    <3>1. CASE command = "diff"
      BY <1>2, <2>1, <2>4, <3>1
    <3>2. CASE command # "diff"
      BY <1>2, <2>4, <3>2 DEF CheckInv, ChangesInv
    <3> QED
      BY <3>1, <3>2
  <2>5. ASSUME NEW f \in Quiet, "ls-files --others" \in DOMAIN seen', f \notin tracked
        PROVE f \in seen'["ls-files --others"]
    <3>1. CASE command = "ls-files --others"
      BY <1>2, <2>2, <2>5, <3>1
    <3>2. CASE command # "ls-files --others"
      BY <1>2, <2>5, <3>2 DEF CheckInv, ChangesInv
    <3> QED
      BY <3>1, <3>2
  <2> QED
    BY <1>3, <2>3, <2>4, <2>5 DEF ChangesInv
<1>7. ScannedInv' /\ CheckedInv'
  BY <1>1, <1>3 DEF CheckInv, ScannedInv, CheckedInv, IsKnown, IsShown, IsToBeShown, Shows, world
<1>8. ExitCodeIsOfEveryFile'
  BY <1>1, <1>3 DEF CheckInv, ExitCodeIsOfEveryFile, world
<1> QED
  BY <1>4, <1>5, <1>6, <1>7, <1>8 DEF CheckInv

-----------------------------------------------------------------------------
(* Every changed file that stayed untouched is one of the change's. *)
LEMMA DueHasEntry ==
  ASSUME CheckInv, onlyChanges, Commands["changes"] \subseteq DOMAIN seen, NEW f \in Due
  PROVE  HasEntry(f)
<1>1. f \in Quiet /\ f \in Files /\ (f \notin tracked \/ work[f] # base[f])
  BY DEF Due, Quiet, Present
<1>2. "diff" \in DOMAIN seen /\ "ls-files --others" \in DOMAIN seen
  BY DEF Commands
<1>3. CASE f \in tracked
  <2>1. PICK e \in seen["diff"] : e.head = f /\ e \in [status : {"added", "modified"}, head : Files]
    BY <1>1, <1>2, <1>3 DEF CheckInv, ChangesInv
  <2>2. e.status # "deleted"
    BY <2>1
  <2> QED
    BY <1>1, <1>3, <2>1, <2>2 DEF HasEntry, ChangedFiles, Shows
<1>4. CASE f \notin tracked
  <2>1. f \in seen["ls-files --others"]
    BY <1>1, <1>2, <1>4 DEF CheckInv, ChangesInv
  <2>2. [head |-> f, status |-> "added"] \in ChangedFiles
    BY <2>1 DEF ChangedFiles, Added
  <2>3. [head |-> f, status |-> "added"] \in [status : {"added", "modified"}, head : Files]
    BY <1>1
  <2> QED
    BY <2>2, <2>3 DEF HasEntry, Shows
<1> QED
  BY <1>3, <1>4

(* The steps of the run change nothing of the world. *)
LEMMA RunKeepsWorld ==
  ASSUME CheckInv, UNCHANGED <<world, onlyChanges, seen>>
  PROVE  /\ Quiet' = Quiet /\ Due' = Due /\ UNCHANGED <<work, base, tracked>>
         /\ ListedInv' /\ ChangesInv'
<1>1. UNCHANGED <<work, base, tracked, touched>>
  BY DEF world
<1>2. Quiet' = Quiet /\ Due' = Due
  BY <1>1 DEF Quiet, Due, Present
<1> QED
  BY <1>1, <1>2 DEF CheckInv, ListedInv, ChangesInv

LEMMA StartScanKeepsInv == ASSUME CheckInv, StartScan PROVE CheckInv'
<1>1. Quiet' = Quiet /\ Due' = Due /\ UNCHANGED <<work, base, tracked>> /\ ListedInv' /\ ChangesInv'
  BY RunKeepsWorld DEF StartScan
<1>2. StepsInv'
  BY <1>1 DEF CheckInv, StepsInv, StartScan, Running
<1>3. "ls-files" \in DOMAIN seen /\ "ls-files --deleted" \in DOMAIN seen
  BY DEF StartScan, Answered, Commands
<1>4. Quiet \subseteq toRead'
  BY <1>3 DEF CheckInv, ListedInv, StartScan, RepositoryFiles
<1>5. ScannedInv' /\ CheckedInv'
  BY <1>1, <1>4 DEF StartScan, ScannedInv, CheckedInv
<1>6. ExitCodeIsOfEveryFile'
  BY DEF StartScan, CheckInv, StepsInv, ExitCodeIsOfEveryFile, Running
<1> QED
  BY <1>1, <1>2, <1>5, <1>6 DEF CheckInv

LEMMA MeasureKeepsInv == ASSUME CheckInv, NEW f \in Files, Measure(f) PROVE CheckInv'
<1>1. Quiet' = Quiet /\ Due' = Due /\ UNCHANGED <<work, base, tracked>> /\ ListedInv' /\ ChangesInv'
  BY RunKeepsWorld DEF Measure
<1>2. StepsInv'
  BY <1>1 DEF CheckInv, StepsInv, Measure, Running
<1>3. ASSUME NEW g \in Quiet PROVE g \in toRead' \/ IsKnown(g)'
  <2>1. g \in toRead \/ IsKnown(g)
    BY DEF CheckInv, ScannedInv, Measure
  <2>2. CASE f \in Present \ failing
    BY <1>1, <2>1, <2>2 DEF Measure, With, IsKnown
  <2>3. CASE ~(f \in Present \ failing)
    BY <1>1, <2>1, <2>3 DEF Measure, IsKnown
  <2> QED
    BY <2>2, <2>3
<1>4. ScannedInv' /\ CheckedInv'
  BY <1>1, <1>3 DEF Measure, ScannedInv, CheckedInv
<1>5. ExitCodeIsOfEveryFile'
  BY DEF Measure, CheckInv, StepsInv, ExitCodeIsOfEveryFile, Running
<1> QED
  BY <1>1, <1>2, <1>4, <1>5 DEF CheckInv

LEMMA EndScanKeepsInv == ASSUME CheckInv, EndScan PROVE CheckInv'
<1>1. Quiet' = Quiet /\ Due' = Due /\ UNCHANGED <<work, base, tracked>> /\ ListedInv' /\ ChangesInv'
  BY RunKeepsWorld DEF EndScan
<1>2. StepsInv'
  BY <1>1 DEF CheckInv, StepsInv, EndScan, Running
<1>3. \A f \in Quiet : IsKnown(f)
  BY DEF CheckInv, ScannedInv, EndScan
<1>4. ScannedInv'
  BY <1>1, <1>3 DEF EndScan, ScannedInv, IsKnown
<1>5. ASSUME NEW f \in Due, ~onlyChanges PROVE IsShown(f)'
  <2>1. f \in errors \/ f \in DOMAIN measured
    BY <1>3, DueIsQuiet DEF IsKnown
  <2>2. CASE f \in errors
    BY <2>2 DEF IsShown, EndScan
  <2>3. CASE f \in DOMAIN measured
    <3> DEFINE e == [head |-> f, status |-> "added"]
    <3>1. e \in Added(DOMAIN measured)
      BY <2>3 DEF Added
    <3>2. e \in DOMAIN hunks' /\ hunks'[e]
      BY <1>5, <3>1 DEF EndScan
    <3>3. Shows(e, f)'
      BY DEF Shows, Due, Present
    <3> QED
      BY <3>2, <3>3 DEF IsShown
  <2> QED
    BY <2>1, <2>2, <2>3
<1>6. CheckedInv'
  BY <1>1, <1>5 DEF EndScan, CheckedInv
<1>7. ExitCodeIsOfEveryFile'
  BY DEF EndScan, CheckInv, StepsInv, ExitCodeIsOfEveryFile, Running
<1> QED
  BY <1>1, <1>2, <1>4, <1>6, <1>7 DEF CheckInv

LEMMA StartHunksKeepsInv == ASSUME CheckInv, StartHunks PROVE CheckInv'
<1>1. Quiet' = Quiet /\ Due' = Due /\ UNCHANGED <<work, base, tracked>> /\ ListedInv' /\ ChangesInv'
  BY RunKeepsWorld DEF StartHunks
<1>2. onlyChanges /\ Commands["changes"] \subseteq DOMAIN seen
  BY DEF CheckInv, StepsInv, StartHunks, Answered
<1>3. StepsInv'
  BY <1>1, <1>2 DEF CheckInv, StepsInv, StartHunks, Running
<1>4. ScannedInv'
  BY <1>1 DEF CheckInv, StartHunks, ScannedInv, IsKnown
<1>5. ASSUME NEW f \in Due
      PROVE IsShown(f)' \/ IsToBeShown(f)'
  <2>1. f \in errors \/ f \in DOMAIN measured
    BY DueIsQuiet DEF CheckInv, ScannedInv, IsKnown, StartHunks
  <2>2. HasEntry(f)
    BY <1>2, DueHasEntry
  <2>3. CASE f \in errors
    BY <2>3 DEF IsShown, StartHunks
  <2>4. CASE f \in DOMAIN measured
    <3>1. PICK e \in ChangedFiles : Shows(e, f)
      BY <2>2 DEF HasEntry
    <3>2. e \in toRead'
      BY <2>4, <3>1 DEF StartHunks, Shows
    <3> QED
      BY <1>1, <3>1, <3>2 DEF IsToBeShown, Shows
  <2> QED
    BY <2>1, <2>3, <2>4
<1>6. CheckedInv'
  BY <1>1, <1>5 DEF StartHunks, CheckedInv
<1>7. ExitCodeIsOfEveryFile'
  BY DEF StartHunks, CheckInv, StepsInv, ExitCodeIsOfEveryFile, Running
<1> QED
  BY <1>1, <1>3, <1>4, <1>6, <1>7 DEF CheckInv

LEMMA AttachHunksKeepsInv ==
  ASSUME CheckInv, NEW d \in [status : {"added", "modified"}, head : Files], AttachHunks(d)
  PROVE  CheckInv'
<1>1. Quiet' = Quiet /\ Due' = Due /\ UNCHANGED <<work, base, tracked>> /\ ListedInv' /\ ChangesInv'
  BY RunKeepsWorld DEF AttachHunks
<1>2. StepsInv'
  BY <1>1 DEF CheckInv, StepsInv, AttachHunks, Running
<1>3. ScannedInv'
  BY <1>1 DEF CheckInv, AttachHunks, ScannedInv, IsKnown
<1>4. /\ onlyChanges /\ step = "hunks" /\ step' = "hunks" /\ errors' = errors /\ toRead' = toRead \ {d}
      /\ DOMAIN hunks' = DOMAIN hunks \cup {d}
      /\ hunks'[d] = (d.status = "added" \/ work[d.head] # base[d.head])
      /\ \A e \in DOMAIN hunks : e # d => hunks'[e] = hunks[e]
  BY DEF CheckInv, StepsInv, AttachHunks, With
<1>5. ASSUME NEW f \in Due
      PROVE IsShown(f)' \/ IsToBeShown(f)'
  <2>1. \A e : Shows(e, f)' <=> Shows(e, f)
    BY <1>1 DEF Shows
  <2>2. Shows(d, f) => hunks'[d]
    BY <1>4 DEF Shows
  <2>3. CASE IsShown(f)
    BY <1>4, <2>1, <2>2, <2>3 DEF IsShown
  <2>4. CASE IsToBeShown(f)
    BY <1>4, <2>1, <2>2, <2>4 DEF IsToBeShown, IsShown
  <2> QED
    BY <1>4, <2>3, <2>4 DEF CheckInv, CheckedInv
<1>6. CheckedInv'
  BY <1>1, <1>4, <1>5 DEF CheckedInv
<1>7. ExitCodeIsOfEveryFile'
  BY DEF AttachHunks, CheckInv, StepsInv, ExitCodeIsOfEveryFile, Running
<1> QED
  BY <1>1, <1>2, <1>3, <1>6, <1>7 DEF CheckInv

LEMMA EndHunksKeepsInv == ASSUME CheckInv, EndHunks PROVE CheckInv'
<1>1. Quiet' = Quiet /\ Due' = Due /\ UNCHANGED <<work, base, tracked>> /\ ListedInv' /\ ChangesInv'
  BY RunKeepsWorld DEF EndHunks
<1>2. StepsInv'
  BY <1>1 DEF CheckInv, StepsInv, EndHunks, Running
<1>3. ScannedInv'
  BY <1>1 DEF CheckInv, EndHunks, ScannedInv, IsKnown
<1>4. \A f \in Due : IsShown(f)
  BY DEF CheckInv, CheckedInv, EndHunks, IsToBeShown
<1>5. CheckedInv'
  BY <1>1, <1>4 DEF EndHunks, CheckedInv, IsShown, Shows
<1>6. ExitCodeIsOfEveryFile'
  BY DEF EndHunks, CheckInv, StepsInv, ExitCodeIsOfEveryFile, Running
<1> QED
  BY <1>1, <1>2, <1>3, <1>5, <1>6 DEF CheckInv

LEMMA ReadingAgainKeepsInv ==
  ASSUME CheckInv, (\E f \in Files : ReadAgain(f)) \/ CheckThresholds
  PROVE  CheckInv'
<1>1. /\ UNCHANGED <<world, onlyChanges, seen, measured, errors, hunks>>
      /\ step \in {"directives", "line ends"}
      /\ \/ step' \in {"directives", "line ends"} /\ exitCode' = exitCode
         \/ step' = "done" /\ exitCode' = 2
  <2>1. CASE \E f \in Files : ReadAgain(f)
    <3>1. PICK f \in Files : ReadAgain(f)
      BY <2>1
    <3>2. CASE f \in Present
      BY <3>1, <3>2 DEF ReadAgain
    <3>3. CASE f \notin Present
      BY <3>1, <3>3 DEF ReadAgain
    <3> QED
      BY <3>2, <3>3
  <2>2. CASE CheckThresholds
    BY <2>2 DEF CheckThresholds
  <2> QED
    BY <2>1, <2>2
<1>2. Quiet' = Quiet /\ Due' = Due /\ UNCHANGED <<work, base, tracked>> /\ ListedInv' /\ ChangesInv'
  BY <1>1, RunKeepsWorld
<1>3. StepsInv'
  <2>1. step' = "done" <=> exitCode' # Running
    BY <1>1, RunningIsNoExitCode DEF CheckInv, StepsInv
  <2> QED
    BY <1>1, <1>2, <2>1 DEF CheckInv, StepsInv
<1>4. ScannedInv'
  BY <1>1, <1>2 DEF CheckInv, ScannedInv, IsKnown
<1>5. CheckedInv'
  BY <1>1, <1>2 DEF CheckInv, CheckedInv, IsShown, Shows
<1>6. ExitCodeIsOfEveryFile'
  <2>1. exitCode' = Running \/ exitCode' = 2
    BY <1>1 DEF CheckInv, StepsInv
  <2>2. exitCode' \notin {0, 1} /\ exitCode' # 0
    BY <2>1, RunningIsNoExitCode
  <2> QED
    BY <2>2 DEF ExitCodeIsOfEveryFile
<1> QED
  BY <1>2, <1>3, <1>4, <1>5, <1>6 DEF CheckInv

LEMMA ExitKeepsInv == ASSUME CheckInv, Exit PROVE CheckInv'
<1>1. Quiet' = Quiet /\ Due' = Due /\ UNCHANGED <<work, base, tracked>> /\ ListedInv' /\ ChangesInv'
  BY RunKeepsWorld DEF Exit
<1>2. /\ step = "line ends" /\ step' = "done"
      /\ UNCHANGED <<onlyChanges, seen, measured, errors, hunks>>
  BY Zenon DEF Exit
<1>3. /\ CoveredErrors # {} => exitCode' = 2
      /\ CoveredErrors = {} /\ Violations # {} => exitCode' = 1
      /\ CoveredErrors = {} /\ Violations = {} => exitCode' = 0
  BY Zenon DEF Exit
<1>4. 2 \notin {0, 1} /\ 1 # 0 /\ 2 # 0
  BY RunningIsNoExitCode
<1>5. exitCode' = 0 \/ exitCode' = 1 \/ exitCode' = 2
  BY <1>3, Zenon
<1>6. exitCode' \in {0, 1} => CoveredErrors = {}
  BY <1>3, <1>4, Zenon
<1>7. exitCode' = 0 => Violations = {}
  BY <1>3, <1>4, Zenon
<1>8. StepsInv'
  <2>1. exitCode' # Running
    BY <1>5, RunningIsNoExitCode
  <2> QED
    BY <1>1, <1>2, <2>1 DEF CheckInv, StepsInv
<1>9. ScannedInv' /\ CheckedInv'
  BY DEF Exit, ScannedInv, CheckedInv
<1>10. ASSUME NEW f \in Due, f \in errors PROVE f \in CoveredErrors
  <2>1. CASE ~onlyChanges
    BY <1>10, <2>1 DEF CoveredErrors, IsCovered
  <2>2. CASE onlyChanges
    <3>1. PICK e \in ChangedFiles : Shows(e, f)
      BY <2>2, DueHasEntry DEF HasEntry, CheckInv, StepsInv, Exit
    <3>2. <<e.head, f>> \in ErrorPrefixes
      BY <3>1, CheckAssumption DEF Shows, Due, Present
    <3> QED
      BY <1>10, <3>1, <3>2 DEF CoveredErrors, IsCovered
  <2> QED
    BY <2>1, <2>2
<1>11. ASSUME NEW f \in Due, CoveredErrors = {}
      PROVE  f \in DOMAIN measured /\ (work[f] \in Violating => f \in Violations)
  <2>1. f \notin errors
    BY <1>10, <1>11
  <2>2. f \in DOMAIN measured /\ measured[f] = work[f]
    BY <2>1, DueIsQuiet DEF CheckInv, ScannedInv, IsKnown, Exit
  <2>3. PICK e \in DOMAIN hunks : Shows(e, f) /\ hunks[e]
    BY <2>1 DEF CheckInv, CheckedInv, IsShown, Exit
  <2>4. work[f] \in Violating => e.head \in Violations
    BY <2>2, <2>3 DEF Violations, Shows
  <2> QED
    BY <2>2, <2>3, <2>4 DEF Shows
<1>12. ExitCodeIsOfEveryFile'
  <2>1. ASSUME exitCode' \in {0, 1} PROVE Due' \subseteq DOMAIN measured'
    BY <1>1, <1>11, <1>2, <1>6, <2>1
  <2>2. ASSUME exitCode' = 0 PROVE \A f \in Due' : work'[f] \notin Violating
    <3>1. CoveredErrors = {} /\ Violations = {}
      BY <1>6, <1>7, <2>2
    <3> QED
      BY <1>1, <1>11, <3>1
  <2> QED
    BY <2>1, <2>2 DEF ExitCodeIsOfEveryFile
<1> QED
  BY <1>1, <1>8, <1>9, <1>12 DEF CheckInv

LEMMA FailKeepsInv == ASSUME CheckInv, Fail PROVE CheckInv'
<1>1. Quiet' = Quiet /\ Due' = Due /\ UNCHANGED <<work, base, tracked>> /\ ListedInv' /\ ChangesInv'
  BY RunKeepsWorld DEF Fail
<1>2. StepsInv'
  <2>1. step' = "done" /\ exitCode' = 2 /\ UNCHANGED <<onlyChanges, seen>>
    BY Zenon DEF Fail
  <2> QED
    BY <1>1, <2>1, RunningIsNoExitCode DEF CheckInv, StepsInv
<1>3. ScannedInv' /\ CheckedInv' /\ ExitCodeIsOfEveryFile'
  BY DEF Fail, ScannedInv, CheckedInv, ExitCodeIsOfEveryFile
<1> QED
  BY <1>1, <1>2, <1>3 DEF CheckInv

LEMMA StutteringKeepsInv == ASSUME CheckInv, UNCHANGED vars PROVE CheckInv'
<1>1. UNCHANGED <<world, onlyChanges, step, seen, toRead, measured, errors, hunks, exitCode>>
  BY DEF vars
<1>2. Quiet' = Quiet /\ Due' = Due /\ UNCHANGED <<work, base, tracked>> /\ ListedInv' /\ ChangesInv'
  BY <1>1, RunKeepsWorld
<1>3. StepsInv' /\ ScannedInv'
  BY <1>1, <1>2 DEF CheckInv, StepsInv, ScannedInv, IsKnown
<1>4. CheckedInv' /\ ExitCodeIsOfEveryFile'
  BY <1>1, <1>2 DEF CheckInv, CheckedInv, IsShown, IsToBeShown, Shows, ExitCodeIsOfEveryFile
<1> QED
  BY <1>2, <1>3, <1>4 DEF CheckInv

(* Exit code 0 says that every file which is changed, or with no --base every  *)
(* file, was measured and violates nothing, exit code 1 that each was measured, *)
(* of all the files that no edit touched while the run read the repository.     *)
THEOREM ExitCodeTellsOfEveryFile == Spec => []ExitCodeIsOfEveryFile
<1>1. CheckInv /\ [Next]_vars => CheckInv'
  <2> SUFFICES ASSUME CheckInv, [Next]_vars PROVE CheckInv'
    OBVIOUS
  <2>1. CASE \E f \in Files : Edit(f) \/ Measure(f) \/ ReadAgain(f)
    BY <2>1, EditKeepsInv, MeasureKeepsInv, ReadingAgainKeepsInv
  <2>2. CASE \E command \in UNION {Commands[s] : s \in DOMAIN Commands} : GitAnswers(command)
    BY <2>2, AnswersKeepInv
  <2>3. CASE \E e \in [status : {"added", "modified"}, head : Files] : AttachHunks(e)
    BY <2>3, AttachHunksKeepsInv
  <2>4. CASE StartScan \/ EndScan \/ StartHunks \/ EndHunks
    BY <2>4, StartScanKeepsInv, EndScanKeepsInv, StartHunksKeepsInv, EndHunksKeepsInv
  <2>5. CASE CheckThresholds \/ Exit \/ Fail
    BY <2>5, ReadingAgainKeepsInv, ExitKeepsInv, FailKeepsInv
  <2>6. CASE UNCHANGED vars
    BY <2>6, StutteringKeepsInv
  <2> QED
    BY <2>1, <2>2, <2>3, <2>4, <2>5, <2>6 DEF Next
<1>2. CheckInv => ExitCodeIsOfEveryFile
  BY DEF CheckInv
<1> QED
  BY InitHolds, <1>1, <1>2, PTL DEF Spec

-----------------------------------------------------------------------------
(* The lines that are kept are those of the base file, in their order.     *)
KeptInOrder ==
  \A l \in DOMAIN head : Kept(l) > 0 =>
    /\ Kept(l) <= Len(baseLines) /\ head[l].text = baseLines[Kept(l)]
    /\ \A m \in DOMAIN head : l < m /\ Kept(m) > 0 => Kept(l) < Kept(m)
FileInv == FileTyped /\ KeptInOrder

LEMMA HeadLines ==
  ASSUME FileTyped
  PROVE  /\ Len(head) \in Nat /\ DOMAIN head = 1..Len(head) /\ Len(baseLines) \in Nat
         /\ DOMAIN baseLines = 1..Len(baseLines)
         /\ \A l \in 1..Len(head) : Kept(l) \in Nat /\ head[l].text \in LineType
         /\ \A l \in 1..Len(baseLines) : baseLines[l] \in LineType
<1>1. /\ Len(head) \in Nat /\ DOMAIN head = 1..Len(head) /\ Len(baseLines) \in Nat
      /\ DOMAIN baseLines = 1..Len(baseLines)
      /\ \A l \in 1..Len(baseLines) : baseLines[l] \in LineType
  BY DEF FileTyped
<1>2. \A l \in 1..Len(head) : head[l] \in LineOfHead
  BY <1>1 DEF FileTyped
<1> QED  BY <1>1, <1>2 DEF LineOfHead, Kept

(* Where the lines come from after a line is deleted or added. *)
LEMMA LinesAfterDeletion ==
  ASSUME FileTyped, NEW l \in DOMAIN head, DeleteLine(l)
  PROVE  /\ DOMAIN head' = 1..(Len(head) - 1)
         /\ \A k \in DOMAIN head' : head'[k] = head[IF k < l THEN k ELSE k + 1]
<1>1. Len(head) \in Nat /\ l \in 1..Len(head)
  BY HeadLines
<1>2. head' = SubSeq(head, 1, l - 1) \o SubSeq(head, l + 1, Len(head))
  BY DEF DeleteLine, RemoveAt
<1> DEFINE s == SubSeq(head, 1, l - 1)
           t == SubSeq(head, l + 1, Len(head))
<1>3. /\ s \in Seq(LineOfHead) /\ Len(s) = l - 1 /\ \A k \in 1..(l - 1) : s[k] = head[k]
      /\ t \in Seq(LineOfHead) /\ Len(t) = Len(head) - l
      /\ \A k \in 1..(Len(head) - l) : t[k] = head[l + k]
  <2>1. head \in Seq(LineOfHead)
    BY DEF FileTyped
  <2>2. \A k \in 1..Len(head) : head[k] \in LineOfHead
    BY <1>1, <2>1, ElementOfSeq
  <2>3. /\ s \in Seq(LineOfHead) /\ Len(s) = (IF 1 <= l - 1 THEN (l - 1) - 1 + 1 ELSE 0)
        /\ \A k \in 1..((l - 1) - 1 + 1) : s[k] = head[1 + k - 1]
    BY <1>1, <2>2, SubSeqProperties
  <2>4. /\ t \in Seq(LineOfHead) /\ Len(t) = (IF l + 1 <= Len(head) THEN Len(head) - (l + 1) + 1 ELSE 0)
        /\ \A k \in 1..(Len(head) - (l + 1) + 1) : t[k] = head[(l + 1) + k - 1]
    BY <1>1, <2>2, SubSeqProperties
  <2> HIDE DEF s, t
  <2>5. Len(s) = l - 1 /\ \A k \in 1..(l - 1) : s[k] = head[k]
    BY <1>1, <2>3
  <2>6. Len(t) = Len(head) - l /\ \A k \in 1..(Len(head) - l) : t[k] = head[l + k]
    BY <1>1, <2>4
  <2> QED  BY <2>3, <2>4, <2>5, <2>6
<1> DEFINE q == s \o t
<1>4. head' = q
  BY <1>2
<1> HIDE DEF s, t
<1>5. Len(head') = Len(s) + Len(t) /\ DOMAIN head' = 1..Len(head')
      /\ \A k \in 1..(Len(s) + Len(t)) : head'[k] = IF k <= Len(s) THEN s[k] ELSE t[k - Len(s)]
  <2>1. /\ q \in Seq(LineOfHead) /\ Len(q) = Len(s) + Len(t)
        /\ \A k \in 1..(Len(s) + Len(t)) : q[k] = IF k <= Len(s) THEN s[k] ELSE t[k - Len(s)]
    BY <1>3, ConcatProperties
  <2> HIDE DEF q
  <2>2. DOMAIN q = 1..Len(q)
    BY <2>1
  <2> QED  BY <1>4, <2>1, <2>2
<1>6. DOMAIN head' = 1..(Len(head) - 1)
  BY <1>1, <1>3, <1>5
<1>7. ASSUME NEW k \in DOMAIN head' PROVE head'[k] = head[IF k < l THEN k ELSE k + 1]
  <2>1. k \in 1..(Len(s) + Len(t)) /\ k \in 1..(Len(head) - 1) /\ Len(s) = l - 1 /\ Len(t) = Len(head) - l
    BY <1>1, <1>3, <1>6, <1>7
  <2>2. head'[k] = IF k <= Len(s) THEN s[k] ELSE t[k - Len(s)]
    BY <1>5, <2>1
  <2>3. CASE k < l
    <3>1. k \in 1..(l - 1) /\ k <= Len(s)
      BY <1>1, <2>1, <2>3
    <3> QED  BY <1>3, <2>3, <2>2, <3>1
  <2>4. CASE ~(k < l)
    <3>1. k - Len(s) \in 1..(Len(head) - l) /\ l + (k - Len(s)) = k + 1 /\ ~(k <= Len(s))
      <4> DEFINE n == Len(s)
                 len == Len(head)
      <4>1. len \in Nat /\ l \in 1..len /\ k \in 1..(len - 1) /\ n = l - 1
        BY <1>1, <2>1
      <4> HIDE DEF n, len
      <4>2. k - n \in 1..(len - l) /\ l + (k - n) = k + 1 /\ ~(k <= n)
        BY <2>4, <4>1
      <4> QED  BY <4>2 DEF n, len
    <3>2. head'[k] = t[k - Len(s)]
      BY <2>2, <3>1
    <3> QED  BY <1>3, <2>4, <3>1, <3>2
  <2> QED  BY <2>3, <2>4
<1> QED  BY <1>6, <1>7

LEMMA LinesAfterAddition ==
  ASSUME FileTyped, NEW l \in 1..(Len(head) + 1), NEW text \in Texts, AddLine(l, text)
  PROVE  /\ DOMAIN head' = 1..(Len(head) + 1)
         /\ \A k \in DOMAIN head' : head'[k] = IF k = l THEN [text |-> text, origin |-> 0]
                                               ELSE head[IF k < l THEN k ELSE k - 1]
<1> DEFINE added == [text |-> text, origin |-> 0]
           s == SubSeq(head, 1, l - 1)
           t == SubSeq(head, l, Len(head))
<1>1. Len(head) \in Nat
  BY HeadLines
<1>2. head' = s \o <<added>> \o t
  BY DEF AddLine, InsertAt
<1>3. /\ s \in Seq(LineOfHead) /\ Len(s) = l - 1 /\ \A k \in 1..(l - 1) : s[k] = head[k]
      /\ t \in Seq(LineOfHead) /\ Len(t) = Len(head) - l + 1
      /\ \A k \in 1..(Len(head) - l + 1) : t[k] = head[l + k - 1]
  BY <1>1 DEF FileTyped
<1>4. added \in LineOfHead
  BY ChangeAssumption DEF LineOfHead
<1> HIDE DEF s, t, added
<1> DEFINE u == s \o <<added>>
<1>5. /\ u \in Seq(LineOfHead) /\ Len(u) = l
      /\ \A k \in 1..l : u[k] = IF k < l THEN s[k] ELSE added
  <2>1. <<added>> \in Seq(LineOfHead) /\ Len(<<added>>) = 1 /\ <<added>>[1] = added
    BY <1>4
  <2>2. u \in Seq(LineOfHead) /\ Len(u) = l
    BY <1>1, <1>3, <2>1, ConcatProperties
  <2>3. \A k \in 1..l : u[k] = IF k <= l - 1 THEN s[k] ELSE <<added>>[k - (l - 1)]
    BY <1>1, <1>3, <2>1, ConcatProperties
  <2>4. \A k \in 1..l : k < l \/ k = l
    OBVIOUS
  <2> QED  BY <2>1, <2>2, <2>3, <2>4
<1> HIDE DEF u
<1>6. head' = u \o t
  BY <1>2 DEF u
<1>7. /\ Len(head') = Len(head) + 1 /\ DOMAIN head' = 1..(Len(head) + 1)
      /\ \A k \in 1..(Len(head) + 1) : head'[k] = IF k <= l THEN u[k] ELSE t[k - l]
  <2>1. /\ Len(u \o t) = Len(u) + Len(t) /\ u \o t \in Seq(LineOfHead)
        /\ \A k \in 1..(Len(u) + Len(t)) : (u \o t)[k] = IF k <= Len(u) THEN u[k] ELSE t[k - Len(u)]
    BY <1>3, <1>5, ConcatProperties
  <2>2. Len(u) + Len(t) = Len(head) + 1
    BY <1>1, <1>3, <1>5
  <2>3. DOMAIN (u \o t) = 1..Len(u \o t)
    BY <2>1
  <2> QED  BY <1>5, <1>6, <2>1, <2>2, <2>3
<1>8. ASSUME NEW k \in DOMAIN head'
      PROVE  head'[k] = IF k = l THEN added ELSE head[IF k < l THEN k ELSE k - 1]
  <2>1. k \in 1..(Len(head) + 1)
    BY <1>7, <1>8
  <2>2. CASE k <= l
    <3>1. head'[k] = IF k < l THEN s[k] ELSE added
      BY <1>5, <1>7, <2>1, <2>2
    <3>2. k < l => s[k] = head[k]
      BY <1>1, <1>3, <2>1
    <3> QED  BY <2>1, <2>2, <3>1, <3>2
  <2>3. CASE k > l
    <3>1. k - l \in 1..(Len(head) - l + 1) /\ l + (k - l) - 1 = k - 1
      BY <1>1, <2>1, <2>3
    <3>2. head'[k] = t[k - l]
      BY <1>7, <2>1, <2>3
    <3>3. t[k - l] = head[l + (k - l) - 1]
      BY <1>3, <3>1
    <3>4. l \in Int /\ k \in Int /\ k # l /\ ~(k < l)
      BY <2>1, <2>3
    <3> QED  BY <3>1, <3>2, <3>3, <3>4
  <2>4. k \in Int /\ l \in Int
    BY <2>1
  <2> QED  BY <2>2, <2>3, <2>4
<1> QED  BY <1>7, <1>8 DEF added

LEMMA FileInvAlways == FileSpec => []FileInv
<1>1. FileInit => KeptInOrder
  <2> SUFFICES ASSUME FileInit PROVE KeptInOrder
    OBVIOUS
  <2>1. baseLines \in Seq(LineType)
    BY ChangeAssumption DEF FileInit
  <2>2. DOMAIN head = 1..Len(baseLines) /\ \A l \in 1..Len(baseLines) : head[l] = [text |-> baseLines[l], origin |-> l]
    BY <2>1 DEF FileInit, Unchanged
  <2> QED  BY <2>1, <2>2 DEF KeptInOrder, Kept
<1>2. FileInv /\ [FileNext]_fileVars => KeptInOrder'
  <2> SUFFICES ASSUME FileInv, [FileNext]_fileVars PROVE KeptInOrder'
    OBVIOUS
  <2>1. /\ FileTyped /\ KeptInOrder
        /\ Len(head) \in Nat /\ DOMAIN head = 1..Len(head) /\ Len(baseLines) \in Nat
    BY HeadLines DEF FileInv
  <2>2. ASSUME NEW l \in DOMAIN head, DeleteLine(l) PROVE KeptInOrder'
    <3> DEFINE at(k) == IF k < l THEN k ELSE k + 1
    <3>1. DOMAIN head' = 1..(Len(head) - 1) /\ \A k \in DOMAIN head' : head'[k] = head[at(k)]
      BY <2>1, <2>2, LinesAfterDeletion
    <3>2. \A k \in DOMAIN head' : at(k) \in DOMAIN head /\ Kept(k)' = Kept(at(k))
      BY <2>1, <3>1 DEF Kept
    <3>3. \A k, m \in DOMAIN head' : k < m => at(k) < at(m)
      BY <2>1, <3>1
    <3>4. baseLines' = baseLines
      BY <2>2 DEF DeleteLine
    <3> HIDE DEF at
    <3> QED  BY <2>1, <3>1, <3>2, <3>3, <3>4 DEF KeptInOrder
  <2>3. ASSUME NEW l \in 1..(Len(head) + 1), NEW text \in Texts, AddLine(l, text) PROVE KeptInOrder'
    <3> DEFINE at(k) == IF k < l THEN k ELSE k - 1
    <3>1. /\ DOMAIN head' = 1..(Len(head) + 1)
          /\ \A k \in DOMAIN head' : head'[k] = IF k = l THEN [text |-> text, origin |-> 0] ELSE head[at(k)]
      BY <2>1, <2>3, LinesAfterAddition
    <3>2. \A k \in DOMAIN head' : Kept(k)' > 0 =>
            at(k) \in DOMAIN head /\ head'[k] = head[at(k)] /\ Kept(k)' = Kept(at(k)) /\ k # l
      BY <2>1, <3>1 DEF Kept
    <3>3. \A k, m \in DOMAIN head' : k < m /\ k # l /\ m # l => at(k) < at(m)
      BY <2>1, <3>1
    <3>4. baseLines' = baseLines
      BY <2>3 DEF AddLine
    <3> HIDE DEF at
    <3> QED  BY <2>1, <3>1, <3>2, <3>3, <3>4 DEF KeptInOrder
  <2>4. CASE UNCHANGED fileVars
    BY <2>1, <2>4 DEF fileVars, KeptInOrder, Kept
  <2> QED  BY <2>1, <2>2, <2>3, <2>4 DEF FileNext
<1> QED  BY <1>1, <1>2, FileTypedAlways, PTL DEF FileInv, FileSpec

-----------------------------------------------------------------------------
(* What no hunk touches.                                                   *)

LEMMA LinesBetweenKeptOnes ==
  ASSUME FileTyped
  PROVE  /\ KeptLines \subseteq 0..(Len(head) + 1) /\ 0 \in KeptLines /\ Len(head) + 1 \in KeptLines
         /\ \A l \in 1..Len(head) : l \in KeptLines <=> Kept(l) > 0
         /\ \A l \in (0..(Len(head) + 1)) \ KeptLines : \E p, q \in KeptLines : AreNeighbours(p, q) /\ p < l /\ l < q
         /\ \A l \in 1..(Len(head) + 1) : l \in KeptLines /\ l - 1 \in KeptLines => AreNeighbours(l - 1, l)
<1>1. Len(head) \in Nat /\ DOMAIN head = 1..Len(head)
  BY HeadLines
<1>2. /\ KeptLines \subseteq 0..(Len(head) + 1) /\ 0 \in KeptLines /\ Len(head) + 1 \in KeptLines
      /\ \A l \in 1..Len(head) : l \in KeptLines <=> Kept(l) > 0
  BY <1>1 DEF KeptLines
<1>3. ASSUME NEW l \in (0..(Len(head) + 1)) \ KeptLines
      PROVE  \E p, q \in KeptLines : AreNeighbours(p, q) /\ p < l /\ l < q
  <2> DEFINE above == {k \in KeptLines : k < l}
             below == {k \in KeptLines : k > l}
  <2>1. above \subseteq 0..(Len(head) + 1) /\ above # {} /\ below \subseteq Nat /\ below # {}
    <3>1. l # 0 /\ l # Len(head) + 1 /\ l \in 0..(Len(head) + 1)
      BY <1>2, <1>3
    <3>2. 0 \in above /\ Len(head) + 1 \in below
      BY <1>1, <1>2, <3>1
    <3>3. above \subseteq KeptLines /\ below \subseteq KeptLines
      OBVIOUS
    <3> HIDE DEF above, below
    <3>4. KeptLines \subseteq Nat
      BY <1>1, <1>2
    <3> QED  BY <1>2, <3>2, <3>3, <3>4
  <2>2. Max(above) \in above /\ \A k \in above : k <= Max(above)
    <3>1. Len(head) + 1 \in Nat
      BY <1>1
    <3> HIDE DEF above
    <3> QED  BY <2>1, <3>1, MaxIsGreatest
  <2>3. Min(below) \in below /\ \A k \in below : Min(below) <= k
    BY <2>1, MinIsLeast
  <2> DEFINE p == Max(above)
             q == Min(below)
  <2> HIDE DEF p, q
  <2>4. p \in KeptLines /\ p < l /\ q \in KeptLines /\ l < q
    BY <2>2, <2>3 DEF p, q
  <2>5. ASSUME NEW k \in KeptLines, p < k, k < q PROVE FALSE
    <3>1. k # l /\ k \in Nat /\ l \in Nat /\ p \in Nat /\ q \in Nat
      BY <1>1, <1>2, <2>4
    <3>2. CASE k < l
      BY <2>2, <2>5, <3>1, <3>2 DEF p
    <3>3. CASE k > l
      BY <2>3, <2>5, <3>1, <3>3 DEF q
    <3> QED  BY <3>1, <3>2, <3>3
  <2>6. p < q
    BY <1>1, <1>2, <2>4
  <2> QED  BY <2>4, <2>5, <2>6 DEF AreNeighbours
<1>4. ASSUME NEW l \in 1..(Len(head) + 1), l \in KeptLines, l - 1 \in KeptLines PROVE AreNeighbours(l - 1, l)
  BY <1>1, <1>2, <1>4 DEF AreNeighbours
<1> QED  BY <1>2, <1>3, <1>4

LEMMA HunksOfTheChange ==
  ASSUME FileTyped, NEW p \in KeptLines, NEW q \in KeptLines, AreNeighbours(p, q),
         q > p + 1 \/ OriginOf(q) > OriginOf(p) + 1
  PROVE  /\ AnchoredToCode(HunkBetween(p, q)) \in Change.hunks /\ ~Change.whole
         /\ p \in 0..Len(head) /\ q \in 1..(Len(head) + 1) /\ p < q
         /\ HunkBetween(p, q) = [headStart |-> IF q = p + 1 THEN p ELSE p + 1, headCount |-> q - p - 1,
                                 deletesDirective |-> DeletesDirective(p, q)]
<1>1. HunkBetween(p, q) \in LineHunks
  BY DEF LineHunks
<1>2. AnchoredToCode(HunkBetween(p, q)) \in Change.hunks /\ ~Change.whole
  BY <1>1 DEF Change, ChangedBy
<1>3. p \in 0..Len(head) /\ q \in 1..(Len(head) + 1) /\ p < q
  BY LinesBetweenKeptOnes, HeadLines DEF AreNeighbours
<1> QED  BY <1>2, <1>3 DEF HunkBetween

(* A deletion moves up no further than the last line that stops it. *)
LEMMA AnchorOfADeletion ==
  ASSUME FileTyped, NEW h \in HunkType, h.headCount = 0
  PROVE  LET a == AnchoredToCode(h)
         IN /\ a.headCount = 0 /\ a.headStart \in 0..h.headStart /\ a.deletesDirective = h.deletesDirective
            /\ \A l \in 1..h.headStart : ~IsPassedByAnchoring(head[l].text) \/ ~endsByIndentation => l <= a.headStart
            /\ endsByIndentation => a.headStart = 0 \/ ~IsPassedByAnchoring(head[a.headStart].text)
<1> DEFINE S == {0} \cup {l \in 1..h.headStart : ~IsPassedByAnchoring(head[l].text)}
           a == AnchoredToCode(h)
<1>1. h.headStart \in Nat /\ h = [headStart |-> h.headStart, headCount |-> h.headCount, deletesDirective |-> h.deletesDirective]
  BY DEF HunkType
<1>2. CASE ~endsByIndentation
  BY <1>1, <1>2 DEF AnchoredToCode
<1>3. CASE endsByIndentation
  <2>1. S \subseteq 0..h.headStart /\ S # {}
    BY <1>1
  <2>2. Max(S) \in S /\ \A x \in S : x <= Max(S)
    BY <1>1, <2>1, MaxIsGreatest
  <2>3. a = [h EXCEPT !.headStart = Max(S)]
    BY <1>3 DEF AnchoredToCode
  <2> HIDE DEF S
  <2>4. a.headStart = Max(S) /\ a.headCount = 0 /\ a.deletesDirective = h.deletesDirective
    BY <1>1, <2>3
  <2>5. a.headStart \in S /\ a.headStart \in 0..h.headStart
    BY <2>1, <2>2, <2>4
  <2>6. \A l \in 1..h.headStart : ~IsPassedByAnchoring(head[l].text) => l <= a.headStart
    BY <2>2, <2>4 DEF S
  <2>7. a.headStart = 0 \/ ~IsPassedByAnchoring(head[a.headStart].text)
    BY <2>5 DEF S
  <2> QED  BY <1>3, <2>4, <2>5, <2>6, <2>7
<1> QED  BY <1>2, <1>3 DEF FileTyped

LEMMA UntouchedLineIsKept ==
  ASSUME FileTyped, NEW s \in 1..Len(head), NEW e \in 1..Len(head), s <= e, NEW byIndentation,
         \A h \in Change.hunks : ~TouchesSpan(h, s, e, byIndentation)
  PROVE  Kept(e) > 0
<1>1. Len(head) \in Nat /\ \A l \in 1..Len(head) : Kept(l) \in Nat
  BY HeadLines
<1> SUFFICES ASSUME ~(Kept(e) > 0) PROVE FALSE
  OBVIOUS
<1>2. e \in (0..(Len(head) + 1)) \ KeptLines
  BY <1>1, LinesBetweenKeptOnes
<1>3. PICK p \in KeptLines, q \in KeptLines : AreNeighbours(p, q) /\ p < e /\ e < q
  BY <1>2, LinesBetweenKeptOnes
<1>4. p \in Nat /\ q \in Nat /\ q > p + 1
  BY <1>1, <1>3, LinesBetweenKeptOnes
<1> DEFINE h == HunkBetween(p, q)
<1>5. AnchoredToCode(h) \in Change.hunks /\ h.headStart = p + 1 /\ h.headCount = q - p - 1
  BY <1>3, <1>4, HunksOfTheChange
<1> HIDE DEF h
<1>6. AnchoredToCode(h) = h
  BY <1>4, <1>5 DEF AnchoredToCode
<1>7. TouchesSpan(h, s, e, byIndentation)
  BY <1>1, <1>3, <1>4, <1>5 DEF TouchesSpan
<1> QED  BY <1>5, <1>6, <1>7

(* Lines that no hunk adds to or deletes from are lines of the base file   *)
(* that follow one another there.                                          *)
Disturbs(h, s, e) == TouchesSpan(h, s, IF h.headCount > 0 THEN e - 1 ELSE e, FALSE)
AreCopied(s, e) == \A l \in s..e : Kept(l) > 0 /\ Kept(l) = Kept(s) + (l - s)

LEMMA UndisturbedLinesAreCopied ==
  ASSUME FileInv, NEW s \in 1..Len(head), NEW e \in 1..Len(head), s <= e, Kept(e) > 0,
         ~endsByIndentation \/ ~IsPassedByAnchoring(head[s].text),
         \A h \in Change.hunks : ~Disturbs(h, s, e)
  PROVE  AreCopied(s, e)
<1>1. /\ FileTyped /\ Len(head) \in Nat /\ DOMAIN head = 1..Len(head)
      /\ \A l \in 1..Len(head) : Kept(l) \in Nat
  BY HeadLines DEF FileInv
<1>2. ASSUME NEW l \in s..e, ~(Kept(l) > 0) PROVE FALSE
  <2>1. l < e /\ l \in 1..Len(head) /\ l \notin KeptLines
    BY <1>1, <1>2, LinesBetweenKeptOnes
  <2>2. PICK p \in KeptLines, q \in KeptLines : AreNeighbours(p, q) /\ p < l /\ l < q
    BY <1>1, <2>1, LinesBetweenKeptOnes
  <2>3. p \in Nat /\ q \in Nat /\ q > p + 1
    BY <1>1, <2>1, <2>2, LinesBetweenKeptOnes
  <2> DEFINE h == HunkBetween(p, q)
  <2>4. AnchoredToCode(h) \in Change.hunks /\ h.headStart = p + 1 /\ h.headCount = q - p - 1
    BY <1>1, <2>2, <2>3, HunksOfTheChange
  <2> HIDE DEF h
  <2>5. AnchoredToCode(h) = h
    BY <2>3, <2>4 DEF AnchoredToCode
  <2>6. h.headCount > 0 /\ h.headStart <= e - 1 /\ s < h.headStart + h.headCount
    BY <1>1, <2>1, <2>2, <2>3, <2>4
  <2>7. Disturbs(h, s, e)
    BY <2>3, <2>4, <2>6 DEF Disturbs, TouchesSpan
  <2> QED  BY <2>4, <2>5, <2>7
<1>3. ASSUME NEW l \in s..e, l < e PROVE Kept(l + 1) = Kept(l) + 1
  <2>1. l \in 1..Len(head) /\ l + 1 \in 1..Len(head) /\ l + 1 \in s..e
    BY <1>1, <1>3
  <2>2. Kept(l) > 0 /\ Kept(l + 1) > 0
    BY <1>2, <2>1
  <2>3. l \in KeptLines /\ l + 1 \in KeptLines
    BY <1>1, <2>1, <2>2, LinesBetweenKeptOnes
  <2>4. AreNeighbours((l + 1) - 1, l + 1)
    BY <1>1, <2>1, <2>3, LinesBetweenKeptOnes
  <2>5. AreNeighbours(l, l + 1)
    BY <2>1, <2>4
  <2>6. Kept(l) < Kept(l + 1)
    BY <1>1, <2>1, <2>2 DEF FileInv, KeptInOrder
  <2>7. OriginOf(l) = Kept(l) /\ OriginOf(l + 1) = Kept(l + 1)
    BY <1>1, <2>1 DEF OriginOf
  <2>8. ASSUME Kept(l + 1) > Kept(l) + 1 PROVE FALSE
    <3> DEFINE h == HunkBetween(l, l + 1)
               a == AnchoredToCode(h)
    <3>1. OriginOf(l + 1) > OriginOf(l) + 1
      BY <2>7, <2>8
    <3>2. a \in Change.hunks /\ h.headStart = l /\ h.headCount = 0 /\ h \in HunkType
      <4>1. a \in Change.hunks /\ h = [headStart |-> IF l + 1 = l + 1 THEN l ELSE l + 1, headCount |-> (l + 1) - l - 1,
                                       deletesDirective |-> DeletesDirective(l, l + 1)]
        BY <1>1, <2>3, <2>5, <3>1, HunksOfTheChange
      <4>2. DeletesDirective(l, l + 1) \in BOOLEAN
        BY DEF DeletesDirective
      <4> QED  BY <2>1, <4>1, <4>2 DEF HunkType
    <3>3. a.headCount = 0 /\ a.headStart \in 0..h.headStart /\ s <= a.headStart
      <4>1. s \in 1..h.headStart
        BY <1>1, <2>1, <3>2
      <4> QED  BY <1>1, <3>2, <4>1, AnchorOfADeletion
    <3> HIDE DEF a, h
    <3>4. Disturbs(a, s, e)
      BY <1>1, <1>3, <2>1, <3>2, <3>3 DEF Disturbs, TouchesSpan
    <3> QED  BY <3>2, <3>4
  <2> QED  BY <1>1, <2>1, <2>6, <2>8
<1>4. ASSUME NEW l \in s..e, Kept(l) # Kept(s) + (l - s) PROVE FALSE
  <2> DEFINE S == {k \in s..e : Kept(k) # Kept(s) + (k - s)}
  <2>1. S \subseteq Nat /\ S # {}
    BY <1>1, <1>4
  <2> DEFINE k == Min(S)
  <2>2. k \in S /\ \A m \in S : k <= m
    BY <2>1, MinIsLeast
  <2> HIDE DEF k
  <2>3. k \in s..e /\ k # s
    BY <1>1, <2>2
  <2>4. k - 1 \in s..e /\ k - 1 < e /\ k - 1 \notin S
    BY <1>1, <2>2, <2>3
  <2>5. Kept(k - 1) = Kept(s) + ((k - 1) - s)
    BY <2>4
  <2>6. Kept((k - 1) + 1) = Kept(k - 1) + 1
    BY <1>3, <2>4
  <2>7. Kept(k) = Kept(s) + (k - s)
    BY <1>1, <2>3, <2>5, <2>6
  <2> QED  BY <2>2, <2>7
<1> QED  BY <1>2, <1>4 DEF AreCopied

(* What copies hold, in head and in the base file. *)
LEMMA CopiesAreEqual ==
  ASSUME FileInv, NEW s \in 1..Len(head), NEW e \in 1..Len(head), s <= e, AreCopied(s, e)
  PROVE  /\ Kept(s) \in 1..Len(baseLines) /\ Kept(s) + (e - s) \in 1..Len(baseLines)
         /\ \A l \in s..e : Kept(s) + (l - s) \in 1..Len(baseLines)
                            /\ baseLines[Kept(s) + (l - s)] = head[l].text
<1>1. /\ FileTyped /\ Len(head) \in Nat /\ DOMAIN head = 1..Len(head) /\ Len(baseLines) \in Nat
      /\ \A l \in 1..Len(head) : Kept(l) \in Nat
  BY HeadLines DEF FileInv
<1>2. ASSUME NEW l \in s..e
      PROVE  Kept(s) + (l - s) \in 1..Len(baseLines) /\ baseLines[Kept(s) + (l - s)] = head[l].text
  <2>1. l \in 1..Len(head) /\ Kept(l) > 0 /\ Kept(l) = Kept(s) + (l - s)
    BY <1>1 DEF AreCopied
  <2>2. Kept(l) <= Len(baseLines) /\ head[l].text = baseLines[Kept(l)]
    BY <1>1, <2>1 DEF FileInv, KeptInOrder
  <2> QED  BY <1>1, <2>1, <2>2
<1>3. s \in s..e /\ e \in s..e /\ Kept(s) + (s - s) = Kept(s)
  BY <1>1
<1> QED  BY <1>2, <1>3

-----------------------------------------------------------------------------
(* A function and the one of the base file that starts where it starts.    *)

LEMMA SequenceOfASetHoldsIt ==
  ASSUME NEW S, IsFiniteSet(S)
  PROVE  \A x \in S : \E i \in 1..Cardinality(S) : SetToSeq(S)[i] = x
<1> DEFINE n == Cardinality(S)
           g == SetToSeq(S)
<1>1. n \in Nat /\ g \in [1..n -> S] /\ \A i, j \in 1..n : g[i] = g[j] => i = j
  BY SequenceOfASet
<1>2. Cardinality(1..n) = n
  BY <1>1, FS_Interval
<1> HIDE DEF g
<1>3. g \in Injection(1..n, S)
  BY <1>1 DEF Injection, IsInjective
<1>4. g \in Surjection(1..n, S)
  BY <1>2, <1>3, FS_Injection
<1> QED  BY <1>4 DEF Surjection, g

LEMMA PlacesHaveFunctions ==
  ASSUME NEW lines \in Seq(LineType)
  PROVE  LET functions == Measured(lines).functions
         IN /\ \A f \in DOMAIN functions :
                 /\ functions[f].startLine \in Opening(lines) /\ functions[f].startColumn \in {1, 2}
                 /\ functions[f].startColumn <= lines[functions[f].startLine].opens
                 /\ functions[f] = FunctionOf(lines, functions[f].startLine, functions[f].startColumn)
            /\ \A l \in Opening(lines), column \in {1, 2} :
                 column <= lines[l].opens => \E f \in DOMAIN functions : functions[f] = FunctionOf(lines, l, column)
<1> DEFINE S == {place \in Opening(lines) \X {1, 2} : place[2] <= lines[place[1]].opens}
           places == FunctionPlaces(lines)
           functions == Measured(lines).functions
<1>1. IsFiniteSet(S)
  <2>1. IsFiniteSet(Opening(lines))
    BY LinesOfCode, FS_Subset DEF Opening
  <2>2. IsFiniteSet({1, 2})
    <3>1. IsFiniteSet({1})
      BY FS_Singleton
    <3>2. IsFiniteSet({1} \cup {2})
      BY <3>1, FS_AddElement
    <3>3. {1, 2} = {1} \cup {2}
      OBVIOUS
    <3> QED  BY <3>2, <3>3
  <2>3. IsFiniteSet(Opening(lines) \X {1, 2})
    BY <2>1, <2>2, FS_Product
  <2> QED  BY <2>3, FS_Subset
<1>2. places = SetToSeq(S)
  BY DEF FunctionPlaces
<1>3. functions = [f \in DOMAIN places |-> FunctionOf(lines, places[f][1], places[f][2])]
  BY DEF Measured
<1> HIDE DEF places, functions
<1> DEFINE n == Cardinality(S)
<1>4. /\ n \in Nat /\ places \in [1..n -> S]
      /\ \A x \in S : \E i \in 1..n : places[i] = x
  <2> HIDE DEF S
  <2> QED  BY <1>1, <1>2, SequenceOfASet, SequenceOfASetHoldsIt
<1> HIDE DEF n
<1>5. DOMAIN functions = 1..n /\ \A f \in 1..n : functions[f] = FunctionOf(lines, places[f][1], places[f][2])
  BY <1>3, <1>4
<1>6. ASSUME NEW f \in 1..n
      PROVE  /\ functions[f].startLine \in Opening(lines) /\ functions[f].startColumn \in {1, 2}
             /\ functions[f].startColumn <= lines[functions[f].startLine].opens
             /\ functions[f] = FunctionOf(lines, functions[f].startLine, functions[f].startColumn)
  <2>1. places[f] \in S
    BY <1>4
  <2>2. places[f][1] \in Opening(lines) /\ places[f][2] \in {1, 2} /\ places[f][2] <= lines[places[f][1]].opens
    BY <2>1
  <2>3. functions[f].startLine = places[f][1] /\ functions[f].startColumn = places[f][2]
    BY <1>5 DEF FunctionOf
  <2> QED  BY <1>5, <2>2, <2>3
<1>7. ASSUME NEW l \in Opening(lines), NEW column \in {1, 2}, column <= lines[l].opens
      PROVE  \E f \in 1..n : functions[f] = FunctionOf(lines, l, column)
  <2>1. <<l, column>> \in S
    BY <1>7
  <2>2. PICK f \in 1..n : places[f] = <<l, column>>
    BY <1>4, <2>1
  <2>3. places[f][1] = l /\ places[f][2] = column
    BY <2>2
  <2> QED  BY <1>5, <2>3
<1> QED  BY <1>5, <1>6, <1>7 DEF functions

(* Where a function ends: this line and no other. *)
IsBodyEnd(lines, l, b) ==
  IF lines[l].oneLine THEN b = l
  ELSE /\ b \in Nat /\ l <= b
       /\ \A c \in CodeOf(lines) : l < c /\ c < b => lines[c].depth > lines[l].depth
       /\ IF endsByIndentation
            THEN /\ b \in CodeOf(lines) /\ (b = l \/ lines[b].depth > lines[l].depth)
                 /\ \A c \in CodeOf(lines) : c > b =>
                      \E d \in CodeOf(lines) : b < d /\ d <= c /\ lines[d].depth <= lines[l].depth
            ELSE l < b /\ (b = Len(lines) + 1 \/ (b \in CodeOf(lines) /\ lines[b].depth <= lines[l].depth))

LEMMA BodyEndsThere ==
  ASSUME NEW lines \in Seq(LineType), NEW l \in CodeOf(lines)
  PROVE  IsBodyEnd(lines, l, BodyEnd(lines, l))
<1> DEFINE after == {c \in CodeOf(lines) : c > l /\ lines[c].depth <= lines[l].depth}
           next == Min(after \cup {Len(lines) + 1})
           within == {c \in CodeOf(lines) : l <= c /\ c < next}
<1>1. Len(lines) \in Nat /\ CodeOf(lines) \subseteq 1..Len(lines) /\ l \in 1..Len(lines)
      /\ \A c \in 1..Len(lines) : lines[c].depth \in Nat
  <2>1. \A c \in 1..Len(lines) : lines[c] \in LineType
    OBVIOUS
  <2> QED  BY <2>1, LinesOfCode DEF LineType
<1>2. next \in after \cup {Len(lines) + 1} /\ \A c \in after \cup {Len(lines) + 1} : next <= c
  <2>1. after \cup {Len(lines) + 1} \subseteq Nat
    BY <1>1
  <2> HIDE DEF after
  <2> QED  BY <2>1, MinIsLeast
<1> HIDE DEF next
<1>3. next \in Nat /\ l < next
  BY <1>1, <1>2
<1>4. \A c \in CodeOf(lines) : l < c /\ c < next => lines[c].depth > lines[l].depth
  <2> SUFFICES ASSUME NEW c \in CodeOf(lines), l < c, c < next, lines[c].depth <= lines[l].depth PROVE FALSE
    BY <1>1
  <2>1. c \in after
    OBVIOUS
  <2> QED  BY <1>1, <1>2, <1>3, <2>1
<1>5. CASE lines[l].oneLine
  BY <1>5 DEF BodyEnd, IsBodyEnd
<1>6. CASE ~lines[l].oneLine /\ ~endsByIndentation
  <2>1. BodyEnd(lines, l) = next
    BY <1>6 DEF BodyEnd, next
  <2>2. next = Len(lines) + 1 \/ (next \in CodeOf(lines) /\ lines[next].depth <= lines[l].depth)
    BY <1>2
  <2> HIDE DEF after
  <2> QED  BY <1>1, <1>3, <1>4, <1>6, <2>1, <2>2 DEF IsBodyEnd
<1>7. CASE ~lines[l].oneLine /\ endsByIndentation
  <2>1. BodyEnd(lines, l) = Max(within)
    BY <1>7 DEF BodyEnd, next
  <2>2. l \in within /\ within \subseteq 0..Len(lines) /\ within # {}
    BY <1>1, <1>3
  <2>3. Max(within) \in within /\ \A c \in within : c <= Max(within)
    <3> HIDE DEF within
    <3> QED  BY <1>1, <2>2, MaxIsGreatest
  <2> DEFINE b == Max(within)
  <2> HIDE DEF b
  <2>4. b \in CodeOf(lines) /\ l <= b /\ b < next /\ b \in Nat
    BY <1>1, <2>3 DEF b
  <2>5. b = l \/ lines[b].depth > lines[l].depth
    BY <1>1, <1>4, <2>4
  <2>6. ASSUME NEW c \in CodeOf(lines), c > b
        PROVE  \E d \in CodeOf(lines) : b < d /\ d <= c /\ lines[d].depth <= lines[l].depth
    <3>1. c \in 1..Len(lines)
      BY <1>1
    <3>2. c >= next
      <4>1. c \in within => c <= b
        BY <2>3 DEF b
      <4> QED  BY <1>1, <1>3, <2>4, <2>6, <3>1, <4>1
    <3>3. next \in after
      BY <1>1, <1>2, <1>3, <3>1, <3>2
    <3> QED  BY <2>4, <3>2, <3>3
  <2>7. \A c \in CodeOf(lines) : l < c /\ c < b => lines[c].depth > lines[l].depth
    BY <1>1, <1>3, <1>4, <2>4
  <2>8. BodyEnd(lines, l) = b
    BY <2>1 DEF b
  <2> QED  BY <1>7, <2>4, <2>5, <2>6, <2>7, <2>8 DEF IsBodyEnd
<1> QED  BY <1>5, <1>6, <1>7

LEMMA OneBodyEnd ==
  ASSUME NEW lines \in Seq(LineType), NEW l \in CodeOf(lines), ~endsByIndentation,
         NEW a, IsBodyEnd(lines, l, a), NEW b, IsBodyEnd(lines, l, b)
  PROVE  a = b
<1>1. Len(lines) \in Nat /\ CodeOf(lines) \subseteq 1..Len(lines) /\ l \in 1..Len(lines)
      /\ \A c \in 1..Len(lines) : lines[c].depth \in Nat
  <2>1. \A c \in 1..Len(lines) : lines[c] \in LineType
    OBVIOUS
  <2> QED  BY <2>1, LinesOfCode DEF LineType
<1>2. CASE lines[l].oneLine
  BY <1>2 DEF IsBodyEnd
<1>3. CASE ~lines[l].oneLine
  <2>1. ASSUME NEW x, IsBodyEnd(lines, l, x), NEW y, IsBodyEnd(lines, l, y), x < y PROVE FALSE
    <3>1. x \in Nat /\ y \in Nat /\ l < x /\ y <= Len(lines) + 1
      BY <1>1, <1>3, <2>1 DEF IsBodyEnd
    <3>2. x \in CodeOf(lines) /\ lines[x].depth <= lines[l].depth
      BY <1>1, <1>3, <2>1, <3>1 DEF IsBodyEnd
    <3>3. lines[x].depth > lines[l].depth
      BY <1>3, <2>1, <3>1, <3>2 DEF IsBodyEnd
    <3> QED  BY <1>1, <3>2, <3>3
  <2>2. a \in Nat /\ b \in Nat
    BY <1>3 DEF IsBodyEnd
  <2> QED  BY <2>1, <2>2
<1> QED  BY <1>2, <1>3

-----------------------------------------------------------------------------
HeadText == [l \in DOMAIN head |-> head[l].text]

LEMMA HeadIsItsText ==
  ASSUME FileTyped
  PROVE  /\ HeadText \in Seq(LineType) /\ Len(HeadText) = Len(head) /\ Len(head) \in Nat
         /\ HeadFile = Measured(HeadText) /\ HeadFile.content = HeadText
         /\ HeadFile.endsByIndentation = endsByIndentation
         /\ \A l \in 1..Len(head) : HeadText[l] = head[l].text
         /\ CodeOf(HeadText) = {l \in 1..Len(head) : head[l].text.code}
<1>1. /\ Len(head) \in Nat /\ DOMAIN head = 1..Len(head)
      /\ \A l \in 1..Len(head) : head[l].text \in LineType
  BY HeadLines
<1>2. HeadText \in [1..Len(head) -> LineType]
  BY <1>1 DEF HeadText
<1>3. HeadText \in Seq(LineType) /\ Len(HeadText) = Len(head)
  BY <1>1, <1>2
<1>4. HeadFile = Measured(HeadText)
  BY DEF HeadFile, HeadText
<1>5. HeadFile.content = HeadText /\ HeadFile.endsByIndentation = endsByIndentation
  BY <1>4 DEF Measured
<1>6. \A l \in 1..Len(head) : HeadText[l] = head[l].text
  BY <1>1 DEF HeadText
<1>7. CodeOf(HeadText) = {l \in 1..Len(head) : head[l].text.code}
  BY <1>1, <1>2, <1>6 DEF CodeOf
<1> QED  BY <1>1, <1>3, <1>4, <1>5, <1>6, <1>7

(* Where a function of a parsed file starts and ends. *)
LEMMA SpansOfTheHead ==
  ASSUME FileTyped, Parses, NEW f \in DOMAIN HeadFile.functions
  PROVE  LET fn == HeadFile.functions[f] IN
         /\ fn.startLine \in 1..Len(head) /\ fn.endLine \in 1..Len(head) /\ fn.startLine <= fn.endLine
         /\ head[fn.startLine].text.code /\ fn.startLine \in CodeOf(HeadText)
         /\ fn.startColumn \in {1, 2} /\ fn.startColumn <= head[fn.startLine].text.opens
         /\ head[fn.startLine].text.opens > 0
         /\ fn = FunctionOf(HeadText, fn.startLine, fn.startColumn)
         /\ fn.endLine = BodyEnd(HeadText, fn.startLine)
         /\ IsBodyEnd(HeadText, fn.startLine, fn.endLine)
<1> DEFINE fn == HeadFile.functions[f]
           s == fn.startLine
           e == fn.endLine
<1>1. /\ HeadText \in Seq(LineType) /\ Len(HeadText) = Len(head) /\ Len(head) \in Nat
      /\ HeadFile = Measured(HeadText) /\ HeadFile.content = HeadText
      /\ \A l \in 1..Len(head) : HeadText[l] = head[l].text
      /\ CodeOf(HeadText) = {l \in 1..Len(head) : head[l].text.code}
  BY HeadIsItsText
<1>2. /\ s \in Opening(HeadText) /\ fn.startColumn \in {1, 2} /\ fn.startColumn <= HeadText[s].opens
      /\ fn = FunctionOf(HeadText, s, fn.startColumn)
  <2> HIDE DEF fn
  <2>1. fn = Measured(HeadText).functions[f] /\ f \in DOMAIN Measured(HeadText).functions
    BY <1>1 DEF fn
  <2> QED  BY <1>1, <2>1, PlacesHaveFunctions
<1> HIDE DEF fn
<1>3. s \in CodeOf(HeadText) /\ s \in 1..Len(head) /\ head[s].text.code /\ HeadText[s].opens > 0
  BY <1>1, <1>2 DEF Opening
<1>4. e = BodyEnd(HeadText, s)
  BY <1>2 DEF FunctionOf
<1>5. IsBodyEnd(HeadText, s, e)
  BY <1>1, <1>3, <1>4, BodyEndsThere
<1>6. e \in 1..Len(head) /\ s <= e
  <2>1. CASE HeadText[s].oneLine
    BY <1>3, <1>5, <2>1 DEF IsBodyEnd
  <2>2. CASE ~HeadText[s].oneLine /\ endsByIndentation
    BY <1>1, <1>5, <2>2 DEF IsBodyEnd
  <2>3. CASE ~HeadText[s].oneLine /\ ~endsByIndentation
    <3>1. WellFormed(HeadText) /\ Opens(HeadText, s)
      BY <1>1, <1>3, <2>3 DEF Parses, Opens
    <3>2. e \in CodeOf(HeadText)
      BY <1>3, <1>4, <2>3, <3>1 DEF WellFormed
    <3> QED  BY <1>1, <1>5, <2>3, <3>2 DEF IsBodyEnd
  <2> QED  BY <2>1, <2>2, <2>3
<1>7. head[s].text.opens = HeadText[s].opens
  BY <1>1, <1>3
<1> QED  BY <1>2, <1>3, <1>4, <1>5, <1>6, <1>7 DEF fn

(* A change that leaves a function alone touches no directive's span. *)
LEMMA UncheckedIsUntouched ==
  ASSUME FileTyped, Parses, NEW f \in DOMAIN HeadFile.functions,
         f \notin CheckedFunctions(HeadFile, CheckedChange)
  PROVE  /\ \A h \in Change.hunks : /\ ~h.deletesDirective
                                    /\ ~TouchesSpan(h, HeadFile.functions[f].startLine,
                                                    HeadFile.functions[f].endLine, endsByIndentation)
                                    /\ \A span \in AttachmentSpans(HeadFile) :
                                         ~TouchesSpan(h, span.startLine,
                                            IF h.headCount > 0 /\ span.endsAtFunction THEN span.endLine - 1
                                            ELSE span.endLine, FALSE)
<1> DEFINE s == HeadFile.functions[f].startLine
           e == HeadFile.functions[f].endLine
           all == [headStart |-> 1, headCount |-> Len(HeadFile.content), deletesDirective |-> FALSE]
<1>1. s \in 1..Len(head) /\ e \in 1..Len(head) /\ s <= e /\ Len(head) \in Nat
  BY SpansOfTheHead, HeadLines
<1>2. Len(HeadFile.content) = Len(head) /\ HeadFile.endsByIndentation = endsByIndentation
  BY HeadIsItsText
<1>3. TouchesSpan(all, s, e, endsByIndentation)
  BY <1>1, <1>2 DEF TouchesSpan
<1>4. CheckedChange # ChangedBy({all})
  <2>1. ASSUME CheckedChange = ChangedBy({all}) PROVE FALSE
    <3>1. all \in CheckedChange.hunks
      BY <2>1 DEF ChangedBy
    <3> HIDE DEF all
    <3> QED  BY <1>2, <1>3, <3>1 DEF CheckedFunctions, Covers
  <2> QED  BY <2>1
<1>5. ~Change.whole
  BY DEF Change, ChangedBy
<1>6. CheckedChange = Change
  BY <1>4 DEF CheckedChange, Expanded
<1>7. \A h \in Change.hunks : ~TouchesSpan(h, s, e, endsByIndentation)
  BY <1>2, <1>6 DEF CheckedFunctions, Covers
<1>8. ~ \E h \in Change.hunks :
          h.deletesDirective \/ \E span \in AttachmentSpans(HeadFile) :
            TouchesSpan(h, span.startLine,
                        IF h.headCount > 0 /\ span.endsAtFunction THEN span.endLine - 1 ELSE span.endLine, FALSE)
  BY <1>4, <1>5 DEF CheckedChange, Expanded
<1> QED  BY <1>7, <1>8

LEMMA UncheckedIsCopied ==
  ASSUME FileInv, Parses, NEW f \in DOMAIN HeadFile.functions,
         f \notin CheckedFunctions(HeadFile, CheckedChange)
  PROVE  AreCopied(HeadFile.functions[f].startLine, HeadFile.functions[f].endLine)
<1> DEFINE s == HeadFile.functions[f].startLine
           e == HeadFile.functions[f].endLine
<1>1. /\ s \in 1..Len(head) /\ e \in 1..Len(head) /\ s <= e /\ Len(head) \in Nat /\ head[s].text.code
      /\ FileTyped
  BY SpansOfTheHead, HeadLines DEF FileInv
<1>2. \A h \in Change.hunks : ~TouchesSpan(h, s, e, endsByIndentation)
  BY <1>1, UncheckedIsUntouched
<1>3. ~IsPassedByAnchoring(head[s].text)
  BY <1>1 DEF IsPassedByAnchoring
<1> HIDE DEF s, e
<1>4. \A h \in Change.hunks : h.headStart \in Nat /\ h.headCount \in Nat
  BY <1>1, HunksAreTyped DEF ChangeType, HunkType
<1>5. \A h \in Change.hunks : ~Disturbs(h, s, e)
  BY <1>1, <1>2, <1>4 DEF Disturbs, TouchesSpan
<1>6. Kept(e) > 0
  BY <1>1, <1>2, UntouchedLineIsKept
<1> QED  BY <1>1, <1>3, <1>5, <1>6, UndisturbedLinesAreCopied DEF s, e

-----------------------------------------------------------------------------
(* Where the function ends in the base file, its lines being those of head. *)
LEMMA EndInTheBase ==
  ASSUME FileInv, Parses, NEW f \in DOMAIN HeadFile.functions,
         AreCopied(HeadFile.functions[f].startLine, HeadFile.functions[f].endLine)
  PROVE  LET s == HeadFile.functions[f].startLine
             e == HeadFile.functions[f].endLine
             end == BodyEnd(baseLines, Kept(s))
         IN /\ Kept(s) \in CodeOf(baseLines) /\ end \in Nat /\ end >= Kept(s) + (e - s)
            /\ end > Kept(s) + (e - s) =>
                 /\ endsByIndentation /\ ~head[s].text.oneLine /\ end \in CodeOf(baseLines)
                 /\ \A c \in CodeOf(baseLines) :
                      Kept(s) + (e - s) < c /\ c <= end => baseLines[c].depth > head[s].text.depth
<1> DEFINE s == HeadFile.functions[f].startLine
           e == HeadFile.functions[f].endLine
           start == Kept(s)
           end == BodyEnd(baseLines, start)
           copy == start + (e - s)
<1> SUFFICES /\ start \in CodeOf(baseLines) /\ end \in Nat /\ end >= copy
             /\ end > copy =>
                  /\ endsByIndentation /\ ~head[s].text.oneLine /\ end \in CodeOf(baseLines)
                  /\ \A c \in CodeOf(baseLines) : copy < c /\ c <= end => baseLines[c].depth > head[s].text.depth
  OBVIOUS
<1>1. /\ s \in 1..Len(head) /\ e \in 1..Len(head) /\ s <= e /\ Len(head) \in Nat /\ head[s].text.code
      /\ FileTyped /\ Len(baseLines) \in Nat /\ s \in CodeOf(HeadText) /\ IsBodyEnd(HeadText, s, e)
      /\ \A c \in 1..Len(baseLines) : baseLines[c] \in LineType
      /\ baseLines \in Seq(LineType)
  BY SpansOfTheHead, HeadLines DEF FileInv, FileTyped
<1>2. /\ HeadText \in Seq(LineType) /\ Len(HeadText) = Len(head)
      /\ \A l \in 1..Len(head) : HeadText[l] = head[l].text
      /\ CodeOf(HeadText) = {l \in 1..Len(head) : head[l].text.code}
      /\ HeadFile.content = HeadText
  BY <1>1, HeadIsItsText
<1>3. CodeOf(baseLines) = {c \in 1..Len(baseLines) : baseLines[c].code}
  BY <1>1 DEF CodeOf
<1>4. /\ start \in 1..Len(baseLines) /\ copy \in 1..Len(baseLines)
      /\ \A l \in s..e : start + (l - s) \in 1..Len(baseLines) /\ baseLines[start + (l - s)] = head[l].text
  BY <1>1, CopiesAreEqual
<1> HIDE DEF s, e
<1> HIDE DEF start, copy
<1>5. \A c \in start..copy : /\ s + (c - start) \in s..e /\ c \in 1..Len(baseLines)
                             /\ baseLines[c] = head[s + (c - start)].text
  <2> SUFFICES ASSUME NEW c \in start..copy
               PROVE  /\ s + (c - start) \in s..e /\ c \in 1..Len(baseLines)
                      /\ baseLines[c] = head[s + (c - start)].text
    OBVIOUS
  <2>1. start \in Int /\ s \in Int /\ e \in Int /\ copy = start + (e - s) /\ c \in Int
    BY <1>1, <1>4 DEF copy
  <2> DEFINE l == s + (c - start)
  <2>2. l \in s..e /\ start + (l - s) = c
    BY <2>1
  <2> HIDE DEF l
  <2> QED  BY <1>4, <2>2 DEF l
<1>6. start \in start..copy /\ copy \in start..copy /\ s + (start - start) = s /\ s + (copy - start) = e
  BY <1>1, <1>4 DEF copy
<1>7. start \in CodeOf(baseLines) /\ baseLines[start] = head[s].text
  BY <1>1, <1>3, <1>5, <1>6
<1>8. IsBodyEnd(baseLines, start, end)
  BY <1>1, <1>7, BodyEndsThere DEF end
<1> HIDE DEF end
<1>9. HeadText[s] = head[s].text /\ baseLines[start].depth = head[s].text.depth
      /\ head[s].text.depth \in Nat /\ \A c \in 1..Len(baseLines) : baseLines[c].depth \in Nat
  <2>1. HeadText[s] = head[s].text /\ baseLines[start] = head[s].text
    BY <1>1, <1>2, <1>7
  <2>2. \A c \in 1..Len(baseLines) : baseLines[c].depth \in Nat
    BY <1>1 DEF LineType
  <2> QED  BY <1>4, <2>1, <2>2
<1>10. CASE head[s].text.oneLine
  <2>1. e = s /\ end = start
    BY <1>1, <1>7, <1>8, <1>9, <1>10 DEF IsBodyEnd
  <2>2. start \in Int /\ copy = start
    <3>1. s \in Int /\ start \in Int
      BY <1>1, <1>4
    <3> QED  BY <2>1, <3>1 DEF copy
  <2> QED  BY <1>4, <1>7, <2>1, <2>2
<1>11. ASSUME ~head[s].text.oneLine, NEW c \in CodeOf(baseLines), start < c, c < copy
       PROVE  baseLines[c].depth > head[s].text.depth
  <2> DEFINE l == s + (c - start)
  <2>1. c \in start..copy
    BY <1>3, <1>4, <1>11
  <2>2. l \in s..e /\ baseLines[c] = head[l].text
    BY <1>5, <2>1
  <2>3. s < l /\ l < e /\ l \in 1..Len(head)
    <3>1. c \in Int /\ start \in Int /\ s \in Int /\ e \in Int
      BY <1>1, <1>4, <2>1
    <3>2. c < start + (e - s)
      BY <1>11 DEF copy
    <3>3. s < l /\ l < e
      BY <1>11, <3>1, <3>2
    <3> QED  BY <1>1, <3>3, <2>2
  <2> HIDE DEF l
  <2>4. l \in CodeOf(HeadText)
    BY <1>2, <1>3, <2>2, <2>3
  <2>5. HeadText[l].depth > HeadText[s].depth
    BY <1>1, <1>9, <1>11, <2>3, <2>4 DEF IsBodyEnd
  <2> QED  BY <1>2, <1>9, <2>2, <2>3, <2>5
<1>12. CASE ~head[s].text.oneLine /\ ~endsByIndentation
  <2>1. WellFormed(HeadText) /\ Opens(HeadText, s) /\ e = BodyEnd(HeadText, s)
    <3>1. WellFormed(HeadText)
      BY <1>2 DEF Parses
    <3>2. HeadText[s].opens > 0 /\ e = BodyEnd(HeadText, s)
      BY <1>1, <1>2, SpansOfTheHead DEF s, e
    <3> QED  BY <1>9, <1>12, <3>1, <3>2 DEF Opens
  <2>2. e \in CodeOf(HeadText) /\ HeadText[e].depth = HeadText[s].depth
    BY <1>1, <1>12, <2>1 DEF WellFormed
  <2>3. copy \in CodeOf(baseLines) /\ baseLines[copy].depth = head[s].text.depth
    <3>1. baseLines[copy] = head[e].text /\ head[e].text.code /\ HeadText[e] = head[e].text
      BY <1>1, <1>2, <1>5, <1>6, <2>2
    <3> QED  BY <1>3, <1>4, <1>9, <2>2, <3>1
  <2>4. start < copy
    BY <1>1, <1>4, <1>9, <1>12 DEF IsBodyEnd, copy
  <2>5. IsBodyEnd(baseLines, start, copy)
    BY <1>4, <1>7, <1>9, <1>11, <1>12, <2>3, <2>4 DEF IsBodyEnd
  <2>6. end = copy
    BY <1>1, <1>7, <1>8, <1>12, <2>5, OneBodyEnd
  <2> QED  BY <1>4, <1>7, <2>6
<1>13. CASE ~head[s].text.oneLine /\ endsByIndentation
  <2>1. end \in CodeOf(baseLines) /\ end \in Nat /\ start <= end
    BY <1>7, <1>8, <1>13 DEF IsBodyEnd
  <2>2. e \in CodeOf(HeadText) /\ (e = s \/ HeadText[e].depth > HeadText[s].depth)
    BY <1>1, <1>9, <1>13 DEF IsBodyEnd
  <2>3. baseLines[copy] = head[e].text /\ HeadText[e] = head[e].text /\ head[e].text.code
    BY <1>1, <1>2, <1>5, <1>6, <2>2
  <2>4. copy \in CodeOf(baseLines) /\ (copy = start \/ baseLines[copy].depth > head[s].text.depth)
    <3>1. e = s => copy = start
      BY <1>1, <1>4 DEF copy
    <3> QED  BY <1>3, <1>4, <1>9, <2>2, <2>3, <3>1
  <2>5. ASSUME end < copy PROVE FALSE
    <3>1. PICK d \in CodeOf(baseLines) : end < d /\ d <= copy /\ baseLines[d].depth <= baseLines[start].depth
      BY <1>7, <1>8, <1>13, <2>4, <2>5 DEF IsBodyEnd
    <3>2. d \in Nat /\ copy \in Nat /\ start \in Nat
      BY <1>3, <1>4, <3>1
    <3>3. CASE d = copy
      BY <1>4, <1>9, <2>1, <2>4, <3>1, <3>2, <3>3
    <3>4. CASE d < copy
      BY <1>3, <1>9, <1>11, <1>13, <2>1, <3>1, <3>2, <3>4
    <3> QED  BY <3>1, <3>2, <3>3, <3>4
  <2>6. ASSUME NEW c \in CodeOf(baseLines), copy < c, c <= end
        PROVE  baseLines[c].depth > head[s].text.depth
    <3>1. c \in Nat /\ start <= copy
      BY <1>1, <1>3, <1>4 DEF copy
    <3>2. CASE c = end
      BY <1>4, <1>7, <1>8, <1>9, <1>13, <2>6, <3>1, <3>2 DEF IsBodyEnd
    <3>3. CASE c < end
      BY <1>4, <1>7, <1>8, <1>9, <1>13, <2>6, <3>1, <3>3 DEF IsBodyEnd
    <3> QED  BY <2>1, <2>6, <3>1, <3>2, <3>3
  <2>7. end >= copy
    BY <1>4, <2>1, <2>5
  <2> QED  BY <1>7, <1>13, <2>1, <2>6, <2>7
<1> QED  BY <1>10, <1>12, <1>13

-----------------------------------------------------------------------------
(* The function a directive finds on a line is the first one there, which  *)
(* is the outermost one.                                                   *)
LEMMA FirstFunctionOfALine ==
  ASSUME NEW lines \in Seq(LineType), NEW l
  PROVE  LET file == Measured(lines)
             f == FunctionAt(file, l)
         IN /\ f # NoFunction =>
                 /\ f \in DOMAIN file.functions /\ file.functions[f].startLine = l
                 /\ \A g \in DOMAIN file.functions :
                      file.functions[g].startLine = l => file.functions[f].startColumn <= file.functions[g].startColumn
            /\ f = NoFunction => \A g \in DOMAIN file.functions : file.functions[g].startLine # l
<1> DEFINE file == Measured(lines)
           fn == file.functions
           starting == {g \in DOMAIN fn : fn[g].startLine = l}
           outermost == {g \in starting : \A h \in starting : fn[g].startColumn <= fn[h].startColumn}
           columns == {fn[g].startColumn : g \in starting}
<1>1. /\ \E n \in Nat : DOMAIN fn = 1..n
      /\ \A g \in DOMAIN fn : fn[g].startColumn \in {1, 2}
  <2> HIDE DEF fn
  <2>1. fn = Measured(lines).functions
    BY DEF fn
  <2> QED  BY <2>1, FunctionsArePlaces, PlacesHaveFunctions
<1> HIDE DEF fn
<1>2. CASE starting = {}
  <2>1. FunctionAt(file, l) = NoFunction
    BY <1>2 DEF FunctionAt, fn
  <2> QED  BY <1>2, <2>1 DEF fn
<1>3. CASE starting # {}
  <2>1. columns \subseteq Nat /\ columns # {}
    <3>1. \A g \in starting : fn[g].startColumn \in Nat
      BY <1>1
    <3> HIDE DEF starting
    <3> QED  BY <1>3, <3>1
  <2>2. Min(columns) \in columns /\ \A c \in columns : Min(columns) <= c
    <3> HIDE DEF columns
    <3> QED  BY <2>1, MinIsLeast
  <2>3. outermost # {} /\ outermost \subseteq Nat
    <3>1. PICK g \in starting : Min(columns) = fn[g].startColumn
      BY <2>2
    <3>2. g \in outermost
      BY <2>2, <3>1
    <3> QED  BY <1>1, <3>2
  <2>4. Min(outermost) \in outermost
    <3> HIDE DEF outermost
    <3> QED  BY <2>3, MinIsLeast
  <2>5. FunctionAt(file, l) = Min(outermost)
    BY <1>3 DEF FunctionAt, fn
  <2>6. Min(outermost) # NoFunction
    BY <1>1, <2>4 DEF NoFunction
  <2> QED  BY <2>4, <2>5, <2>6 DEF fn
<1> QED  BY <1>2, <1>3

-----------------------------------------------------------------------------
(* The span of a directive starts at its line.                             *)
LEMMA SpansOfDirectives ==
  ASSUME FileTyped, NEW k \in 1..Len(head), ~head[k].text.code, IsDirectiveLine(head[k].text)
  PROVE  LET span == AttachmentSpan(HeadFile, k)
         IN /\ span \in AttachmentSpans(HeadFile) /\ span.startLine = k
            /\ span.endLine \in Nat /\ k <= span.endLine
<1> DEFINE span == AttachmentSpan(HeadFile, k)
           file == HeadFile
           target == TargetOf(file, k)
           after == {l \in CodeLines(file) : l > k} \cup {EndOfFile(file)}
<1>1. /\ HeadText \in Seq(LineType) /\ Len(HeadText) = Len(head) /\ Len(head) \in Nat
      /\ HeadFile = Measured(HeadText) /\ HeadFile.content = HeadText
      /\ \A l \in 1..Len(head) : HeadText[l] = head[l].text
      /\ DOMAIN HeadText = 1..Len(head)
  BY HeadIsItsText
<1>2. k \in DirectiveLines(file) /\ span \in AttachmentSpans(file)
  BY <1>1 DEF DirectiveLines, AttachmentSpans
<1>3. Following(file, k) \in after
  <2>1. after \subseteq Nat /\ after # {}
    BY <1>1 DEF CodeLines, EndOfFile
  <2> HIDE DEF after
  <2> QED  BY <2>1, MinIsLeast DEF Following, after
<1>4. Following(file, k) \in Nat /\ k < Following(file, k) /\ EndOfFile(file) \in Nat /\ k < EndOfFile(file)
  BY <1>1, <1>3 DEF CodeLines, EndOfFile
<1>5. NextLine(file, k) \in Nat /\ k < NextLine(file, k)
  BY <1>4 DEF NextLine
<1>6. target # NoFunction =>
        target \in DOMAIN file.functions /\ file.functions[target].startLine = NextLine(file, k)
  <2>1. target = FunctionAt(file, NextLine(file, k)) /\ file = Measured(HeadText)
    BY <1>1 DEF TargetOf
  <2> DEFINE line == NextLine(file, k)
  <2> HIDE DEF file, target, line
  <2>2. target = FunctionAt(Measured(HeadText), line)
    BY <2>1 DEF line
  <2>3. target # NoFunction =>
          target \in DOMAIN Measured(HeadText).functions /\ Measured(HeadText).functions[target].startLine = line
    BY <1>1, <2>2, FirstFunctionOfALine
  <2> QED  BY <2>1, <2>3 DEF line
<1>7. span.startLine = k
  BY DEF AttachmentSpan
<1>8. span.endLine \in {k, Len(HeadText), Following(file, k)} \cup
        (IF target # NoFunction THEN {file.functions[target].startLine} ELSE {})
  BY <1>1 DEF AttachmentSpan
<1>9. span.endLine \in Nat /\ k <= span.endLine
  BY <1>1, <1>4, <1>5, <1>6, <1>8
<1> QED  BY <1>2, <1>7, <1>9

-----------------------------------------------------------------------------
(* The kept line of code below a function. *)
LEMMA KeptBelowIs ==
  ASSUME FileTyped, Parses, NEW f \in DOMAIN HeadFile.functions
  PROVE  LET e == HeadFile.functions[f].endLine
             below == KeptBelow(f)
         IN /\ below \in KeptLines /\ below \in (e + 1)..(Len(head) + 1)
            /\ (below <= Len(head) => head[below].text.code)
            /\ \A l \in (e + 1)..(below - 1) : l \in KeptLines => l \in 1..Len(head) /\ ~head[l].text.code
<1> DEFINE e == HeadFile.functions[f].endLine
           S == {l \in KeptLines : l > e /\ (l > Len(head) \/ head[l].text.code)}
           below == Min(S)
<1>1. e \in 1..Len(head) /\ Len(head) \in Nat
  BY SpansOfTheHead, HeadLines
<1>2. KeptLines \subseteq 0..(Len(head) + 1) /\ Len(head) + 1 \in KeptLines
  BY LinesBetweenKeptOnes
<1>3. KeptBelow(f) = below
  BY DEF KeptBelow
<1> HIDE DEF e
<1>4. S \subseteq Nat /\ S # {}
  <2>1. Len(head) + 1 \in S /\ S \subseteq KeptLines
    BY <1>1, <1>2
  <2> HIDE DEF S
  <2> QED  BY <1>1, <1>2, <2>1
<1>5. below \in S /\ \A l \in S : below <= l
  <2> HIDE DEF S
  <2> QED  BY <1>4, MinIsLeast
<1> HIDE DEF below
<1>6. below \in KeptLines /\ below \in (e + 1)..(Len(head) + 1) /\ (below <= Len(head) => head[below].text.code)
  BY <1>1, <1>2, <1>5
<1>7. ASSUME NEW l \in (e + 1)..(below - 1), l \in KeptLines PROVE l \in 1..Len(head) /\ ~head[l].text.code
  <2>1. l \in 1..Len(head) /\ l > e /\ l < below
    BY <1>1, <1>6
  <2>2. l \notin S
    BY <1>5, <1>6, <2>1
  <2> QED  BY <1>7, <2>1, <2>2
<1> QED  BY <1>3, <1>6, <1>7 DEF e

(* Code of the base file that is deleted between two kept lines of comments *)
(* is deleted right below one of the lines between them.                    *)
LEMMA DeletionIsSomewhere ==
  ASSUME FileInv, NEW e \in 1..Len(head), NEW below \in (e + 1)..(Len(head) + 1),
         \A l \in e..below : l \in KeptLines,
         \A l \in (e + 1)..(below - 1) : ~head[l].text.code,
         NEW b \in CodeOf(baseLines), OriginOf(e) < b, b < OriginOf(below)
  PROVE  \E p \in e..(below - 1) : OriginOf(p) < b /\ b < OriginOf(p + 1)
<1>1. /\ FileTyped /\ Len(head) \in Nat /\ Len(baseLines) \in Nat
      /\ \A l \in 1..Len(head) : Kept(l) \in Nat
      /\ CodeOf(baseLines) = {c \in 1..Len(baseLines) : baseLines[c].code}
  BY HeadLines DEF FileInv, CodeOf
<1> DEFINE S == {l \in e..(below - 1) : OriginOf(l) < b}
           p == Max(S)
<1>2. S \subseteq 0..Len(head) /\ S # {}
  <2>1. S \subseteq 0..Len(head)
    BY <1>1
  <2>2. e \in e..(below - 1)
    BY <1>1
  <2>3. e \in S
    BY <2>2
  <2> QED  BY <2>1, <2>3
<1>3. p \in S /\ \A l \in S : l <= p
  <2> HIDE DEF S
  <2> QED  BY <1>1, <1>2, MaxIsGreatest
<1> HIDE DEF p
<1>4. p \in e..(below - 1) /\ OriginOf(p) < b /\ p + 1 \in 1..(Len(head) + 1)
  BY <1>1, <1>3
<1>5. CASE p + 1 = below
  BY <1>4, <1>5
<1>6. CASE p + 1 # below
  <2>1. p + 1 \in (e + 1)..(below - 1) /\ p + 1 \in 1..Len(head) /\ p + 1 \in e..(below - 1)
    BY <1>1, <1>4, <1>6
  <2>2. p + 1 \notin S
    BY <1>3, <2>1
  <2>3. ~(OriginOf(p + 1) < b)
    BY <2>1, <2>2
  <2>4. OriginOf(p + 1) = Kept(p + 1) /\ Kept(p + 1) \in Nat /\ Kept(p + 1) > 0
    BY <1>1, <2>1, LinesBetweenKeptOnes DEF OriginOf
  <2>5. head[p + 1].text = baseLines[Kept(p + 1)]
    BY <1>1, <2>1, <2>4, HeadLines DEF FileInv, KeptInOrder
  <2>6. OriginOf(p + 1) # b
    BY <1>1, <2>1, <2>4, <2>5
  <2> QED  BY <1>1, <1>4, <2>3, <2>4, <2>6
<1> QED  BY <1>5, <1>6

LEMMA LostTailIsExcused ==
  ASSUME FileInv, Parses, NEW f \in DOMAIN HeadFile.functions,
         f \notin CheckedFunctions(HeadFile, CheckedChange),
         LET s == HeadFile.functions[f].startLine
         IN BodyEnd(baseLines, Kept(s)) > Kept(s) + (HeadFile.functions[f].endLine - s)
  PROVE  endsByIndentation /\ (TailIsReplaced(f) \/ TailHangsBelowADirective(f))
<1> DEFINE s == HeadFile.functions[f].startLine
           e == HeadFile.functions[f].endLine
           b == BodyEnd(baseLines, Kept(s))
           below == KeptBelow(f)
<1>1. /\ FileTyped /\ s \in 1..Len(head) /\ e \in 1..Len(head) /\ s <= e /\ Len(head) \in Nat
      /\ Len(baseLines) \in Nat /\ s \in CodeOf(HeadText) /\ IsBodyEnd(HeadText, s, e)
      /\ \A l \in 1..Len(head) : Kept(l) \in Nat /\ head[l].text \in LineType
      /\ CodeOf(baseLines) = {c \in 1..Len(baseLines) : baseLines[c].code}
  BY SpansOfTheHead, HeadLines DEF FileInv, CodeOf
<1>2. /\ \A l \in 1..Len(head) : HeadText[l] = head[l].text
      /\ CodeOf(HeadText) = {l \in 1..Len(head) : head[l].text.code}
  BY <1>1, HeadIsItsText
<1>3. AreCopied(s, e)
  BY UncheckedIsCopied
<1>4. Kept(e) = Kept(s) + (e - s) /\ Kept(e) > 0 /\ Kept(s) > 0
  <2> HIDE DEF s, e
  <2>1. s \in s..e /\ e \in s..e
    BY <1>1
  <2> QED  BY <1>3, <2>1 DEF AreCopied
<1>5. /\ b > Kept(e) /\ endsByIndentation /\ ~head[s].text.oneLine /\ b \in CodeOf(baseLines)
      /\ \A c \in CodeOf(baseLines) : Kept(e) < c /\ c <= b => baseLines[c].depth > head[s].text.depth
  BY <1>3, <1>4, EndInTheBase
<1>6. /\ below \in KeptLines /\ below \in (e + 1)..(Len(head) + 1)
      /\ (below <= Len(head) => head[below].text.code)
      /\ \A l \in (e + 1)..(below - 1) : l \in KeptLines => l \in 1..Len(head) /\ ~head[l].text.code
  BY <1>1, KeptBelowIs
<1>7. \A h \in Change.hunks : /\ ~TouchesSpan(h, s, e, endsByIndentation)
                              /\ \A span \in AttachmentSpans(HeadFile) :
                                   ~TouchesSpan(h, span.startLine,
                                      IF h.headCount > 0 /\ span.endsAtFunction THEN span.endLine - 1
                                      ELSE span.endLine, FALSE)
  BY <1>1, UncheckedIsUntouched
<1>8. TailIsReplaced(f) <=>
        /\ \E l \in (e + 1)..(below - 1) : Kept(l) = 0
        /\ \/ DeletesCode(Max({l \in KeptLines : l <= e}), below)
           \/ below <= Len(head) /\ head[below].text.depth > head[s].text.depth
  BY DEF TailIsReplaced
<1>9. TailHangsBelowADirective(f) <=>
        \E l \in (e + 1)..(below - 1) :
          /\ IsDirectiveLine(head[l].text) /\ AttachmentSpan(HeadFile, l).endLine = l
          /\ DeletesCode(l, below)
  BY DEF TailHangsBelowADirective
<1>10. head[e].text.code /\ IsBodyEnd(HeadText, s, e) /\ ~HeadText[s].oneLine
  BY <1>1, <1>2, <1>5 DEF IsBodyEnd
<1> HIDE DEF s, e, b, below
<1>11. OriginOf(e) = Kept(e) /\ e \in KeptLines
  BY <1>1, <1>4, LinesBetweenKeptOnes DEF OriginOf
<1>12. CASE b >= OriginOf(below)
  <2>1. below \in 1..Len(head)
    <3>1. OriginOf(Len(head) + 1) = Len(baseLines) + 1
      BY <1>1 DEF OriginOf
    <3>2. below # Len(head) + 1
      BY <1>1, <1>5, <1>12, <3>1
    <3>3. below \in (e + 1)..(Len(head) + 1)
      BY <1>6
    <3>4. e \in Nat /\ Len(head) \in Nat
      BY <1>1
    <3> QED  BY <3>2, <3>3, <3>4
  <2>2. OriginOf(below) = Kept(below) /\ Kept(below) > 0 /\ Kept(below) \in Nat
    BY <1>1, <1>6, <2>1, LinesBetweenKeptOnes DEF OriginOf
  <2>3. /\ head[below].text = baseLines[Kept(below)] /\ Kept(below) <= Len(baseLines)
        /\ Kept(e) < Kept(below)
    <3>1. KeptInOrder /\ DOMAIN head = 1..Len(head)
      BY <1>1, HeadLines DEF FileInv
    <3>2. e < below
      BY <1>1, <1>6, <2>1
    <3> QED  BY <1>1, <1>4, <2>1, <2>2, <3>1, <3>2 DEF KeptInOrder
  <2>4. head[below].text.depth > head[s].text.depth
    <3>1. Kept(below) \in CodeOf(baseLines)
      BY <1>1, <1>6, <2>1, <2>2, <2>3
    <3> QED  BY <1>5, <1>12, <2>2, <2>3, <3>1
  <2>5. PICK d \in CodeOf(HeadText) : e < d /\ d <= below /\ HeadText[d].depth <= HeadText[s].depth
    <3>1. below \in CodeOf(HeadText) /\ below > e
      BY <1>1, <1>2, <1>6, <2>1
    <3> QED  BY <1>5, <1>10, <3>1 DEF IsBodyEnd
  <2>6. head[s].text.depth \in Nat /\ head[below].text.depth \in Nat
    BY <1>1, <2>1 DEF LineType
  <2>7. d # below /\ d \in 1..Len(head) /\ head[d].text.code
    <3>1. d \in 1..Len(head) /\ head[d].text.code
      BY <1>2
    <3>2. HeadText[s] = head[s].text /\ HeadText[below] = head[below].text
      BY <1>1, <1>2, <2>1
    <3>3. d # below
      BY <2>4, <2>5, <2>6, <3>2
    <3> QED  BY <3>1, <3>3
  <2>8. d \in (e + 1)..(below - 1) /\ d \notin KeptLines
    BY <1>1, <1>6, <2>1, <2>5, <2>7
  <2>9. Kept(d) = 0
    BY <1>1, <2>7, <2>8, LinesBetweenKeptOnes
  <2> QED  BY <1>5, <1>8, <2>1, <2>4, <2>8, <2>9
<1>13. CASE b < OriginOf(below)
  <2>1. b \in (OriginOf(e) + 1)..(OriginOf(below) - 1)
    <3>1. OriginOf(below) \in Nat
      BY <1>1, <1>6 DEF OriginOf
    <3> QED  BY <1>1, <1>5, <1>11, <1>13, <3>1
  <2>2. DeletesCode(e, below)
    BY <1>1, <1>5, <2>1 DEF DeletesCode
  <2>3. CASE \E l \in (e + 1)..(below - 1) : l \notin KeptLines
    <3>1. PICK l \in (e + 1)..(below - 1) : l \notin KeptLines
      BY <2>3
    <3>2. l \in 1..Len(head)
      BY <1>1, <1>6
    <3>3. Kept(l) = 0
      BY <1>1, <3>1, <3>2, LinesBetweenKeptOnes
    <3>4. Max({k \in KeptLines : k <= e}) = e
      <4> DEFINE S == {k \in KeptLines : k <= e}
      <4>1. S \subseteq 0..(Len(head) + 1) /\ e \in S /\ Len(head) + 1 \in Nat
        BY <1>1, <1>11, LinesBetweenKeptOnes
      <4>2. \A k \in S : k <= e
        OBVIOUS
      <4> HIDE DEF S
      <4>3. Max(S) \in S /\ e <= Max(S)
        BY <4>1, MaxIsGreatest
      <4> DEFINE m == Max(S)
      <4> HIDE DEF m
      <4>4. m \in S /\ e <= m
        BY <4>3 DEF m
      <4>5. Max(S) = e
        <5>1. m \in Nat /\ m <= e
          BY <1>1, <4>1, <4>2, <4>4
        <5>2. m = e
          BY <1>1, <4>4, <5>1
        <5> QED  BY <5>2 DEF m
      <4> QED  BY <4>5 DEF S
    <3> QED  BY <1>5, <1>8, <2>2, <3>3, <3>4
  <2>4. CASE \A l \in (e + 1)..(below - 1) : l \in KeptLines
    <3>1. \A l \in e..below : l \in KeptLines
      BY <1>1, <1>6, <1>11, <2>4
    <3>2. \A l \in (e + 1)..(below - 1) : ~head[l].text.code
      BY <1>6, <2>4
    <3>3. PICK p \in e..(below - 1) : OriginOf(p) < b /\ b < OriginOf(p + 1)
      BY <1>1, <1>5, <1>6, <1>11, <1>13, <3>1, <3>2, DeletionIsSomewhere
    <3>4. /\ p \in 1..Len(head) /\ p + 1 \in 1..(Len(head) + 1) /\ p \in e..below /\ p + 1 \in e..below
          /\ OriginOf(p) \in Nat /\ OriginOf(p + 1) \in Nat
      BY <1>1, <1>6 DEF OriginOf
    <3>5. p \in KeptLines /\ p + 1 \in KeptLines /\ AreNeighbours(p, p + 1)
      <4>1. p \in KeptLines /\ p + 1 \in KeptLines /\ (p + 1) - 1 = p
        BY <3>1, <3>4
      <4>2. AreNeighbours((p + 1) - 1, p + 1)
        BY <1>1, <3>4, <4>1, LinesBetweenKeptOnes
      <4> QED  BY <4>1, <4>2
    <3> DEFINE h == HunkBetween(p, p + 1)
               a == AnchoredToCode(h)
               k == a.headStart
    <3>6. a \in Change.hunks /\ h.headStart = p /\ h.headCount = 0 /\ h \in HunkType
      <4>1. OriginOf(p + 1) > OriginOf(p) + 1
        BY <1>1, <1>5, <3>3, <3>4
      <4>2. a \in Change.hunks /\ h = [headStart |-> IF p + 1 = p + 1 THEN p ELSE p + 1, headCount |-> (p + 1) - p - 1,
                                       deletesDirective |-> DeletesDirective(p, p + 1)]
        BY <1>1, <3>5, <4>1, HunksOfTheChange
      <4>3. DeletesDirective(p, p + 1) \in BOOLEAN
        BY DEF DeletesDirective
      <4> QED  BY <3>4, <4>2, <4>3 DEF HunkType
    <3> HIDE DEF h
    <3>7. /\ a.headCount = 0 /\ k \in 0..p /\ e <= k
          /\ (k = 0 \/ ~IsPassedByAnchoring(head[k].text))
      <4>1. e \in 1..h.headStart /\ ~IsPassedByAnchoring(head[e].text)
        BY <1>1, <1>10, <3>3, <3>4, <3>6 DEF IsPassedByAnchoring
      <4>2. /\ a.headCount = 0 /\ a.headStart \in 0..h.headStart
            /\ \A l \in 1..h.headStart : ~IsPassedByAnchoring(head[l].text) \/ ~endsByIndentation => l <= a.headStart
            /\ endsByIndentation => a.headStart = 0 \/ ~IsPassedByAnchoring(head[a.headStart].text)
        BY <1>1, <3>6, AnchorOfADeletion
      <4> QED  BY <1>5, <3>6, <4>1, <4>2
    <3> HIDE DEF a, k
    <3>8. k # e
      <4>1. TouchesSpan(a, s, e, endsByIndentation) \/ k # e
        BY <1>1, <1>5, <3>7 DEF TouchesSpan, k
      <4> QED  BY <1>7, <3>6, <4>1
    <3>9. k \in (e + 1)..(below - 1) /\ k \in 1..Len(head) /\ k <= p
      BY <1>1, <1>6, <3>4, <3>7, <3>8
    <3>10. ~head[k].text.code /\ IsDirectiveLine(head[k].text)
      BY <3>2, <3>7, <3>9 DEF IsPassedByAnchoring
    <3>11. AttachmentSpan(HeadFile, k).endLine = k
      <4> DEFINE span == AttachmentSpan(HeadFile, k)
      <4>1. span \in AttachmentSpans(HeadFile) /\ span.startLine = k /\ span.endLine \in Nat /\ k <= span.endLine
        BY <1>1, <3>9, <3>10, SpansOfDirectives
      <4> HIDE DEF span
      <4>2. ~TouchesSpan(a, span.startLine, span.endLine, FALSE)
        <5>1. ~TouchesSpan(a, span.startLine,
                           IF a.headCount > 0 /\ span.endsAtFunction THEN span.endLine - 1 ELSE span.endLine, FALSE)
          BY <1>7, <3>6, <4>1
        <5>2. ~(a.headCount > 0)
          BY <3>7
        <5> QED  BY <5>1, <5>2
      <4>3. ~(k < span.endLine)
        BY <3>7, <3>9, <4>1, <4>2 DEF TouchesSpan, k
      <4>4. span.endLine = k
        BY <3>9, <4>1, <4>3
      <4> QED  BY <4>4 DEF span
    <3>12. DeletesCode(k, below)
      <4>1. OriginOf(k) <= OriginOf(p)
        <5>1. k \in KeptLines /\ p \in KeptLines
          BY <2>4, <3>5, <3>9
        <5>2. Kept(k) > 0 /\ Kept(p) > 0 /\ OriginOf(k) = Kept(k) /\ OriginOf(p) = Kept(p)
          BY <1>1, <3>4, <3>9, <5>1, LinesBetweenKeptOnes DEF OriginOf
        <5>3. k = p \/ Kept(k) < Kept(p)
          <6>1. k = p \/ k < p
            BY <3>4, <3>9
          <6> QED  BY <1>1, <3>4, <3>9, <5>2, <6>1, HeadLines DEF FileInv, KeptInOrder
        <5> QED  BY <1>1, <3>4, <3>9, <5>2, <5>3
      <4>2. OriginOf(k) \in Nat /\ OriginOf(below) \in Nat
        BY <1>1, <1>6, <3>9 DEF OriginOf
      <4>3. b \in (OriginOf(k) + 1)..(OriginOf(below) - 1)
        <5>1. OriginOf(p) \in Nat /\ b \in Nat
          BY <1>1, <1>5, <3>4 DEF OriginOf
        <5>2. OriginOf(p) < b /\ b < OriginOf(below)
          BY <1>5, <1>13, <3>3, <4>2, <5>1
        <5> QED  BY <4>1, <4>2, <5>1, <5>2
      <4> QED  BY <1>1, <1>5, <4>3 DEF DeletesCode
    <3> QED  BY <1>5, <1>9, <3>9, <3>10, <3>11, <3>12
  <2> QED  BY <2>3, <2>4
<1>14. OriginOf(below) \in Nat /\ b \in Nat
  BY <1>1, <1>5, <1>6 DEF OriginOf
<1> QED  BY <1>12, <1>13, <1>14

-----------------------------------------------------------------------------
(* As many numbers, all moved by as much. *)
LEMMA MovedNumbers ==
  ASSUME NEW S, IsFiniteSet(S), S \subseteq Int, NEW d \in Int
  PROVE  IsFiniteSet({m + d : m \in S}) /\ Cardinality({m + d : m \in S}) = Cardinality(S)
<1> DEFINE T == {m + d : m \in S}
           g == [m \in S |-> m + d]
<1>1. g \in [S -> T] /\ \A x, y \in S : g[x] = g[y] => x = y
  OBVIOUS
<1>2. \A t \in T : \E m \in S : g[m] = t
  OBVIOUS
<1> HIDE DEF g, T
<1>3. g \in Bijection(S, T)
  BY <1>1, <1>2 DEF Bijection, Injection, Surjection, IsInjective
<1>4. IsFiniteSet(T) /\ Cardinality(T) = Cardinality(S)
  BY <1>3, FS_Bijection DEF ExistsBijection
<1> QED  BY <1>4 DEF T

(* The code of a function's lines that are copied, and of the base lines    *)
(* they are copied from.                                                    *)
LEMMA CodeOfCopies ==
  ASSUME FileInv, NEW s \in 1..Len(head), NEW e \in 1..Len(head), s <= e, AreCopied(s, e)
  PROVE  LET here == {l \in s..e : HeadText[l].code}
             there == {c \in Kept(s)..(Kept(s) + (e - s)) : baseLines[c].code}
             d == Kept(s) - s
         IN /\ d \in Int /\ here \subseteq Int /\ IsFiniteSet(here) /\ there \subseteq Int /\ IsFiniteSet(there)
            /\ there = {l + d : l \in here}
            /\ \A l \in here : baseLines[l + d] = HeadText[l]
            /\ \A l \in here : {c \in there : c <= l + d} = {m + d : m \in {m \in here : m <= l}}
<1> DEFINE start == Kept(s)
           copy == start + (e - s)
           d == start - s
           here == {l \in s..e : HeadText[l].code}
           there == {c \in start..copy : baseLines[c].code}
<1>1. /\ FileTyped /\ Len(head) \in Nat /\ start \in 1..Len(baseLines)
      /\ \A l \in s..e : start + (l - s) \in 1..Len(baseLines) /\ baseLines[start + (l - s)] = head[l].text
      /\ \A l \in 1..Len(head) : HeadText[l] = head[l].text
  BY CopiesAreEqual, HeadIsItsText, HeadLines DEF FileInv
<1>2. start \in Int /\ s \in Int /\ e \in Int /\ d \in Int
  <2>1. Len(baseLines) \in Nat
    BY <1>1, HeadLines
  <2> HIDE DEF start
  <2> QED  BY <1>1, <2>1
<1> HIDE DEF start
<1>3. \A l \in s..e : l + d \in start..copy /\ baseLines[l + d] = HeadText[l]
  <2> SUFFICES ASSUME NEW l \in s..e PROVE l + d \in start..copy /\ baseLines[l + d] = HeadText[l]
    OBVIOUS
  <2>1. l + d = start + (l - s) /\ l \in 1..Len(head) /\ l \in Int
    BY <1>1, <1>2
  <2>2. l + d \in start..copy
    BY <1>2, <2>1
  <2> QED  BY <1>1, <2>1, <2>2
<1>4. \A c \in start..copy : c - d \in s..e /\ (c - d) + d = c
  BY <1>2
<1>5. IsFiniteSet(s..e) /\ IsFiniteSet(start..copy)
  <2>1. copy \in Int
    BY <1>2
  <2> HIDE DEF copy
  <2> QED  BY <1>2, <2>1, FS_Interval
<1>6. here \subseteq Int /\ IsFiniteSet(here) /\ there \subseteq Int /\ IsFiniteSet(there)
  BY <1>2, <1>5, FS_Subset
<1> HIDE DEF copy, d
<1>7. ASSUME NEW c \in there PROVE \E l \in here : l + d = c
  <2>1. c - d \in s..e /\ (c - d) + d = c
    BY <1>4
  <2>2. c - d \in here
    BY <1>3, <2>1
  <2> QED  BY <2>1, <2>2
<1>8. ASSUME NEW l \in here PROVE l + d \in there /\ baseLines[l + d] = HeadText[l]
  BY <1>3
<1> HIDE DEF here, there
<1>9. there = {l + d : l \in here}
  BY <1>7, <1>8
<1>10. ASSUME NEW l \in here
       PROVE  {c \in there : c <= l + d} = {m + d : m \in {m \in here : m <= l}}
  <2>1. \A m \in here : m + d <= l + d <=> m <= l
    BY <1>2, <1>6
  <2> QED  BY <1>9, <2>1
<1> QED  BY <1>2, <1>6, <1>8, <1>9, <1>10 DEF start, copy, here, there, d

LEMMA CopiesHaveTheSameCode ==
  ASSUME FileInv, NEW s \in 1..Len(head), NEW e \in 1..Len(head), s <= e, AreCopied(s, e),
         NEW fn, fn.startLine = s, fn.endLine = e,
         NEW gn, gn.startLine = Kept(s), gn.endLine = Kept(s) + (e - s)
  PROVE  CodeIn(HeadText, fn) = CodeIn(baseLines, gn)
<1> DEFINE here == {l \in s..e : HeadText[l].code}
           there == {c \in Kept(s)..(Kept(s) + (e - s)) : baseLines[c].code}
           d == Kept(s) - s
           before(l) == {m \in here : m <= l}
           above(c) == {b \in there : b <= c}
<1>1. /\ d \in Int /\ here \subseteq Int /\ IsFiniteSet(here)
      /\ there = {l + d : l \in here}
      /\ \A l \in here : baseLines[l + d] = HeadText[l]
      /\ \A l \in here : above(l + d) = {m + d : m \in before(l)}
  BY CodeOfCopies
<1>2. CodeIn(HeadText, fn) = {<<Cardinality(before(l)), HeadText[l]>> : l \in here}
  BY DEF CodeIn
<1>3. CodeIn(baseLines, gn) = {<<Cardinality(above(c)), baseLines[c]>> : c \in there}
  BY DEF CodeIn
<1> HIDE DEF here, there, d
<1>4. ASSUME NEW l \in here PROVE Cardinality(above(l + d)) = Cardinality(before(l))
  <2>1. IsFiniteSet(before(l)) /\ before(l) \subseteq Int
    BY <1>1, FS_Subset
  <2>2. above(l + d) = {m + d : m \in before(l)}
    BY <1>1
  <2> HIDE DEF before, above
  <2>3. Cardinality({m + d : m \in before(l)}) = Cardinality(before(l))
    BY <1>1, <2>1, MovedNumbers
  <2> QED  BY <2>2, <2>3
<1> HIDE DEF before, above
<1> DEFINE rank(l) == Cardinality(before(l))
           rankThere(c) == Cardinality(above(c))
<1>5. \A l \in here : rankThere(l + d) = rank(l) /\ baseLines[l + d] = HeadText[l]
  BY <1>1, <1>4
<1> HIDE DEF rank, rankThere
<1>6. {<<rankThere(c), baseLines[c]>> : c \in {l + d : l \in here}} = {<<rank(l), HeadText[l]>> : l \in here}
  BY <1>5
<1> QED  BY <1>1, <1>2, <1>3, <1>6 DEF rank, rankThere

LEMMA LongerFunctionDiffers ==
  ASSUME FileInv, NEW s \in 1..Len(head), NEW e \in 1..Len(head), s <= e, AreCopied(s, e),
         NEW fn, fn.startLine = s, fn.endLine = e,
         NEW gn, gn.startLine = Kept(s), gn.endLine \in CodeOf(baseLines), gn.endLine > Kept(s) + (e - s)
  PROVE  CodeIn(HeadText, fn) # CodeIn(baseLines, gn)
<1> DEFINE start == Kept(s)
           copy == start + (e - s)
           end == gn.endLine
           here == {l \in s..e : HeadText[l].code}
           there == {c \in start..copy : baseLines[c].code}
           longer == {c \in start..end : baseLines[c].code}
           d == start - s
<1>1. /\ d \in Int /\ here \subseteq Int /\ IsFiniteSet(here) /\ IsFiniteSet(there)
      /\ there = {l + d : l \in here}
  BY CodeOfCopies
<1>2. /\ start \in 1..Len(baseLines) /\ copy \in 1..Len(baseLines) /\ end \in 1..Len(baseLines)
      /\ Len(baseLines) \in Nat /\ baseLines[end].code /\ copy < end
  BY CopiesAreEqual, HeadLines DEF FileInv, CodeOf
<1> HIDE DEF start, copy, end, d
<1>3. longer \subseteq Int /\ IsFiniteSet(longer) /\ there \subseteq longer /\ end \in longer /\ end \notin there
  <2>1. IsFiniteSet(start..end)
    BY <1>2, FS_Interval
  <2>2. start <= copy
    BY CopiesAreEqual, <1>2 DEF copy, start
  <2> QED  BY <1>2, <2>1, <2>2, FS_Subset
<1>4. \A c \in longer : c <= end
  BY <1>2
<1>5. CodeIn(HeadText, fn) = {<<Cardinality({m \in here : m <= l}), HeadText[l]>> : l \in here}
  BY DEF CodeIn
<1>6. CodeIn(baseLines, gn) = {<<Cardinality({m \in longer : m <= c}), baseLines[c]>> : c \in longer}
  BY DEF CodeIn, start, end
<1> HIDE DEF here, there, longer
<1>7. Cardinality(there) = Cardinality(here) /\ Cardinality(there) < Cardinality(longer)
      /\ Cardinality(longer) \in Nat /\ Cardinality(here) \in Nat
  <2>1. Cardinality({l + d : l \in here}) = Cardinality(here)
    BY <1>1, MovedNumbers
  <2>2. Cardinality(there) <= Cardinality(longer) /\ (Cardinality(longer) = Cardinality(there) => longer = there)
    BY <1>3, FS_Subset
  <2>3. Cardinality(there) \in Nat /\ Cardinality(longer) \in Nat
    BY <1>1, <1>3, FS_CardinalityType
  <2> QED  BY <1>1, <1>3, <2>1, <2>2, <2>3
<1>8. {m \in longer : m <= end} = longer
  BY <1>4
<1>9. <<Cardinality(longer), baseLines[end]>> \in CodeIn(baseLines, gn)
  BY <1>3, <1>6, <1>8
<1>10. ASSUME NEW l \in here, <<Cardinality(longer), baseLines[end]>> = <<Cardinality({m \in here : m <= l}), HeadText[l]>>
       PROVE  FALSE
  <2>1. Cardinality({m \in here : m <= l}) <= Cardinality(here)
    BY <1>1, FS_Subset
  <2>2. Cardinality(longer) = Cardinality({m \in here : m <= l})
    BY <1>10
  <2> QED  BY <1>7, <2>1, <2>2
<1> QED  BY <1>5, <1>9, <1>10

(* The function of the base file that a function left alone was there. *)
LEMMA UncheckedWasThere ==
  ASSUME FileInv, Parses, NEW f \in DOMAIN HeadFile.functions,
         AreCopied(HeadFile.functions[f].startLine, HeadFile.functions[f].endLine)
  PROVE  LET fn == HeadFile.functions[f] IN
         \E g \in BaseOf(f) :
           /\ g \in DOMAIN BaseFile.functions
           /\ BaseFile.functions[g] = FunctionOf(baseLines, Kept(fn.startLine), fn.startColumn)
           /\ BaseOf(f) = {g}
<1> DEFINE fn == HeadFile.functions[f]
           s == fn.startLine
           column == fn.startColumn
<1>1. /\ s \in 1..Len(head) /\ fn.endLine \in 1..Len(head) /\ s <= fn.endLine
      /\ column \in {1, 2} /\ column <= head[s].text.opens /\ head[s].text.opens > 0
      /\ baseLines \in Seq(LineType)
  BY SpansOfTheHead DEF FileInv, FileTyped
<1>2. Kept(s) \in CodeOf(baseLines)
  BY EndInTheBase
<1> HIDE DEF fn
<1>3. baseLines[Kept(s)] = head[s].text
  <2> DEFINE e == fn.endLine
  <2>1. AreCopied(s, e)
    BY DEF fn
  <2>2. s \in 1..Len(head) /\ e \in 1..Len(head) /\ s <= e
    BY <1>1
  <2> HIDE DEF s, e
  <2>3. \A l \in s..e : baseLines[Kept(s) + (l - s)] = head[l].text
    BY <2>1, <2>2, CopiesAreEqual
  <2>4. s \in s..e /\ Kept(s) \in Nat
    BY <2>2, HeadLines DEF FileInv
  <2>5. Kept(s) + (s - s) = Kept(s)
    BY <2>2, <2>4
  <2> QED  BY <2>3, <2>4, <2>5
<1>4. Kept(s) \in Opening(baseLines) /\ column <= baseLines[Kept(s)].opens
  BY <1>1, <1>2, <1>3 DEF Opening
<1>5. BaseFile.functions = Measured(baseLines).functions
  BY DEF BaseFile
<1>6. PICK g \in DOMAIN BaseFile.functions : BaseFile.functions[g] = FunctionOf(baseLines, Kept(s), column)
  BY <1>1, <1>4, <1>5, PlacesHaveFunctions
<1>7. BaseFile.functions[g].startLine = Kept(s) /\ BaseFile.functions[g].startColumn = column
  BY <1>6 DEF FunctionOf
<1>8. \A x, y \in DOMAIN BaseFile.functions :
        /\ BaseFile.functions[x].startLine = BaseFile.functions[y].startLine
        /\ BaseFile.functions[x].startColumn = BaseFile.functions[y].startColumn
        => x = y
  BY <1>1, <1>5, FunctionsArePlaces
<1>9. BaseOf(f) = {x \in DOMAIN BaseFile.functions : /\ BaseFile.functions[x].startLine = Kept(s)
                                                     /\ BaseFile.functions[x].startColumn = column}
  BY DEF BaseOf, fn
<1>10. BaseOf(f) = {g}
  BY <1>6, <1>7, <1>8, <1>9
<1> QED  BY <1>6, <1>10 DEF fn

(* A function whose code differs from its code at the merge base is checked, *)
(* in every file with every change, whatever its functions, comments and     *)
(* directives, except where indentation ends it and its tail is replaced, or *)
(* deleted below a directive that attaches to nothing.                       *)
THEOREM ChangedFunctionsAreChecked == FileSpec => []ChangedFunctionIsChecked
<1>1. FileInv => ChangedFunctionIsChecked
  <2> SUFFICES ASSUME FileInv, Parses, NEW f \in DOMAIN HeadFile.functions,
                      f \notin CheckedFunctions(HeadFile, CheckedChange),
                      ~(endsByIndentation /\ (TailIsReplaced(f) \/ TailHangsBelowADirective(f)))
               PROVE  ~HasChanged(f)
    BY DEF ChangedFunctionIsChecked
  <2> DEFINE fn == HeadFile.functions[f]
             s == fn.startLine
             e == fn.endLine
             copy == Kept(s) + (e - s)
  <2>1. AreCopied(s, e)
    BY UncheckedIsCopied
  <2>2. /\ s \in 1..Len(head) /\ e \in 1..Len(head) /\ s <= e
    BY SpansOfTheHead DEF FileInv
  <2>3. BodyEnd(baseLines, Kept(s)) \in Nat /\ BodyEnd(baseLines, Kept(s)) >= copy
    BY <2>1, EndInTheBase
  <2>4. ~(BodyEnd(baseLines, Kept(s)) > copy)
    BY LostTailIsExcused
  <2>5. PICK g \in BaseOf(f) : BaseFile.functions[g] = FunctionOf(baseLines, Kept(s), fn.startColumn)
    BY <2>1, UncheckedWasThere
  <2> HIDE DEF fn
  <2>6. copy \in Int
    BY <2>2, HeadLines DEF FileInv
  <2>7. BaseFile.functions[g].startLine = Kept(s) /\ BaseFile.functions[g].endLine = copy
    <3> HIDE DEF copy
    <3>1. BodyEnd(baseLines, Kept(s)) = copy
      BY <2>3, <2>4, <2>6
    <3> QED  BY <2>5, <3>1 DEF FunctionOf
  <2>8. CodeIn(HeadText, fn) = CodeIn(baseLines, BaseFile.functions[g])
    BY <2>1, <2>2, <2>7, CopiesHaveTheSameCode
  <2>9. HeadFile.content = HeadText /\ BaseFile.content = baseLines
    BY HeadIsItsText DEF FileInv, BaseFile, Measured
  <2> QED  BY <2>8, <2>9 DEF HasChanged, fn
<1> QED  BY <1>1, FileInvAlways, PTL

-----------------------------------------------------------------------------
(* What a directive allowed at the merge base.                             *)

(* A directive of the base file is still there, unless a hunk says that it *)
(* deletes one.                                                            *)
LEMMA DirectivesAreKept ==
  ASSUME FileInv, NEW c \in 1..Len(baseLines), ~baseLines[c].code, IsDirectiveLine(baseLines[c]),
         \A h \in Change.hunks : ~h.deletesDirective
  PROVE  \E k \in 1..Len(head) : Kept(k) = c
<1>1. /\ FileTyped /\ Len(head) \in Nat /\ Len(baseLines) \in Nat
      /\ \A l \in 1..Len(head) : Kept(l) \in Nat
  BY HeadLines DEF FileInv
<1>2. /\ KeptLines \subseteq 0..(Len(head) + 1) /\ 0 \in KeptLines /\ Len(head) + 1 \in KeptLines
  BY <1>1, LinesBetweenKeptOnes
<1>3. OriginOf(0) = 0 /\ OriginOf(Len(head) + 1) = Len(baseLines) + 1
      /\ \A l \in 1..Len(head) : OriginOf(l) = Kept(l)
  BY <1>1 DEF OriginOf
<1> DEFINE S == {l \in KeptLines : OriginOf(l) < c}
           p == Max(S)
<1>4. p \in S /\ \A l \in S : l <= p
  <2>1. S \subseteq 0..(Len(head) + 1) /\ S # {} /\ Len(head) + 1 \in Nat
    <3>1. 0 \in S /\ S \subseteq KeptLines
      BY <1>2, <1>3
    <3> HIDE DEF S
    <3> QED  BY <1>1, <1>2, <3>1
  <2> HIDE DEF S
  <2> QED  BY <2>1, MaxIsGreatest
<1> HIDE DEF p
<1>5. p \in 0..Len(head)
  <2>1. p # Len(head) + 1 /\ p \in 0..(Len(head) + 1)
    BY <1>1, <1>2, <1>3, <1>4
  <2> QED  BY <1>1, <2>1
<1> DEFINE T == {l \in KeptLines : l > p}
           q == Min(T)
<1>6. q \in T /\ \A l \in T : q <= l
  <2>1. T \subseteq Nat /\ T # {}
    <3>1. Len(head) + 1 \in T
      BY <1>1, <1>2, <1>5
    <3>2. KeptLines \subseteq Nat
      BY <1>1, <1>2
    <3> QED  BY <3>1, <3>2
  <2> HIDE DEF T
  <2> QED  BY <2>1, MinIsLeast
<1> HIDE DEF q
<1>7. q \in 1..(Len(head) + 1) /\ p < q /\ AreNeighbours(p, q) /\ q \in KeptLines /\ p \in KeptLines
  <2>1. \A l \in KeptLines : l \in Nat
    BY <1>1, <1>2
  <2> QED  BY <1>1, <1>2, <1>4, <1>5, <1>6, <2>1 DEF AreNeighbours
<1>8. ~(OriginOf(q) < c) /\ OriginOf(p) < c
  BY <1>1, <1>4, <1>5, <1>7
<1>9. OriginOf(q) \in Nat /\ OriginOf(p) \in Nat
  BY <1>1, <1>3, <1>5, <1>7 DEF OriginOf
<1>10. CASE OriginOf(q) = c
  <2>1. q # Len(head) + 1
    BY <1>1, <1>3, <1>10
  <2> QED  BY <1>1, <1>3, <1>7, <1>10, <2>1
<1>11. CASE OriginOf(q) # c
  <2> DEFINE h == HunkBetween(p, q)
  <2>1. c \in (OriginOf(p) + 1)..(OriginOf(q) - 1)
    BY <1>1, <1>8, <1>9, <1>11
  <2>2. DeletesDirective(p, q)
    BY <2>1 DEF DeletesDirective
  <2>3. OriginOf(q) > OriginOf(p) + 1
    BY <1>8, <1>9, <1>11, <1>1
  <2>4. AnchoredToCode(h) \in Change.hunks
        /\ h = [headStart |-> IF q = p + 1 THEN p ELSE p + 1, headCount |-> q - p - 1,
                deletesDirective |-> DeletesDirective(p, q)]
    BY <1>1, <1>7, <2>3, HunksOfTheChange
  <2>5. h.deletesDirective
    BY <2>2, <2>4
  <2>6. AnchoredToCode(h).deletesDirective = h.deletesDirective
    <3>1. AnchoredToCode(h) = h \/ \E start : AnchoredToCode(h) = [h EXCEPT !.headStart = start]
      BY DEF AnchoredToCode
    <3> QED  BY <2>4, <3>1
  <2> QED  BY <2>4, <2>5, <2>6
<1> QED  BY <1>10, <1>11

LEMMA NextCodeOfALine ==
  ASSUME NEW lines \in Seq(LineType), NEW k \in 1..Len(lines)
  PROVE  LET file == Measured(lines)
             next == Following(file, k)
         IN /\ next \in (k + 1)..(Len(lines) + 1) /\ (next <= Len(lines) => lines[next].code)
            /\ \A l \in (k + 1)..(Len(lines)) : lines[l].code => next <= l
            /\ NextLine(file, k) =
                 IF \E l \in (k + 1)..(next - 1) : lines[l].blank THEN Len(lines) + 1 ELSE next
<1> DEFINE file == Measured(lines)
           after == {l \in CodeLines(file) : l > k} \cup {EndOfFile(file)}
           next == Following(file, k)
<1>1. /\ Len(lines) \in Nat /\ file.content = lines /\ EndOfFile(file) = Len(lines) + 1
      /\ CodeLines(file) = {l \in 1..Len(lines) : lines[l].code}
  BY DEF Measured, EndOfFile, CodeLines
<1>2. next \in after /\ \A l \in after : next <= l
  <2>1. after \subseteq Nat /\ after # {}
    BY <1>1
  <2> HIDE DEF after
  <2> QED  BY <2>1, MinIsLeast DEF Following, after
<1>3. NextLine(file, k) = IF \E l \in (k + 1)..(next - 1) : lines[l].blank THEN Len(lines) + 1 ELSE next
  BY <1>1 DEF NextLine
<1> HIDE DEF next, file
<1>4. next \in (k + 1)..(Len(lines) + 1) /\ (next <= Len(lines) => lines[next].code)
  BY <1>1, <1>2
<1>5. \A l \in (k + 1)..Len(lines) : lines[l].code => next <= l
  BY <1>1, <1>2
<1> QED  BY <1>3, <1>4, <1>5 DEF next, file

(* The directive's next code, seen from the base file and from head. *)
LEMMA DirectiveStillFinds ==
  ASSUME FileInv, NEW k \in 1..Len(head), NEW s \in 1..Len(head), k < s, Kept(k) > 0, Kept(s) > 0,
         head[s].text.code,
         NextLine(BaseFile, Kept(k)) = Kept(s),
         LET next == Following(HeadFile, k) IN next \in 1..Len(head) => AreCopied(k, next)
  PROVE  Following(HeadFile, k) = s /\ NextLine(HeadFile, k) = s
<1> DEFINE next == Following(HeadFile, k)
           there == Following(BaseFile, Kept(k))
<1>1. /\ FileTyped /\ Len(head) \in Nat /\ Len(baseLines) \in Nat /\ DOMAIN head = 1..Len(head)
      /\ \A l \in 1..Len(head) : Kept(l) \in Nat
      /\ baseLines \in Seq(LineType)
  BY HeadLines DEF FileInv, FileTyped
<1>2. /\ HeadText \in Seq(LineType) /\ Len(HeadText) = Len(head) /\ HeadFile = Measured(HeadText)
      /\ \A l \in 1..Len(head) : HeadText[l] = head[l].text
      /\ BaseFile = Measured(baseLines)
  BY <1>1, HeadIsItsText DEF BaseFile
<1>3. /\ \A l \in 1..Len(head) : Kept(l) > 0 =>
           Kept(l) <= Len(baseLines) /\ head[l].text = baseLines[Kept(l)]
      /\ \A l, m \in 1..Len(head) : l < m /\ Kept(l) > 0 /\ Kept(m) > 0 => Kept(l) < Kept(m)
  BY <1>1 DEF FileInv, KeptInOrder
<1>4. /\ next \in (k + 1)..(Len(head) + 1) /\ (next <= Len(head) => HeadText[next].code)
      /\ \A l \in (k + 1)..Len(head) : HeadText[l].code => next <= l
      /\ NextLine(HeadFile, k) = IF \E l \in (k + 1)..(next - 1) : HeadText[l].blank THEN Len(head) + 1 ELSE next
  <2>1. k \in 1..Len(HeadText)
    BY <1>2
  <2> QED  BY <1>2, <2>1, NextCodeOfALine
<1>5. Kept(k) \in 1..Len(baseLines) /\ Kept(s) \in 1..Len(baseLines) /\ Kept(k) < Kept(s)
  BY <1>1, <1>3
<1>6. /\ there \in (Kept(k) + 1)..(Len(baseLines) + 1) /\ (there <= Len(baseLines) => baseLines[there].code)
      /\ \A l \in (Kept(k) + 1)..Len(baseLines) : baseLines[l].code => there <= l
      /\ NextLine(BaseFile, Kept(k)) =
           IF \E l \in (Kept(k) + 1)..(there - 1) : baseLines[l].blank THEN Len(baseLines) + 1 ELSE there
  BY <1>1, <1>2, <1>5, NextCodeOfALine
<1> HIDE DEF next, there
<1>7. there = Kept(s) /\ \A l \in (Kept(k) + 1)..(there - 1) : ~baseLines[l].blank
  BY <1>1, <1>5, <1>6
<1>8. next \in (k + 1)..s /\ next \in 1..Len(head)
  <2>1. s \in (k + 1)..Len(head) /\ HeadText[s].code
    BY <1>1, <1>2
  <2> QED  BY <1>1, <1>4, <2>1
<1>9. AreCopied(k, next)
  BY <1>8 DEF next
<1>10. \A l \in k..next : Kept(l) > 0 /\ Kept(l) = Kept(k) + (l - k)
  BY <1>9 DEF AreCopied
<1>11. Kept(next) > 0 /\ head[next].text = baseLines[Kept(next)] /\ Kept(k) < Kept(next)
       /\ Kept(next) \in 1..Len(baseLines)
  <2>1. next \in k..next /\ k < next
    BY <1>1, <1>8
  <2>2. Kept(next) > 0
    BY <1>10, <2>1
  <2> QED  BY <1>1, <1>3, <1>8, <2>1, <2>2
<1>12. there <= Kept(next)
  <2>1. head[next].text.code
    BY <1>1, <1>2, <1>4, <1>8
  <2>2. baseLines[Kept(next)].code
    BY <1>11, <2>1
  <2>3. Kept(next) \in (Kept(k) + 1)..Len(baseLines)
    BY <1>1, <1>5, <1>11
  <2> QED  BY <1>6, <2>2, <2>3
<1>13. next = s
  <2>1. next < s => Kept(next) < Kept(s)
    BY <1>3, <1>8, <1>11
  <2> QED  BY <1>1, <1>5, <1>7, <1>8, <1>11, <1>12, <2>1
<1>14. \A l \in (k + 1)..(next - 1) : ~HeadText[l].blank
  <2> SUFFICES ASSUME NEW l \in (k + 1)..(next - 1) PROVE ~HeadText[l].blank
    OBVIOUS
  <2>1. l \in k..next /\ l \in 1..Len(head) /\ k < l /\ l < s
    BY <1>1, <1>8, <1>13
  <2>2. Kept(l) > 0 /\ Kept(l) \in Nat
    BY <1>1, <1>10, <2>1
  <2>3. Kept(k) < Kept(l) /\ Kept(l) < Kept(s) /\ HeadText[l] = baseLines[Kept(l)]
    BY <1>2, <1>3, <2>1, <2>2
  <2>4. Kept(l) \in (Kept(k) + 1)..(there - 1)
    BY <1>1, <1>5, <1>7, <2>2, <2>3
  <2> QED  BY <1>7, <2>3, <2>4
<1> QED  BY <1>4, <1>13, <1>14 DEF next

(* A function whose code is what it was measures what it measured. *)
LEMMA SameCodeSameValues ==
  ASSUME FileInv, NEW s \in 1..Len(head), NEW e \in 1..Len(head), s <= e, AreCopied(s, e)
  PROVE  /\ Statements(HeadText, s, e) = Statements(baseLines, Kept(s), Kept(s) + (e - s))
         /\ HeadText[s] = baseLines[Kept(s)]
<1> DEFINE start == Kept(s)
           copy == start + (e - s)
           here == {l \in s..e : HeadText[l].code}
           there == {c \in start..copy : baseLines[c].code}
           d == start - s
           counted == {l \in here : ~HeadText[l].closes}
           countedThere == {c \in there : ~baseLines[c].closes}
<1>1. /\ d \in Int /\ here \subseteq Int /\ IsFiniteSet(here) /\ there = {l + d : l \in here}
      /\ \A l \in here : baseLines[l + d] = HeadText[l]
  BY CodeOfCopies
<1>2. /\ start \in 1..Len(baseLines) /\ copy \in 1..Len(baseLines) /\ Len(head) \in Nat /\ Len(baseLines) \in Nat
      /\ DOMAIN HeadText = 1..Len(head) /\ DOMAIN baseLines = 1..Len(baseLines)
      /\ HeadText[s] = head[s].text
      /\ \A l \in s..e : baseLines[start + (l - s)] = head[l].text
  <2>1. FileTyped
    BY DEF FileInv
  <2>2. start \in 1..Len(baseLines) /\ copy \in 1..Len(baseLines)
        /\ \A l \in s..e : baseLines[start + (l - s)] = head[l].text
    BY CopiesAreEqual
  <2>3. Len(head) \in Nat /\ Len(baseLines) \in Nat /\ DOMAIN baseLines = 1..Len(baseLines)
        /\ DOMAIN HeadText = 1..Len(head)
    BY <2>1, HeadLines DEF HeadText
  <2>4. HeadText[s] = head[s].text
    BY <2>1, HeadIsItsText
  <2> QED  BY <2>2, <2>3, <2>4
<1>3. HeadText[s] = baseLines[Kept(s)]
  <2>1. s \in s..e /\ start + (s - s) = start
    BY <1>2
  <2> QED  BY <1>2, <2>1
<1>4. counted = {l \in CodeOf(HeadText) : s <= l /\ l <= e /\ ~HeadText[l].closes}
  BY <1>2 DEF CodeOf
<1>5. countedThere = {l \in CodeOf(baseLines) : start <= l /\ l <= copy /\ ~baseLines[l].closes}
  <2> HIDE DEF start, copy
  <2> QED  BY <1>2 DEF CodeOf
<1> HIDE DEF here, there, d
<1>6. countedThere = {l + d : l \in counted}
  BY <1>1
<1>7. counted \subseteq Int /\ IsFiniteSet(counted)
  BY <1>1, FS_Subset
<1> HIDE DEF counted, countedThere
<1>8. Cardinality(countedThere) = Cardinality(counted)
  BY <1>1, <1>6, <1>7, MovedNumbers
<1> QED  BY <1>3, <1>4, <1>5, <1>8 DEF Statements

(* The directive of a function that the change leaves alone allows it still. *)
LEMMA AllowanceIsKept ==
  ASSUME FileInv, Parses, ~TargetIsAdded,
         NEW f \in Outermost(HeadFile), f \notin CheckedFunctions(HeadFile, CheckedChange),
         NEW g \in BaseOf(f), g \in Outermost(BaseFile), NEW limit,
         NEW d \in Allowing(BaseFile, [subject |-> g, limit |-> limit])
  PROVE  Allowing(HeadFile, [subject |-> f, limit |-> limit]) # {}
<1> DEFINE s == HeadFile.functions[f].startLine
           text(k) == head[k].text
           here == [subject |-> f, limit |-> limit]
           there == [subject |-> g, limit |-> limit]
<1>1. /\ FileTyped /\ f \in DOMAIN HeadFile.functions /\ g \in DOMAIN BaseFile.functions
      /\ BaseFile.functions[g].startLine = Kept(s)
      /\ Len(head) \in Nat /\ Len(baseLines) \in Nat
      /\ \A l \in 1..Len(head) : Kept(l) \in Nat
  BY HeadLines DEF FileInv, Outermost, BaseOf
<1>2. /\ s \in 1..Len(head) /\ text(s).code /\ HeadFile.functions[f].endLine \in 1..Len(head)
      /\ s <= HeadFile.functions[f].endLine
  BY <1>1, SpansOfTheHead
<1>3. /\ HeadText \in Seq(LineType) /\ Len(HeadText) = Len(head) /\ HeadFile = Measured(HeadText)
      /\ HeadFile.content = HeadText /\ \A l \in 1..Len(head) : HeadText[l] = text(l)
      /\ DOMAIN HeadText = 1..Len(head)
      /\ BaseFile = Measured(baseLines) /\ BaseFile.content = baseLines
      /\ baseLines \in Seq(LineType) /\ DOMAIN baseLines = 1..Len(baseLines)
  <2>1. HeadText \in Seq(LineType) /\ Len(HeadText) = Len(head) /\ HeadFile = Measured(HeadText)
        /\ HeadFile.content = HeadText /\ \A l \in 1..Len(head) : HeadText[l] = text(l)
    BY <1>1, HeadIsItsText
  <2>2. BaseFile = Measured(baseLines) /\ BaseFile.content = baseLines
    BY DEF BaseFile, Measured
  <2> QED  BY <1>1, <2>1, <2>2, HeadLines DEF FileTyped
<1>4. \A h \in Change.hunks : /\ ~h.deletesDirective
                              /\ \A span \in AttachmentSpans(HeadFile) :
                                   ~TouchesSpan(h, span.startLine,
                                      IF h.headCount > 0 /\ span.endsAtFunction THEN span.endLine - 1
                                      ELSE span.endLine, FALSE)
  BY <1>1, UncheckedIsUntouched
<1>5. NoFunction \notin DOMAIN HeadFile.functions /\ NoFunction \notin DOMAIN BaseFile.functions
  BY <1>3, MeasuredIsPlaced
<1>6. Kept(s) > 0
  <2>1. AreCopied(s, HeadFile.functions[f].endLine)
    BY <1>1, UncheckedIsCopied
  <2> QED  BY <1>2, <2>1 DEF AreCopied
<1> HIDE DEF s
<1>7. /\ d \in Directives(BaseFile) /\ d.metric = limit.metric /\ CoversSubject(BaseFile, d, g)
      /\ limit.level = "warning" /\ limit.value <= d.max
  BY DEF Allowing, Applying
<1>8. PICK c \in DirectiveLines(BaseFile) :
        /\ Applies(BaseFile, c)
        /\ d = LET written == DirectiveOf(BaseFile.content[c])
               IN [line |-> c, metric |-> written.metric, max |-> written.max,
                   target |-> IF written.covers = "file" THEN NoFunction ELSE TargetOf(BaseFile, c)]
  BY <1>7 DEF Directives
<1> DEFINE written == DirectiveOf(baseLines[c])
<1>9. /\ c \in 1..Len(baseLines) /\ ~baseLines[c].code /\ IsDirectiveLine(baseLines[c])
      /\ IsValid(written) /\ (written.covers = "file" \/ TargetOf(BaseFile, c) # NoFunction)
      /\ d.metric = written.metric /\ d.max = written.max
      /\ d.target = IF written.covers = "file" THEN NoFunction ELSE TargetOf(BaseFile, c)
  BY <1>3, <1>8 DEF DirectiveLines, Applies
<1>10. PICK k \in 1..Len(head) : Kept(k) = c
  BY <1>4, <1>9, DirectivesAreKept
<1>11. text(k) = baseLines[c] /\ Kept(k) > 0
  BY <1>1, <1>9, <1>10 DEF FileInv, KeptInOrder
<1>12. k \in DirectiveLines(HeadFile) /\ DirectiveOf(HeadFile.content[k]) = written
  BY <1>3, <1>9, <1>11 DEF DirectiveLines
<1> HIDE DEF written
<1> DEFINE found == [line |-> k, metric |-> written.metric, max |-> written.max,
                     target |-> IF written.covers = "file" THEN NoFunction ELSE TargetOf(HeadFile, k)]
<1>13. written.covers = "file" \/ TargetOf(HeadFile, k) # NoFunction => found \in Directives(HeadFile)
  <2> SUFFICES ASSUME written.covers = "file" \/ TargetOf(HeadFile, k) # NoFunction
               PROVE  found \in Directives(HeadFile)
    OBVIOUS
  <2>1. Applies(HeadFile, k)
    BY <1>9, <1>12 DEF Applies
  <2> QED  BY <1>12, <2>1 DEF Directives
<1>14. found \in Directives(HeadFile) /\ CoversSubject(HeadFile, found, f) => found \in Allowing(HeadFile, here)
  BY <1>7, <1>9 DEF Allowing, Applying
<1>15. CASE written.covers = "file"
  <2>1. found.target = NoFunction
    BY <1>15
  <2> QED  BY <1>13, <1>14, <1>15, <2>1 DEF CoversSubject
<1>16. CASE written.covers # "file"
  <2>1. d.target = TargetOf(BaseFile, c) /\ d.target # NoFunction
    BY <1>9, <1>16
  <2>2. d.target \in DOMAIN BaseFile.functions /\ BaseFile.functions[d.target].startLine = NextLine(BaseFile, c)
    <3> DEFINE line == NextLine(BaseFile, c)
    <3>1. d.target = FunctionAt(Measured(baseLines), line)
      BY <1>3, <2>1 DEF TargetOf
    <3> HIDE DEF line
    <3>2. d.target \in DOMAIN Measured(baseLines).functions /\ Measured(baseLines).functions[d.target].startLine = line
      BY <1>3, <2>1, <3>1, FirstFunctionOfALine
    <3> QED  BY <1>3, <3>2 DEF line
  <2>3. d.target = g
    <3>1. d.target = g \/ Encloses(BaseFile.functions[d.target], BaseFile.functions[g])
      BY <1>7, <2>1 DEF CoversSubject
    <3> QED  BY <2>2, <3>1 DEF Outermost
  <2>4. NextLine(BaseFile, Kept(k)) = Kept(s)
    BY <1>1, <1>10, <2>2, <2>3
  <2>5. k < s
    <3>1. Kept(k) < Kept(s)
      <4>1. Kept(k) \in 1..Len(baseLines) /\ Len(baseLines) \in Nat
        BY <1>1, <1>9, <1>10
      <4> DEFINE b == Kept(k)
      <4> HIDE DEF b
      <4>2. NextLine(Measured(baseLines), b) > b
        <5>1. Following(Measured(baseLines), b) \in (b + 1)..(Len(baseLines) + 1)
              /\ NextLine(Measured(baseLines), b) \in {Len(baseLines) + 1, Following(Measured(baseLines), b)}
          BY <1>3, <4>1, NextCodeOfALine DEF b
        <5> QED  BY <4>1, <5>1 DEF b
      <4>3. NextLine(Measured(baseLines), b) = Kept(s)
        BY <1>3, <2>4 DEF b
      <4> QED  BY <4>2, <4>3 DEF b
    <3>2. s < k => Kept(s) < Kept(k)
      BY <1>1, <1>2, <1>6, <1>11 DEF FileInv, KeptInOrder
    <3> QED  BY <1>1, <1>2, <3>1, <3>2
  <2> DEFINE next == Following(HeadFile, k)
             span == AttachmentSpan(HeadFile, k)
             target == TargetOf(HeadFile, k)
  <2>6. /\ next \in (k + 1)..(Len(head) + 1) /\ \A l \in (k + 1)..Len(head) : HeadText[l].code => next <= l
        /\ NextLine(HeadFile, k) =
             IF \E l \in (k + 1)..(next - 1) : HeadText[l].blank THEN Len(head) + 1 ELSE next
    <3> DEFINE t == HeadText
               after == Following(Measured(t), k)
    <3>1. t \in Seq(LineType) /\ k \in 1..Len(t)
      BY <1>3
    <3> HIDE DEF t
    <3>2. after \in (k + 1)..(Len(t) + 1) /\ \A l \in (k + 1)..Len(t) : t[l].code => after <= l
      BY <3>1, NextCodeOfALine
    <3>3. NextLine(Measured(t), k) =
            IF \E l \in (k + 1)..(after - 1) : t[l].blank THEN Len(t) + 1 ELSE after
      BY <3>1, NextCodeOfALine
    <3>4. next = after /\ NextLine(HeadFile, k) = NextLine(Measured(t), k) /\ Len(t) = Len(head) /\ HeadText = t
      BY <1>3 DEF t
    <3> HIDE DEF after, next
    <3> QED  BY <3>2, <3>3, <3>4
  <2>7. span \in AttachmentSpans(HeadFile) /\ span.startLine = k
    BY <1>1, <1>9, <1>11, SpansOfDirectives
  <2>8. /\ target # NoFunction => target \in DOMAIN HeadFile.functions
             /\ HeadFile.functions[target].startLine = NextLine(HeadFile, k)
             /\ \A x \in DOMAIN HeadFile.functions : HeadFile.functions[x].startLine = NextLine(HeadFile, k) =>
                  HeadFile.functions[target].startColumn <= HeadFile.functions[x].startColumn
        /\ target = NoFunction => \A x \in DOMAIN HeadFile.functions : HeadFile.functions[x].startLine # NextLine(HeadFile, k)
    <3> DEFINE line == NextLine(HeadFile, k)
    <3>1. target = FunctionAt(Measured(HeadText), line)
      BY <1>3 DEF TargetOf
    <3> HIDE DEF line, target
    <3>2. /\ target # NoFunction => target \in DOMAIN Measured(HeadText).functions
             /\ Measured(HeadText).functions[target].startLine = line
             /\ \A x \in DOMAIN Measured(HeadText).functions : Measured(HeadText).functions[x].startLine = line =>
                  Measured(HeadText).functions[target].startColumn <= Measured(HeadText).functions[x].startColumn
          /\ target = NoFunction => \A x \in DOMAIN Measured(HeadText).functions : Measured(HeadText).functions[x].startLine # line
      BY <1>3, <3>1, FirstFunctionOfALine
    <3> QED  BY <1>3, <3>2 DEF line
  <2>9. next \in (k + 1)..s /\ next \in 1..Len(head)
    <3>1. s \in (k + 1)..Len(head) /\ HeadText[s].code
      BY <1>1, <1>2, <1>3, <2>5
    <3> QED  BY <1>1, <1>2, <2>6, <3>1
  <2>10. span = IF target # NoFunction
                  THEN [startLine |-> k, endLine |-> HeadFile.functions[target].startLine, endsAtFunction |-> TRUE]
                  ELSE [startLine |-> k, endLine |-> next, endsAtFunction |-> FALSE]
    <3>1. next # EndOfFile(HeadFile)
      BY <1>1, <1>3, <2>9 DEF EndOfFile
    <3> QED  BY <1>9, <1>12, <1>16, <3>1 DEF AttachmentSpan
  <2> HIDE DEF next, span, target
  <2>11. span.endLine = next /\ Kept(next) > 0 /\ \A h \in Change.hunks : ~Disturbs(h, k, next)
    <3>1. \A h \in Change.hunks : h.headStart \in Nat /\ h.headCount \in Nat
      BY <1>1, HunksAreTyped DEF ChangeType, HunkType
    <3>2. CASE target # NoFunction
      <4>1. found \in Directives(HeadFile) /\ found.target = target /\ found.line = k
        BY <1>13, <1>16, <3>2 DEF target
      <4>2. target \in DOMAIN HeadFile.functions /\ HeadFile.functions[target].startLine = NextLine(HeadFile, k)
        BY <2>8, <3>2
      <4>3. Kept(HeadFile.functions[target].startLine) # 0
        BY <1>11, <3>2, <4>1 DEF TargetIsAdded
      <4>4. HeadFile.functions[target].startLine \in 1..Len(head)
        BY <1>1, <4>2, SpansOfTheHead
      <4>5. NextLine(HeadFile, k) = next
        BY <1>1, <2>6, <4>2, <4>4
      <4>6. span = [startLine |-> k, endLine |-> next, endsAtFunction |-> TRUE]
        BY <2>10, <3>2, <4>2, <4>5
      <4>7. Kept(next) > 0
        BY <1>1, <2>9, <4>2, <4>3, <4>5
      <4>8. ASSUME NEW h \in Change.hunks PROVE ~Disturbs(h, k, next)
        <5>1. ~TouchesSpan(h, k, IF h.headCount > 0 /\ TRUE THEN next - 1 ELSE next, FALSE)
          BY <1>4, <2>7, <4>6
        <5> QED  BY <5>1 DEF Disturbs
      <4> QED  BY <4>6, <4>7, <4>8
    <3>3. CASE target = NoFunction
      <4>1. span = [startLine |-> k, endLine |-> next, endsAtFunction |-> FALSE]
        BY <2>10, <3>3
      <4>2. ASSUME NEW h \in Change.hunks PROVE ~TouchesSpan(h, k, next, FALSE)
        <5>1. ~TouchesSpan(h, k, IF h.headCount > 0 /\ FALSE THEN next - 1 ELSE next, FALSE)
          BY <1>4, <2>7, <4>1
        <5> QED  BY <5>1
      <4>3. Kept(next) > 0
        <5>1. k <= next
          BY <2>9
        <5> QED  BY <1>1, <2>9, <4>2, <5>1, UntouchedLineIsKept
      <4>4. \A h \in Change.hunks : ~Disturbs(h, k, next)
        BY <2>9, <3>1, <4>2 DEF Disturbs, TouchesSpan
      <4> QED  BY <4>1, <4>3, <4>4
    <3> QED  BY <3>2, <3>3
  <2>12. AreCopied(k, next)
    <3>1. ~IsPassedByAnchoring(head[k].text) /\ k <= next
      BY <1>9, <1>11, <2>9 DEF IsPassedByAnchoring
    <3> QED  BY <2>9, <2>11, <3>1, UndisturbedLinesAreCopied
  <2>13. next = s /\ NextLine(HeadFile, k) = s
    BY <1>2, <1>6, <1>11, <2>4, <2>5, <2>12, DirectiveStillFinds DEF next
  <2>14. target \in DOMAIN HeadFile.functions /\ HeadFile.functions[target].startLine = s
         /\ HeadFile.functions[target].startColumn <= HeadFile.functions[f].startColumn /\ target # NoFunction
    <3>1. HeadFile.functions[f].startLine = s
      BY DEF s
    <3>2. target # NoFunction
      BY <1>1, <2>8, <2>13, <3>1
    <3> QED  BY <1>1, <2>8, <2>13, <3>1, <3>2
  <2>15. target = f
    <3>1. HeadFile.functions[target] = FunctionOf(HeadText, s, HeadFile.functions[target].startColumn)
      BY <1>1, <2>14, SpansOfTheHead
    <3>2. HeadFile.functions[f] = FunctionOf(HeadText, s, HeadFile.functions[f].startColumn)
      BY <1>1, SpansOfTheHead DEF s
    <3>3. /\ HeadFile.functions[target].endLine = HeadFile.functions[f].endLine
          /\ HeadFile.functions[target].endColumn = HeadFile.functions[f].endColumn
          /\ HeadFile.functions[f].endColumn = 9 /\ HeadFile.functions[f].startLine = s
      BY <3>1, <3>2 DEF FunctionOf
    <3>4. Encloses(HeadFile.functions[target], HeadFile.functions[f])
      BY <2>14, <3>3 DEF Encloses
    <3> QED  BY <2>14, <3>4 DEF Outermost
  <2>16. found \in Directives(HeadFile) /\ found.target = f
    BY <1>13, <1>16, <2>14, <2>15 DEF target
  <2>17. CoversSubject(HeadFile, found, f)
    BY <1>1, <1>5, <2>16 DEF CoversSubject
  <2> QED  BY <1>14, <2>16, <2>17
<1> QED  BY <1>15, <1>16

(* A function the change leaves alone, its code what it was at the merge     *)
(* base, shows no new warning: every warning it shows, it showed there.      *)
(* Whoever makes a directive allow less makes the functions it allowed be    *)
(* checked, or puts a function between it and them (expandHunks).            *)
THEOREM LostAllowancesAreAlwaysChecked == FileSpec => []LostAllowancesAreChecked
<1>1. FileInv => LostAllowancesAreChecked
  <2> SUFFICES ASSUME FileInv, Parses, ~TargetIsAdded, NEW f \in DOMAIN HeadFile.functions,
                      NewlyShown(f), f \notin CheckedFunctions(HeadFile, CheckedChange)
               PROVE  FALSE
    BY DEF LostAllowancesAreChecked
  <2> DEFINE fn == HeadFile.functions[f]
             s == fn.startLine
             e == fn.endLine
             copy == Kept(s) + (e - s)
  <2>1. AreCopied(s, e)
    BY UncheckedIsCopied
  <2>2. /\ s \in 1..Len(head) /\ e \in 1..Len(head) /\ s <= e
        /\ fn = FunctionOf(HeadText, s, fn.startColumn)
    BY SpansOfTheHead DEF FileInv
  <2>3. /\ BodyEnd(baseLines, Kept(s)) \in Nat /\ BodyEnd(baseLines, Kept(s)) >= copy
        /\ BodyEnd(baseLines, Kept(s)) > copy => BodyEnd(baseLines, Kept(s)) \in CodeOf(baseLines)
    BY <2>1, EndInTheBase
  <2>4. PICK g \in BaseOf(f) :
          /\ g \in DOMAIN BaseFile.functions /\ BaseOf(f) = {g}
          /\ BaseFile.functions[g] = FunctionOf(baseLines, Kept(s), fn.startColumn)
    BY <2>1, UncheckedWasThere
  <2> DEFINE gn == BaseFile.functions[g]
  <2>5. /\ f \in Outermost(HeadFile) /\ ~HasChanged(f) /\ g \in Outermost(BaseFile)
        /\ ~(ShownOf(HeadFile, f) \subseteq ShownOf(BaseFile, g))
    BY <2>4 DEF NewlyShown
  <2>6. HeadFile.content = HeadText /\ BaseFile.content = baseLines
    BY HeadIsItsText DEF FileInv, BaseFile, Measured
  <2>7. CodeIn(HeadText, fn) = CodeIn(baseLines, gn)
    BY <2>4, <2>5, <2>6 DEF HasChanged
  <2>8. fn.startLine = s /\ fn.endLine = e /\ gn.startLine = Kept(s) /\ gn.endLine = BodyEnd(baseLines, Kept(s))
    BY <2>4 DEF FunctionOf
  <2> HIDE DEF fn, gn
  <2>9. ~(BodyEnd(baseLines, Kept(s)) > copy)
    BY <2>1, <2>2, <2>3, <2>7, <2>8, LongerFunctionDiffers
  <2>10. BodyEnd(baseLines, Kept(s)) = copy
    <3>1. copy \in Int
      BY <2>2, HeadLines DEF FileInv
    <3> HIDE DEF copy
    <3> QED  BY <2>3, <2>9, <3>1
  <2>11. gn.values = fn.values
    <3>1. /\ Statements(HeadText, s, e) = Statements(baseLines, Kept(s), copy)
          /\ HeadText[s] = baseLines[Kept(s)]
      BY <2>1, <2>2, SameCodeSameValues
    <3>2. fn.values = [parameterCount |-> HeadText[s].parameters, ncss |-> Statements(HeadText, s, e)]
      <4>1. BodyEnd(HeadText, s) = e
        BY <2>2 DEF FunctionOf
      <4> QED  BY <2>2, <4>1 DEF FunctionOf
    <3>3. gn.values = [parameterCount |-> baseLines[Kept(s)].parameters, ncss |-> Statements(baseLines, Kept(s), copy)]
      BY <2>4, <2>10 DEF FunctionOf, gn
    <3> QED  BY <3>1, <3>2, <3>3
  <2>12. PICK limit \in ShownOf(HeadFile, f) : limit \notin ShownOf(BaseFile, g)
    BY <2>5
  <2> DEFINE here == [subject |-> f, limit |-> limit]
             there == [subject |-> g, limit |-> limit]
  <2>13. here \in Reported(HeadFile, WholeFile)
    <3>1. PICK x \in Reported(HeadFile, WholeFile) : x.subject = f /\ x.limit = limit
      BY <2>12 DEF ShownOf
    <3>2. x \in FileExcesses(HeadFile, WholeFile) \/ x \in FunctionExcesses(HeadFile, WholeFile)
      BY <3>1 DEF Reported, Judged
    <3>3. \E y, z : x = [subject |-> y, limit |-> z]
      BY <3>2 DEF FileExcesses, FunctionExcesses
    <3>4. x = here
      BY <3>1, <3>3
    <3> QED  BY <3>1, <3>4
  <2>14. here \in FunctionExcesses(HeadFile, WholeFile) /\ Allowing(HeadFile, here) = {}
    <3>1. NoFunction \notin DOMAIN HeadFile.functions
      BY HeadIsItsText, MeasuredIsPlaced DEF FileInv
    <3>2. here \notin FileExcesses(HeadFile, WholeFile)
      BY <3>1 DEF FileExcesses
    <3> QED  BY <2>13, <3>2 DEF Reported, Judged
  <2>15. limit \in Exceeded(fn.values)
    <3>1. PICK x \in CheckedFunctions(HeadFile, WholeFile) :
            here \in {[subject |-> x, limit |-> y] :
                        y \in {y \in Exceeded(HeadFile.functions[x].values) :
                                 ~ReportedByEnclosing(HeadFile, CheckedFunctions(HeadFile, WholeFile), x, y.metric)}}
      BY <2>14 DEF FunctionExcesses
    <3>2. PICK y \in Exceeded(HeadFile.functions[x].values) : here = [subject |-> x, limit |-> y]
      BY <3>1
    <3>3. x = f /\ y = limit
      BY <3>2
    <3> QED  BY <3>2, <3>3 DEF fn
  <2>16. there \in FunctionExcesses(BaseFile, WholeFile)
    <3>1. g \in CheckedFunctions(BaseFile, WholeFile)
      BY <2>4 DEF CheckedFunctions, Covers, WholeFile
    <3>2. ~ReportedByEnclosing(BaseFile, CheckedFunctions(BaseFile, WholeFile), g, limit.metric)
      BY <2>5 DEF ReportedByEnclosing, Outermost, CheckedFunctions
    <3>3. limit \in Exceeded(BaseFile.functions[g].values)
      BY <2>11, <2>15 DEF gn
    <3> QED  BY <3>1, <3>2, <3>3 DEF FunctionExcesses
  <2>17. Allowing(BaseFile, there) # {}
    <3> SUFFICES ASSUME Allowing(BaseFile, there) = {} PROVE FALSE
      OBVIOUS
    <3>1. there \in Reported(BaseFile, WholeFile) /\ there.subject = g /\ there.limit = limit
      BY <2>16 DEF Reported, Judged
    <3>2. limit \in ShownOf(BaseFile, g)
      BY <3>1 DEF ShownOf
    <3> QED  BY <2>12, <3>2
  <2>18. PICK d : d \in Allowing(BaseFile, there)
    BY <2>17
  <2> QED  BY <2>4, <2>5, <2>14, <2>18, AllowanceIsKept
<1> QED  BY <1>1, FileInvAlways, PTL

-----------------------------------------------------------------------------
(* The duplicated regions of a file. *)

OccurrencesTyped ==
  \A i \in DOMAIN occurrences :
    /\ occurrences[i] \in OccurrenceType
    /\ occurrences[i].startLine <= occurrences[i].endLine
    /\ i \in Nat

(* What is left comes after all that was merged. *)
LeftComesLater ==
  \A i \in left :
    /\ occurrences[i].file = ThisFile
    /\ \A r \in DOMAIN regions : \A s \in regions[r].sources :
         s # i /\ occurrences[s].startLine <= occurrences[i].startLine

(* A region spans its sources and ends where one of them does. *)
RegionsSpanSources ==
  \A r \in DOMAIN regions :
    /\ \A s \in regions[r].sources : ContainsLocation(regions[r], occurrences[s])
    /\ \E s \in regions[r].sources : occurrences[s].endLine = regions[r].endLine

RegionsAdvance ==
  \A r, q \in DOMAIN regions :
    r < q => /\ regions[r].startLine < regions[q].startLine
             /\ regions[r].endLine < regions[q].endLine

RegionInv ==
  TypeOK /\ OccurrencesTyped /\ LeftComesLater /\ RegionsSpanSources /\ RegionsAdvance

LEMMA RegionSequence ==
  ASSUME TypeOK
  PROVE  /\ Len(regions) \in Nat /\ DOMAIN regions = 1..Len(regions)
         /\ \A r \in DOMAIN regions : regions[r] \in RegionType
<1> DEFINE T == RegionType
<1>1. regions \in Seq(T)
  BY DEF TypeOK
<1> HIDE DEF T
<1>2. Len(regions) \in Nat /\ DOMAIN regions = 1..Len(regions) /\ \A r \in DOMAIN regions : regions[r] \in T
  BY <1>1
<1>3. QED
  BY <1>2 DEF T

LEMMA RegionFields ==
  ASSUME TypeOK, NEW r \in DOMAIN regions
  PROVE  /\ r \in Nat
         /\ regions[r].file = ThisFile
         /\ regions[r].startLine \in Nat /\ regions[r].endLine \in Nat
         /\ regions[r].sources \subseteq DOMAIN occurrences
<1>1. regions[r] \in RegionType /\ r \in Nat
  BY RegionSequence
<1>2. QED
  BY <1>1 DEF RegionType

LEMMA InitRegions == RegionsInit => RegionInv
<1> SUFFICES ASSUME RegionsInit PROVE RegionInv
  OBVIOUS
<1>1. PICK input \in Inputs : occurrences = input.occurrences /\ change = input.change
  BY DEF RegionsInit
<1>2. OccurrencesTyped
  BY <1>1, InputAssumption DEF IsInput, OccurrencesTyped
<1>3. regions = <<>> /\ DOMAIN regions = {}
  BY DEF RegionsInit
<1>4. left = {i \in DOMAIN occurrences : IsReported(occurrences[i])}
  BY DEF RegionsInit
<1>5. TypeOK
  <2>1. left \subseteq DOMAIN occurrences
    BY <1>4
  <2>2. <<>> \in Seq(RegionType)
    OBVIOUS
  <2>3. QED
    BY <2>1, <2>2, <1>3 DEF TypeOK
<1>6. LeftComesLater
  BY <1>3, <1>4 DEF LeftComesLater, IsReported
<1>7. RegionsSpanSources /\ RegionsAdvance
  BY <1>3 DEF RegionsSpanSources, RegionsAdvance
<1>8. QED
  BY <1>2, <1>5, <1>6, <1>7 DEF RegionInv

(* A location that opens a region begins and ends after the last one: the   *)
(* source that ends last does not contain it, and a copy begins before it.  *)
LEMMA OpenedAdvances ==
  ASSUME RegionInv, NEW i \in left, regions # <<>>, ~Joins(i)
  PROVE  /\ LastRegion.startLine < occurrences[i].startLine
         /\ LastRegion.endLine < occurrences[i].endLine
<1> DEFINE L == occurrences[i]
<1>1. /\ i \in DOMAIN occurrences /\ L.file = ThisFile /\ L.startLine \in Nat /\ L.endLine \in Nat
      /\ L.startLine <= L.endLine
  BY DEF RegionInv, TypeOK, OccurrencesTyped, OccurrenceType, LeftComesLater
<1>2. Len(regions) \in DOMAIN regions
  BY RegionSequence, Len(regions) # 0 DEF RegionInv, TypeOK
<1>3. /\ LastRegion.file = ThisFile /\ LastRegion.startLine \in Nat /\ LastRegion.endLine \in Nat
      /\ LastRegion.sources \subseteq DOMAIN occurrences
  BY <1>2, RegionFields DEF RegionInv, LastRegion
<1>4. \A s \in LastRegion.sources :
        /\ occurrences[s].startLine \in Nat /\ occurrences[s].endLine \in Nat
        /\ occurrences[s].file = ThisFile
        /\ LastRegion.startLine <= occurrences[s].startLine /\ occurrences[s].endLine <= LastRegion.endLine
        /\ occurrences[s].startLine <= L.startLine
        /\ occurrences[s].startLine <= occurrences[s].endLine
  BY <1>2, <1>3 DEF RegionInv, OccurrencesTyped, OccurrenceType, RegionsSpanSources, ContainsLocation,
                    LeftComesLater, LastRegion
<1>5. PICK t \in LastRegion.sources : occurrences[t].endLine = LastRegion.endLine
  BY <1>2 DEF RegionInv, RegionsSpanSources, LastRegion
<1>6. CASE ~Overlaps(LastRegion, L)
  <2>1. LastRegion.startLine <= L.endLine
    BY <1>1, <1>3, <1>4, <1>5
  <2>2. LastRegion.endLine < L.startLine
    BY <2>1, <1>1, <1>3, <1>6 DEF Overlaps
  <2>3. QED
    BY <2>2, <1>1, <1>3, <1>4, <1>5
<1>7. CASE Overlaps(LastRegion, L)
  <2>1. /\ \A s \in LastRegion.sources : ~ContainsLocation(occurrences[s], L)
        /\ \E s \in LastRegion.sources : AreCopies(s, i)
    BY <1>7 DEF Joins
  <2>2. PICK s \in LastRegion.sources : AreCopies(s, i)
    BY <2>1
  <2>3. LastRegion.endLine < L.endLine
    BY <2>1, <1>1, <1>3, <1>4, <1>5 DEF ContainsLocation
  <2>4. occurrences[s].startLine < L.startLine
    BY <2>2, <1>1, <1>4 DEF AreCopies, ContainsLocation
  <2>5. QED
    BY <2>3, <2>4, <1>1, <1>3, <1>4
<1>8. QED
  BY <1>6, <1>7

(* Merging a location into the last region, or opening one for it, keeps    *)
(* the regions advancing.                                                   *)
LEMMA StepRegions == RegionInv /\ [RegionsNext]_regionVars => RegionInv'
<1> SUFFICES ASSUME RegionInv, [RegionsNext]_regionVars PROVE RegionInv'
  OBVIOUS
<1>1. CASE UNCHANGED regionVars
  BY <1>1 DEF regionVars, RegionInv, TypeOK, OccurrencesTyped, LeftComesLater, RegionsSpanSources,
              RegionsAdvance, ContainsLocation, RegionType
<1>2. CASE RegionsNext
  <2>1. PICK i \in left : MergeNext(i)
    BY <1>2 DEF RegionsNext
  <2> DEFINE L == occurrences[i]
             n == Len(regions)
  <2>2. occurrences' = occurrences /\ left' = left \ {i}
    BY <2>1 DEF MergeNext
  <2>3. /\ i \in DOMAIN occurrences /\ L.file = ThisFile /\ L.startLine \in Nat
        /\ L.endLine \in Nat /\ L.startLine <= L.endLine
    BY DEF RegionInv, TypeOK, OccurrencesTyped, OccurrenceType, LeftComesLater
  <2>4. regions \in Seq(RegionType) /\ n \in Nat /\ DOMAIN regions = 1..n
    BY RegionSequence DEF RegionInv, TypeOK
  <2>5. \A j \in left' : /\ j # i /\ occurrences[j].file = ThisFile
                         /\ L.startLine <= occurrences[j].startLine
    <3>1. \A j \in left : Before(i, j)
      BY <2>1 DEF MergeNext
    <3>2. \A j \in left : occurrences[j].startLine \in Nat /\ occurrences[j].file = ThisFile
      BY DEF RegionInv, TypeOK, OccurrencesTyped, OccurrenceType, LeftComesLater
    <3>3. QED
      BY <3>1, <3>2, <2>2, <2>3 DEF Before
  <2>6. OccurrencesTyped'
    BY <2>2 DEF RegionInv, OccurrencesTyped
  <2>7. left' \subseteq DOMAIN occurrences'
    BY <2>2 DEF RegionInv, TypeOK
  <2>8. /\ \A r \in 1..n : regions[r] \in RegionType
        /\ \A r \in 1..n : regions[r].startLine \in Nat /\ regions[r].endLine \in Nat
    BY <2>4, RegionSequence, RegionFields DEF RegionInv
  <2>9. CASE Joins(i)
    <3> DEFINE joined == Joined(LastRegion, i)
    <3>1. /\ n \in 1..n /\ LastRegion = regions[n] /\ LastRegion \in RegionType
          /\ LastRegion.startLine \in Nat /\ LastRegion.endLine \in Nat /\ LastRegion.file = ThisFile
      BY <2>9, <2>4, <2>8 DEF Joins, LastRegion, RegionType
    <3>2. regions' = [regions EXCEPT ![n] = joined]
      BY <2>1, <2>9, <3>1 DEF MergeNext
    <3>3. /\ joined \in RegionType
          /\ joined.file = ThisFile /\ joined.startLine = LastRegion.startLine
          /\ joined.endLine = LaterEnd(LastRegion.endLine, L.endLine)
          /\ joined.sources = LastRegion.sources \cup {i}
      <4>1. LaterEnd(LastRegion.endLine, L.endLine) \in Nat
        BY <3>1, <2>3 DEF LaterEnd
      <4>2. QED
        BY <4>1, <3>1, <2>3 DEF RegionType, Joined
    <3> HIDE DEF joined
    <3>4. /\ regions' \in Seq(RegionType) /\ DOMAIN regions' = 1..n /\ regions'[n] = joined
          /\ \A r \in 1..n : r # n => regions'[r] = regions[r]
      BY <3>1, <3>2, <3>3, <2>4
    <3>5. TypeOK'
      BY <3>4, <2>2, <2>7 DEF TypeOK, RegionType
    <3>6. LastRegion.endLine <= joined.endLine /\ L.endLine <= joined.endLine /\ joined.endLine \in Nat
      BY <3>1, <3>3, <2>3 DEF LaterEnd
    <3>7. PICK t \in LastRegion.sources : occurrences[t].endLine = LastRegion.endLine
      BY <3>1, <2>4 DEF RegionInv, RegionsSpanSources
    <3>8. \A s \in LastRegion.sources :
            /\ ContainsLocation(LastRegion, occurrences[s]) /\ s \in DOMAIN occurrences
            /\ occurrences[s].startLine <= L.startLine
            /\ occurrences[s].startLine \in Nat /\ occurrences[s].endLine \in Nat
      <4>1. LastRegion.sources \subseteq DOMAIN occurrences
        BY <3>1 DEF RegionType
      <4>2. QED
        BY <4>1, <3>1, <2>4 DEF RegionInv, RegionsSpanSources, LeftComesLater, OccurrencesTyped,
                                OccurrenceType
    <3>9. LeftComesLater'
      <4>1. \A r \in 1..n : \A s \in regions'[r].sources :
              s = i \/ s \in regions[r].sources
        BY <3>4, <3>3, <3>1
      <4>2. QED
        BY <4>1, <3>4, <2>2, <2>4, <2>5 DEF RegionInv, LeftComesLater
    <3>10. RegionsSpanSources'
      <4>1. \A s \in joined.sources : ContainsLocation(joined, occurrences[s])
        <5> TAKE s \in joined.sources
        <5>1. CASE s \in LastRegion.sources
          BY <3>8, <3>6, <3>3, <3>1, <5>1 DEF ContainsLocation
        <5>2. CASE s = i
          BY <3>8, <3>7, <3>6, <3>3, <3>1, <2>3, <5>2 DEF ContainsLocation
        <5>3. QED
          BY <5>1, <5>2, <3>3
      <4>2. \E s \in joined.sources : occurrences[s].endLine = joined.endLine
        BY <3>7, <3>8, <3>3, <3>1, <2>3 DEF LaterEnd
      <4>3. QED
        <5>1. \A r \in 1..n : r # n =>
                /\ \A s \in regions[r].sources : ContainsLocation(regions[r], occurrences[s])
                /\ \E s \in regions[r].sources : occurrences[s].endLine = regions[r].endLine
          BY <2>4 DEF RegionInv, RegionsSpanSources
        <5>2. QED
          BY <4>1, <4>2, <5>1, <3>4, <2>2 DEF RegionsSpanSources, ContainsLocation
    <3>11. RegionsAdvance'
      <4>1. \A r, q \in 1..n : r < q => /\ r # n /\ regions[r].startLine < regions[q].startLine
                                         /\ regions[r].endLine < regions[q].endLine
        <5>1. RegionsAdvance
          BY DEF RegionInv
        <5>2. \A r, q \in DOMAIN regions :
                r < q => /\ regions[r].startLine < regions[q].startLine
                         /\ regions[r].endLine < regions[q].endLine
          BY <5>1 DEF RegionsAdvance
        <5>3. \A r, q \in 1..n : r < q => r # n
          BY <2>4
        <5>4. QED
          BY <5>2, <5>3, <2>4
      <4>2. \A r, q \in 1..n : r < q => /\ regions'[r] = regions[r]
                                         /\ regions'[q].startLine = regions[q].startLine
                                         /\ regions[q].endLine <= regions'[q].endLine
                                         /\ regions'[q].endLine \in Nat
        BY <4>1, <3>1, <3>3, <3>4, <3>6, <2>8
      <4>3. QED
        BY <4>1, <4>2, <3>4, <2>8 DEF RegionsAdvance
    <3>12. QED
      BY <2>6, <3>5, <3>9, <3>10, <3>11 DEF RegionInv
  <2>10. CASE ~Joins(i)
    <3> DEFINE opened == Opened(i)
    <3>1. regions' = Append(regions, opened)
      BY <2>1, <2>10 DEF MergeNext
    <3>2. /\ opened \in RegionType /\ opened.file = ThisFile /\ opened.startLine = L.startLine
          /\ opened.endLine = L.endLine /\ opened.sources = {i}
      BY <2>3 DEF RegionType, Opened
    <3> HIDE DEF opened
    <3>3. /\ regions' \in Seq(RegionType) /\ DOMAIN regions' = 1..(n + 1)
          /\ regions'[n + 1] = opened /\ \A r \in 1..n : regions'[r] = regions[r]
      BY <3>1, <3>2, <2>4
    <3>4. TypeOK'
      BY <3>3, <2>2, <2>7 DEF TypeOK, RegionType
    <3>5. LeftComesLater'
      BY <3>2, <3>3, <2>2, <2>4, <2>5 DEF RegionInv, LeftComesLater
    <3>6. RegionsSpanSources'
      <4>1. ContainsLocation(opened, L)
        BY <3>2, <2>3 DEF ContainsLocation
      <4>2. QED
        <5>1. \A r \in 1..n :
                /\ \A s \in regions[r].sources : ContainsLocation(regions[r], occurrences[s])
                /\ \E s \in regions[r].sources : occurrences[s].endLine = regions[r].endLine
          BY <2>4 DEF RegionInv, RegionsSpanSources
        <5>2. ASSUME NEW r \in 1..(n + 1)
              PROVE  /\ \A s \in regions'[r].sources : ContainsLocation(regions'[r], occurrences[s])
                     /\ \E s \in regions'[r].sources : occurrences[s].endLine = regions'[r].endLine
          <6>1. r \in 1..n \/ r = n + 1
            BY <2>4
          <6>2. QED
            BY <4>1, <5>1, <6>1, <3>2, <3>3
        <5>3. QED
          BY <5>2, <3>3, <2>2 DEF RegionsSpanSources, ContainsLocation
    <3>7. \A r \in 1..n : /\ regions[r].startLine < L.startLine
                          /\ regions[r].endLine < L.endLine
      <4> TAKE r \in 1..n
      <4>1. regions # <<>> /\ n \in 1..n /\ LastRegion = regions[n] /\ r \in DOMAIN regions
        BY <2>4 DEF LastRegion
      <4>2. LastRegion.startLine < L.startLine /\ LastRegion.endLine < L.endLine
        BY <4>1, <2>10, OpenedAdvances
      <4>3. r = n \/ (regions[r].startLine < LastRegion.startLine /\ regions[r].endLine < LastRegion.endLine)
        BY <4>1, <2>4 DEF RegionInv, RegionsAdvance
      <4>4. QED
        BY <4>1, <4>2, <4>3, <2>3, <2>4, <2>8
    <3>8. RegionsAdvance'
      BY <3>2, <3>3, <3>7, <2>4 DEF RegionInv, RegionsAdvance
    <3>9. QED
      BY <2>6, <3>4, <3>5, <3>6, <3>8 DEF RegionInv
  <2>11. QED
    BY <2>9, <2>10
<1>3. QED
  BY <1>1, <1>2

(* The regions of a file advance in start and end, whatever the clone       *)
(* groups and the change are (mergeOverlapping).                            *)
THEOREM RegionsAlwaysAdvance == RegionsSpec => []RegionInv
<1>1. QED
  BY InitRegions, StepRegions, PTL DEF RegionsSpec

(* No duplicated region is reported within another (mergeOverlapping).      *)
THEOREM RegionsNeverNest == RegionsSpec => []NoRegionLiesWithinAnother
<1>1. RegionInv => NoRegionLiesWithinAnother
  <2> SUFFICES ASSUME RegionInv, NEW r \in DOMAIN regions, NEW q \in DOMAIN regions, r # q
               PROVE  ~ContainsLocation(regions[r], regions[q])
    BY DEF NoRegionLiesWithinAnother
  <2>1. r \in Nat /\ q \in Nat
    BY RegionFields DEF RegionInv
  <2>2. /\ regions[r].startLine \in Nat /\ regions[r].endLine \in Nat
        /\ regions[q].startLine \in Nat /\ regions[q].endLine \in Nat
    BY RegionFields DEF RegionInv
  <2>3. r < q \/ q < r
    BY <2>1
  <2>4. QED
    BY <2>2, <2>3 DEF RegionInv, RegionsAdvance, ContainsLocation
<1>2. QED
  BY <1>1, RegionsAlwaysAdvance, PTL

(* Copies of one group come into one region only by a block that holds one  *)
(* of them whole (areCopies, mergeOverlapping).                             *)
THEOREM CopiesStayApart == RegionsSpec => []CopiesShareNoRegion
<1>1. RegionsInit => CopiesShareNoRegion
  BY DEF RegionsInit, CopiesShareNoRegion
<1>2. RegionInv /\ CopiesShareNoRegion /\ [RegionsNext]_regionVars => CopiesShareNoRegion'
  <2> SUFFICES ASSUME RegionInv, CopiesShareNoRegion, [RegionsNext]_regionVars
               PROVE  CopiesShareNoRegion'
    OBVIOUS
  <2>1. CASE UNCHANGED regionVars
    BY <2>1 DEF regionVars, CopiesShareNoRegion, AreCopies, ContainsLocation
  <2>2. CASE RegionsNext
    <3>1. PICK i \in left : MergeNext(i)
      BY <2>2 DEF RegionsNext
    <3>2. occurrences' = occurrences
      BY <3>1 DEF MergeNext
    <3>3. DOMAIN regions = 1..Len(regions) /\ Len(regions) \in Nat
      BY RegionSequence DEF RegionInv
    <3>4. ASSUME NEW r \in DOMAIN regions', NEW j \in regions'[r].sources,
                 NEW k \in regions'[r].sources, AreCopies(j, k)
          PROVE  \E s \in regions'[r].sources :
                   /\ s \notin {j, k}
                   /\ \/ ContainsLocation(occurrences[s], occurrences[j])
                      \/ ContainsLocation(occurrences[s], occurrences[k])
      <4>1. j # k
        <5>1. RegionInv'
          BY StepRegions
        <5>2. regions'[r] \in RegionType'
          BY <5>1 DEF RegionInv, TypeOK
        <5>3. j \in DOMAIN occurrences
          BY <5>2, <3>2 DEF RegionType
        <5>4. occurrences[j].startLine \in Nat /\ occurrences[j].endLine \in Nat
          BY <5>3 DEF RegionInv, OccurrencesTyped, OccurrenceType
        <5>5. QED
          BY <3>4, <5>4 DEF AreCopies, ContainsLocation
      <4>2. CASE Joins(i) /\ r = Len(regions)
        <5>0. regions' = [regions EXCEPT ![r] = Joined(regions[r], i)] /\ LastRegion = regions[r]
          BY <3>1, <4>2 DEF MergeNext, LastRegion
        <5>1. /\ r \in DOMAIN regions /\ LastRegion = regions[r]
              /\ regions'[r].sources = regions[r].sources \cup {i}
          <6>1. r \in DOMAIN regions /\ regions'[r] = Joined(regions[r], i)
            BY <5>0, <3>4
          <6>2. regions[r] \in RegionType
            BY <6>1, RegionSequence DEF RegionInv
          <6>3. QED
            BY <5>0, <6>1, <6>2 DEF Joined, RegionType
        <5>2. i \notin regions[r].sources
          BY <5>1 DEF RegionInv, LeftComesLater
        <5>3. CASE j # i /\ k # i
          BY <5>1, <5>3, <3>4 DEF CopiesShareNoRegion
        <5>4. CASE j = i \/ k = i
          <6>1. PICK c \in regions[r].sources : {j, k} = {c, i} /\ AreCopies(c, i)
            BY <4>1, <5>1, <5>4, <3>4 DEF AreCopies
          <6>2. PICK s \in regions[r].sources : ContainsLocation(occurrences[s], occurrences[i])
            BY <4>2, <5>1, <6>1 DEF Joins
          <6>3. s # c /\ s # i
            BY <5>2, <6>1, <6>2 DEF AreCopies
          <6>4. QED
            BY <5>1, <6>1, <6>2, <6>3
        <5>5. QED
          BY <5>3, <5>4
      <4>3. CASE Joins(i) /\ r # Len(regions)
        <5>1. r \in DOMAIN regions /\ regions'[r] = regions[r]
          BY <3>1, <3>3, <4>3 DEF MergeNext, RegionInv, TypeOK
        <5>2. QED
          BY <5>1, <3>4 DEF CopiesShareNoRegion
      <4>4. CASE ~Joins(i)
        <5>1. \/ r \in DOMAIN regions /\ regions'[r] = regions[r]
              \/ regions'[r].sources = {i}
          <6>1. regions' = Append(regions, Opened(i)) /\ Opened(i).sources = {i}
            BY <3>1, <4>4 DEF MergeNext, Opened
          <6>2. regions \in Seq(RegionType)
            BY DEF RegionInv, TypeOK
          <6>3. r \in 1..(Len(regions) + 1)
            BY <6>1, <6>2, <3>4
          <6>4. QED
            BY <6>1, <6>2, <6>3, <3>3
        <5>2. QED
          BY <5>1, <4>1, <3>4 DEF CopiesShareNoRegion
      <4>5. QED
        BY <4>2, <4>3, <4>4
    <3>5. QED
      BY <3>2, <3>4 DEF CopiesShareNoRegion, AreCopies
  <2>3. QED
    BY <2>1, <2>2
<1>3. QED
  BY <1>1, <1>2, RegionsAlwaysAdvance, PTL DEF RegionsSpec
=============================================================================
