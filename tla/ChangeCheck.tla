---------------------------- MODULE ChangeCheck ----------------------------
(***************************************************************************)
(* A file that is edited after its merge base, and the check of what the   *)
(* change touches (checkCommand.ts attachHunks, git.ts listLineHunks):     *)
(* what the check with --base promises, against the checks of the whole    *)
(* file before and after the change.                                       *)
(* The language is any in which functions span lines, and their bodies     *)
(* are deeper than their first line; they end at a closing line or, where  *)
(* indentation ends them, at their last statement.                         *)
(***************************************************************************)
EXTENDS ThresholdCheck, Sequences, SequencesExt

CONSTANTS
  Bases,      \* records of the lines of a base file and endsByIndentation
  Texts,      \* the lines an edit may add
  MaxLineEdits,
  MaxLines

LineType ==
  [code : BOOLEAN, blank : BOOLEAN, depth : Nat, closes : BOOLEAN,
   opens : Nat, oneLine : BOOLEAN, parameters : Nat,
   directive : SUBSET [covers : {"function", "file"}, metric : STRING, max : Nat,
                       wellFormed : BOOLEAN]]

(* Only statements, of the two metrics measured here, nest. *)
ASSUME ChangeAssumption ==
  /\ Bases \subseteq [lines : Seq(LineType), endsByIndentation : BOOLEAN]
  /\ Texts \subseteq LineType
  /\ {"ncss", "parameterCount"} \subseteq FunctionMetrics /\ "parameterCount" \notin NestedInclusive

VARIABLES
  baseLines, endsByIndentation,
  head,       \* the lines of the working tree, each with the base line it is
  lineEdits

fileVars == <<baseLines, endsByIndentation, head, lineEdits>>

Kept(l) == head[l].origin
Unchanged(lines) == [l \in DOMAIN lines |-> [text |-> lines[l], origin |-> l]]

FileInit ==
  /\ \E b \in Bases : baseLines = b.lines /\ endsByIndentation = b.endsByIndentation
  /\ head = Unchanged(baseLines)
  /\ lineEdits = 0

DeleteLine(l) ==
  /\ lineEdits < MaxLineEdits
  /\ head' = RemoveAt(head, l)
  /\ lineEdits' = lineEdits + 1
  /\ UNCHANGED <<baseLines, endsByIndentation>>

AddLine(l, text) ==
  /\ lineEdits < MaxLineEdits /\ Len(head) < MaxLines
  /\ head' = InsertAt(head, l, [text |-> text, origin |-> 0])
  /\ lineEdits' = lineEdits + 1
  /\ UNCHANGED <<baseLines, endsByIndentation>>

FileNext ==
  \/ \E l \in DOMAIN head : DeleteLine(l)
  \/ \E l \in 1..(Len(head) + 1), text \in Texts : AddLine(l, text)
FileSpec == FileInit /\ [][FileNext]_fileVars

-----------------------------------------------------------------------------
(* The measurement of lines of text. *)
CodeOf(lines) == {l \in DOMAIN lines : lines[l].code}
BodyEnd(lines, l) ==
  LET after == {c \in CodeOf(lines) : c > l /\ lines[c].depth <= lines[l].depth}
      next == Min(after \cup {Len(lines) + 1})
  IN IF lines[l].oneLine THEN l
     ELSE IF endsByIndentation THEN Max({c \in CodeOf(lines) : l <= c /\ c < next}) ELSE next

Opening(lines) == {l \in CodeOf(lines) : lines[l].opens > 0}

Opens(lines, l) == lines[l].opens > 0 /\ ~lines[l].oneLine
NextCode(lines, l) == {c \in CodeOf(lines) : c > l /\ ~\E k \in CodeOf(lines) : l < k /\ k < c}

(* Only a function's first line is followed by a deeper one, and it always  *)
(* is where indentation ends functions; elsewhere each has a closing line.  *)
WellFormed(lines) ==
  /\ \A l \in CodeOf(lines) : \A c \in NextCode(lines, l) :
       lines[c].depth <= lines[l].depth + (IF Opens(lines, l) THEN 1 ELSE 0)
  /\ \A l \in CodeOf(lines) : Opens(lines, l) =>
       IF endsByIndentation
         THEN \E c \in NextCode(lines, l) : lines[c].depth = lines[l].depth + 1
         ELSE \E e \in CodeOf(lines) : /\ e = BodyEnd(lines, l) /\ lines[e].closes
                                       /\ lines[e].depth = lines[l].depth
  /\ {l \in CodeOf(lines) : lines[l].closes}
       \subseteq {BodyEnd(lines, l) : l \in {l \in CodeOf(lines) : Opens(lines, l)}}

Statements(lines, from, to) ==
  Cardinality({l \in CodeOf(lines) : from <= l /\ l <= to /\ ~lines[l].closes})

(* Functions that open on one line are nested in one another. *)
FunctionOf(lines, l, nth) ==
  [startLine |-> l, startColumn |-> nth, endLine |-> BodyEnd(lines, l), endColumn |-> 9,
   values |-> [parameterCount |-> lines[l].parameters,
               ncss |-> Statements(lines, l, BodyEnd(lines, l))]]

FunctionPlaces(lines) ==
  SetToSeq({place \in Opening(lines) \X {1, 2} : place[2] <= lines[place[1]].opens})

Measured(lines) ==
  [content |-> lines,
   functions |-> LET places == FunctionPlaces(lines)
                 IN [f \in DOMAIN places |-> FunctionOf(lines, places[f][1], places[f][2])],
   values |-> [fileNcss |-> Cardinality(CodeOf(lines))],
   endsByIndentation |-> endsByIndentation]

-----------------------------------------------------------------------------
(* What git reports between two lines that are kept, or the ends of the file. *)
KeptLines == {0, Len(head) + 1} \cup {l \in DOMAIN head : Kept(l) > 0}
OriginOf(l) == IF l = 0 THEN 0 ELSE IF l > Len(head) THEN Len(baseLines) + 1 ELSE Kept(l)
AreNeighbours(p, q) == p < q /\ ~\E l \in KeptLines : p < l /\ l < q

(* markDeletedDirectives: only a comment-only line of the base file is a directive. *)
DeletesDirective(p, q) ==
  \E b \in (OriginOf(p) + 1)..(OriginOf(q) - 1) : ~baseLines[b].code /\ IsDirectiveLine(baseLines[b])

HunkBetween(p, q) ==
  [headStart |-> IF q = p + 1 THEN p ELSE p + 1, headCount |-> q - p - 1,
   deletesDirective |-> DeletesDirective(p, q)]
LineHunks ==
  UNION {{HunkBetween(p, q) : q \in {q \in KeptLines :
            AreNeighbours(p, q) /\ (q > p + 1 \/ OriginOf(q) > OriginOf(p) + 1)}}
         : p \in KeptLines}

IsPassedByAnchoring(line) == ~line.code /\ ~IsDirectiveLine(line)

(* Variant: deletions stay where git puts them. *)
NotAnchored(hunk) == hunk

(* A deletion below the tail of a function moves up to its last statement. *)
AnchoredToCode(hunk) ==
  IF endsByIndentation /\ hunk.headCount = 0
    THEN [hunk EXCEPT !.headStart =
            Max({0} \cup {l \in 1..@ : ~IsPassedByAnchoring(head[l].text)})]
    ELSE hunk

HeadFile == Measured([l \in DOMAIN head |-> head[l].text])
BaseFile == Measured(baseLines)
Change == ChangedBy({AnchoredToCode(h) : h \in LineHunks})

-----------------------------------------------------------------------------
Parses == WellFormed(HeadFile.content)
CheckedChange == Expanded(HeadFile, Change)

(* README.md:165: "--base only filters the report".  No function the change *)
(* leaves out hides or changes what is reported or allowed of the others,   *)
(* and what is wrong with a directive does not depend on the change (check- *)
(* Thresholds' second check of the file, isReportedByEnclosingFunction).    *)
ChangeFiltersTheReport ==
  Parses =>
    LET file == HeadFile
        change == CheckedChange
        ofFunctions(es) == {e \in es : e.subject # NoFunction}
        touched(es) == {e \in es : e.subject \in CheckedFunctions(file, change)}
    IN /\ ofFunctions(Reported(file, change)) = touched(Reported(file, WholeFile))
       /\ ofFunctions(Allowed(file, change)) = touched(Allowed(file, WholeFile))
       /\ \A d \in Directives(file) :
            ProblemsOf(file, change, d) = ProblemsOf(file, WholeFile, d)

(* Every limit a function exceeds is reported of it or of a function around *)
(* it, or allowed there up to its value; an error is always reported        *)
(* (checkFile, createAllow, isReportedByEnclosingFunction).                 *)
NoExcessIsLost ==
  Parses =>
    LET file == HeadFile
        around(f) == {g \in DOMAIN file.functions :
                        g = f \/ Encloses(file.functions[g], file.functions[f])}
        concerns(e, f, limit) ==
          /\ e.subject \in around(f) /\ e.limit.metric = limit.metric
          /\ e.limit.value >= limit.value
    IN \A f \in DOMAIN file.functions : \A limit \in Exceeded(file.functions[f].values) :
         IF limit.level = "error"
           THEN \E e \in Reported(file, WholeFile) : concerns(e, f, limit) /\ e.limit.level = "error"
           ELSE \E e \in Judged(file, WholeFile) : concerns(e, f, limit)

-----------------------------------------------------------------------------
(* The function of the base file that starts on the line this one starts on. *)
BaseOf(f) ==
  LET fn == HeadFile.functions[f]
  IN {g \in DOMAIN BaseFile.functions :
        /\ BaseFile.functions[g].startLine = Kept(fn.startLine)
        /\ BaseFile.functions[g].startColumn = fn.startColumn}
(* The code lines of a function, numbered. *)
CodeIn(lines, fn) ==
  LET numbers == {l \in fn.startLine..fn.endLine : lines[l].code}
  IN {<<Cardinality({m \in numbers : m <= l}), lines[l]>> : l \in numbers}

HasChanged(f) ==
  \A g \in BaseOf(f) : CodeIn(HeadFile.content, HeadFile.functions[f])
                       # CodeIn(BaseFile.content, BaseFile.functions[g])

(* The code kept next below the function, or the end of the file. *)
KeptBelow(f) ==
  Min({l \in KeptLines : l > HeadFile.functions[f].endLine /\ (l > Len(head) \/ head[l].text.code)})
DeletesCode(p, q) == \E b \in (OriginOf(p) + 1)..(OriginOf(q) - 1) : baseLines[b].code

(* Lines are added below the function, and code down to the one kept below  *)
(* is deleted, or that one is the body of an added function now: to git and *)
(* to anchoring the tail is replaced or moved, and not deleted.             *)
TailIsReplaced(f) ==
  LET fn == HeadFile.functions[f]
      below == KeptBelow(f)
  IN /\ \E l \in (fn.endLine + 1)..(below - 1) : Kept(l) = 0
     /\ \/ DeletesCode(Max({l \in KeptLines : l <= fn.endLine}), below)
        \/ below <= Len(head) /\ head[below].text.depth > head[fn.startLine].text.depth

(* What may have been the tail is deleted below a directive that attaches   *)
(* to nothing, where anchoring leaves the deletion.                         *)
TailHangsBelowADirective(f) ==
  \E l \in (HeadFile.functions[f].endLine + 1)..(KeptBelow(f) - 1) :
    /\ IsDirectiveLine(head[l].text) /\ AttachmentSpan(HeadFile, l).endLine = l
    /\ DeletesCode(l, KeptBelow(f))

(* A function whose code differs from the one of the merge base is checked, *)
(* its last statements deleted included, unless indentation ends it and     *)
(* what is below replaces or hides them (listCheckedFunctions, touchesSpan, *)
(* anchorDeletionsToCode).                                                  *)
ChangedFunctionIsChecked ==
  Parses =>
    \A f \in DOMAIN HeadFile.functions :
      HasChanged(f) =>
        \/ f \in CheckedFunctions(HeadFile, CheckedChange)
        \/ endsByIndentation /\ (TailIsReplaced(f) \/ TailHangsBelowADirective(f))

-----------------------------------------------------------------------------
(* A function's warnings no directive allows, as metric and value. *)
ShownOf(file, f) == {e.limit : e \in {e \in Reported(file, WholeFile) : e.subject = f}}

(* The outermost functions, which only their own directives concern. *)
Outermost(file) ==
  {f \in DOMAIN file.functions :
     ~\E g \in DOMAIN file.functions : g # f /\ Encloses(file.functions[g], file.functions[f])}

(* An outermost function the change leaves alone and that is newly reported. *)
NewlyShown(f) ==
  /\ f \in Outermost(HeadFile) /\ ~HasChanged(f)
  /\ \E g \in BaseOf(f) : /\ g \in Outermost(BaseFile)
                          /\ ~(ShownOf(HeadFile, f) \subseteq ShownOf(BaseFile, g))

(* A function that was put between a directive and the function it allowed. *)
TargetIsAdded ==
  \E d \in Directives(HeadFile) :
    /\ d.target # NoFunction /\ Kept(d.line) > 0
    /\ Kept(HeadFile.functions[d.target].startLine) = 0

(* When a change makes a directive allow less, by moving, editing, deleting *)
(* or detaching it, the functions it allowed are checked although the       *)
(* change leaves them alone, unless the directive found a function the      *)
(* change added (expandHunks, attachmentSpans, markDeletedDirectives).      *)
LostAllowancesAreChecked ==
  (Parses /\ ~TargetIsAdded) =>
    \A f \in DOMAIN HeadFile.functions :
      NewlyShown(f) => f \in CheckedFunctions(HeadFile, CheckedChange)

(* thresholdCheck.ts:170-172: "when the change touches a directive (it      *)
(* changes or deletes lines of a directive's attachment span, or deletes a  *)
(* directive), the whole file: such a change may alter what any directive   *)
(* of the file allows".                                                     *)
DetachedFunctionIsChecked ==
  Parses =>
    \A f \in DOMAIN HeadFile.functions :
      NewlyShown(f) => f \in CheckedFunctions(HeadFile, CheckedChange)
=============================================================================
