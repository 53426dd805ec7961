--------------------------- MODULE ThresholdCheck ---------------------------
(***************************************************************************)
(* The check of one file against the limits (thresholdCheck.ts): the       *)
(* limits its functions and the file itself exceed, those directives       *)
(* allow, and the directives that are of no use.  Duplicated regions are   *)
(* in DuplicatedRegions.  A file is a record of its content (lines), its   *)
(* functions, its values of the file metrics and endsByIndentation.        *)
(***************************************************************************)
EXTENDS AllowDirectives, LineHunks

CONSTANTS
  NestedInclusive,  \* the metrics that count nested functions in
  WarningLimits,    \* by metric
  ErrorLimits,
  Infinity          \* the limit of a level that is off

ASSUME LimitsAssumption ==
  \A m \in FunctionMetrics \cup FileMetrics :
    {WarningLimits[m], ErrorLimits[m]} \subseteq Nat \cup {Infinity}

Encloses(outer, inner) ==
  /\ \/ outer.startLine < inner.startLine
     \/ outer.startLine = inner.startLine /\ outer.startColumn <= inner.startColumn
  /\ \/ inner.endLine < outer.endLine
     \/ inner.endLine = outer.endLine /\ inner.endColumn <= outer.endColumn

Exceeds(value, limit) == limit # Infinity /\ value > limit

(* The most severe violated limit of each metric. *)
LevelOf(metric, value) ==
  IF Exceeds(value, ErrorLimits[metric]) THEN "error"
  ELSE IF Exceeds(value, WarningLimits[metric]) THEN "warning" ELSE "none"
Exceeded(values) ==
  {[metric |-> m, value |-> values[m], level |-> LevelOf(m, values[m])] :
     m \in {m \in DOMAIN values : LevelOf(m, values[m]) # "none"}}

(* Variant: a deletion right above the first line of the target counts too. *)
ExpandedAtFunction(file, change) ==
  IF ~change.whole /\ \E h \in change.hunks :
       h.deletesDirective \/ \E s \in AttachmentSpans(file) :
         TouchesSpan(h, s.startLine, s.endLine - 1, FALSE)
    THEN ChangedBy({[headStart |-> 1, headCount |-> Len(file.content), deletesDirective |-> FALSE]})
    ELSE change

(* A change that touches a directive is one of the whole file; an edit of *)
(* a function's first line touches the function only.                     *)
Expanded(file, change) ==
  IF ~change.whole /\ \E h \in change.hunks :
       h.deletesDirective \/ \E s \in AttachmentSpans(file) :
         TouchesSpan(h, s.startLine,
                     IF h.headCount > 0 /\ s.endsAtFunction THEN s.endLine - 1 ELSE s.endLine, FALSE)
    THEN ChangedBy({[headStart |-> 1, headCount |-> Len(file.content), deletesDirective |-> FALSE]})
    ELSE change

CheckedFunctions(file, change) ==
  {f \in DOMAIN file.functions :
     Covers(change, file.functions[f].startLine, file.functions[f].endLine, file.endsByIndentation)}

(* Variant: any function that exceeds the limit reports for those in it. *)
ReportedByAnyEnclosing(file, checked, f, metric) ==
  \E g \in checked : /\ g # f /\ Encloses(file.functions[g], file.functions[f])
                     /\ metric \in {e.metric : e \in Exceeded(file.functions[g].values)}

(* The enclosing function's value covers the nested one's. *)
ReportedByEnclosing(file, checked, f, metric) ==
  /\ metric \in NestedInclusive
  /\ \E g \in checked : /\ g # f /\ Encloses(file.functions[g], file.functions[f])
                        /\ metric \in {e.metric : e \in Exceeded(file.functions[g].values)}

FileExcesses(file, change) ==
  IF ~change.whole /\ change.hunks = {} THEN {}
  ELSE {[subject |-> NoFunction, limit |-> e] : e \in Exceeded(file.values)}

FunctionExcesses(file, change) ==
  LET checked == CheckedFunctions(file, change)
  IN UNION {{[subject |-> f, limit |-> e] :
               e \in {e \in Exceeded(file.functions[f].values) :
                        ~ReportedByEnclosing(file, checked, f, e.metric)}} : f \in checked}

(* What a check of the change puts before the directives. *)
Judged(file, change) == FileExcesses(file, change) \cup FunctionExcesses(file, change)

(* A directive for a function covers the functions nested in it. *)
CoversSubject(file, directive, subject) ==
  \/ directive.target = NoFunction
  \/ /\ subject # NoFunction
     /\ \/ directive.target = subject
        \/ Encloses(file.functions[directive.target], file.functions[subject])

Applying(file, excess) ==
  {d \in Directives(file) :
     d.metric = excess.limit.metric /\ CoversSubject(file, d, excess.subject)}

Allowing(file, excess) ==
  IF excess.limit.level = "warning"
    THEN {d \in Applying(file, excess) : excess.limit.value <= d.max}
    ELSE {}

Reported(file, change) == {e \in Judged(file, change) : Allowing(file, e) = {}}
Allowed(file, change) == Judged(file, change) \ Reported(file, change)

(* Variant: what the change leaves alone uses no directive. *)
JudgedForUsageOfChange(file, change) == Judged(file, change)

(* What the change does not touch may use a directive too. *)
JudgedForUsage(file, change) == Judged(file, change) \cup Judged(file, WholeFile)

Used(file, change) == UNION {Allowing(file, e) : e \in JudgedForUsage(file, change)}
Outgrown(file, change) ==
  UNION {{d \in Applying(file, e) \ Allowing(file, e) : e.limit.value > d.max} :
           e \in JudgedForUsage(file, change)}

AllowsErrors(directive) == Exceeds(directive.max, ErrorLimits[directive.metric])

ProblemsOf(file, change, d) ==
  (IF AllowsErrors(d) THEN {"allows errors"} ELSE {})
  \cup (IF d \in Outgrown(file, change) THEN {"outgrown"}
        ELSE IF d \notin Used(file, change) /\ ~AllowsErrors(d) THEN {"unused"} ELSE {})

(* The lines a directive's problem is about. *)
ProblemIsTouched(file, change, d) ==
  IF d.target = NoFunction
    THEN Covers(change, 1, Len(file.content), FALSE)
    ELSE Covers(change, d.line, file.functions[d.target].endLine, FALSE)

DirectiveProblems(file, change) ==
  {[line |-> l, problem |-> "misplaced"] :
     l \in {l \in MisplacedLines(file) : Covers(change, l, l, FALSE)}}
  \cup UNION {{[line |-> d.line, problem |-> p] : p \in ProblemsOf(file, change, d)} :
                d \in {d \in Directives(file) : ProblemIsTouched(file, change, d)}}
=============================================================================
