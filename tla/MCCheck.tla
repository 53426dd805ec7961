------------------------------- MODULE MCCheck -------------------------------
(***************************************************************************)
(* The check in three parts, each on inputs of its own while the others    *)
(* have nothing to do.                                                     *)
(*   - The duplicated regions of groups of two or three copies in the      *)
(*     checked file and in another one.                                    *)
(*   - The change of small files in a language with closing lines and in   *)
(*     one without.  The limits of NCSS are 2 and 3, the ones of parameters *)
(*     6 and none.                                                         *)
(*   - A run of the command on two files, one of which git ignores until   *)
(*     it is tracked.  The name of the other one starts with the ignored   *)
(*     one's and a colon.                                                  *)
(***************************************************************************)
EXTENDS DuplicatedRegions, ChangeCheck, CheckCommand

CONSTANTS MaxLine, ignored, colon

MCFile == 1
Spans == {s \in (1..MaxLine) \X (1..MaxLine) : s[1] <= s[2]}
SeveralLines == {s \in Spans : s[1] < s[2]}
At(file, span) ==
  [file |-> file, startLine |-> span[1], endLine |-> span[2], lines |-> span[1]..span[2],
   tokens |-> 1 + span[2] - span[1], group |-> 0]
Here(span) == At(MCFile, span)
Elsewhere(span) == At(2, span)

(* Copies share no token, so at most the line where one ends and the next starts. *)
Apart(s, t) == s[2] <= t[1] /\ s # t
Groups(spans) ==
  LET pairs == {p \in spans \X spans : Apart(p[1], p[2])}
  IN {<<Here(s), Elsewhere(s)>> : s \in spans}
     \cup {<<Here(p[1]), Here(p[2])>> : p \in pairs}
     \cup {<<Here(p[1]), Here(p[2]), Elsewhere(p[1])>> : p \in pairs}

(* Copies of one size, whatever lines they are laid out over. *)
OfOneSize(group) ==
  [c \in DOMAIN group |-> [group[c] EXCEPT !.tokens = Max({o.tokens : o \in ToSet(group)})]]
AnyGroups == Groups(Spans) \cup {OfOneSize(g) : g \in Groups(Spans)}

Flattened(groups) ==
  FlattenSeq([g \in DOMAIN groups |->
                [c \in DOMAIN groups[g] |-> [groups[g][c] EXCEPT !.group = g]]])
(* A line is added, and lines below it are deleted. *)
LineAdded ==
  ChangedBy({[headStart |-> 2, headCount |-> 1, deletesDirective |-> FALSE],
             [headStart |-> 4, headCount |-> 0, deletesDirective |-> FALSE]})
MCInputs ==
  {[occurrences |-> Flattened(groups), change |-> c] :
     groups \in UNION {[1..n -> AnyGroups] : n \in 1..2} \cup [1..3 -> Groups(SeveralLines)], c \in {WholeFile, LineAdded}}

-----------------------------------------------------------------------------
MCWarnings == [ncss |-> 2, parameterCount |-> 6, fileNcss |-> 4]
MCErrors == [ncss |-> 3, parameterCount |-> Infinity, fileNcss |-> 6]

Line == [code |-> TRUE, blank |-> FALSE, directive |-> {}, depth |-> 0, opens |-> 0,
         oneLine |-> FALSE, closes |-> FALSE, parameters |-> 0]
Blank == [Line EXCEPT !.code = FALSE, !.blank = TRUE]
Comment == [Line EXCEPT !.code = FALSE]
Directive(covers, metric, max) ==
  [Comment EXCEPT !.directive =
     {[covers |-> covers, metric |-> metric, max |-> max, wellFormed |-> TRUE]}]
Malformed ==
  [Comment EXCEPT !.directive =
     {[covers |-> "function", metric |-> "ncss", max |-> 9, wellFormed |-> FALSE]}]
Statement(depth) == [Line EXCEPT !.depth = depth]
Function(depth, parameters) == [Line EXCEPT !.depth = depth, !.opens = 1, !.parameters = parameters]
Curried(depth, parameters) == [Function(depth, parameters) EXCEPT !.opens = 2]
OneLine(depth, parameters) == [Function(depth, parameters) EXCEPT !.oneLine = TRUE]
End(depth) == [Line EXCEPT !.depth = depth, !.closes = TRUE]

AllowWide == Directive("function", "parameterCount", 8)
AllowLong == Directive("function", "ncss", 9)

Braced(lines) == [lines |-> lines, endsByIndentation |-> FALSE]
Indented(lines) == [lines |-> lines, endsByIndentation |-> TRUE]

MCBases ==
  {Braced(<<AllowWide, Function(0, 8), Statement(1), End(0), Function(0, 8), End(0)>>),
   Braced(<<Directive("file", "ncss", 3), Statement(0), AllowLong, Function(0, 7), Statement(1),
            Function(1, 8), Statement(2), End(1), End(0)>>),
   Braced(<<AllowLong, Curried(0, 7), Statement(1), Statement(1), End(0)>>),
   Indented(<<Directive("file", "parameterCount", 8), Blank, Function(0, 8), Statement(1),
              Statement(1), AllowWide, Blank, Function(0, 8), Statement(1)>>),
   Indented(<<Function(0, 0), Statement(1), Function(1, 8), Statement(2), Statement(1), Comment,
              AllowLong, Comment, Function(0, 7), Statement(1), Comment, Statement(1)>>),
   Indented(<<Function(0, 7), Statement(1), Directive("file", "ncss", 3), Statement(1)>>)}

MCTexts == {Blank, Comment, AllowWide, Malformed, Statement(0), Statement(1), OneLine(0, 8),
            Function(0, 8)}

-----------------------------------------------------------------------------
MCPrefixes == {<<ignored, ignored>>, <<colon, colon>>, <<ignored, colon>>}

-----------------------------------------------------------------------------
NoRegions == occurrences = <<>> /\ change = WholeFile /\ left = {} /\ regions = <<>>

(* Without --base nothing reads the merge base, so one stands for all. *)
BaseMatters == onlyChanges \/ base = [f \in Files |-> Absent]

(* A file that does not parse is not checked. *)
NoChange ==
  /\ baseLines = <<>> /\ endsByIndentation = FALSE /\ lineEdits = MaxLineEdits
  /\ head = <<[text |-> End(0), origin |-> 0]>>

NoRun ==
  /\ tracked = {} /\ base = [f \in Files |-> Absent] /\ work = base /\ failing = {}
  /\ edits = 0 /\ touched = {} /\ onlyChanges = FALSE
  /\ step = "done" /\ seen = <<>> /\ toRead = {}
  /\ measured = <<>> /\ errors = {} /\ hunks = <<>> /\ exitCode = 2

MCInit ==
  \/ RegionsInit /\ NoChange /\ NoRun
  \/ NoRegions /\ FileInit /\ NoRun
  \/ NoRegions /\ NoChange /\ Init /\ BaseMatters

MCNext ==
  \/ RegionsNext /\ UNCHANGED <<fileVars, vars>>
  \/ FileNext /\ UNCHANGED <<regionVars, vars>>
  \/ Next /\ UNCHANGED <<regionVars, fileVars>>

MCSpec == MCInit /\ [][MCNext]_<<regionVars, fileVars, vars>>
=============================================================================
