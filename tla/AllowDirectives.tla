-------------------------- MODULE AllowDirectives --------------------------
(***************************************************************************)
(* The code-gauge-allow comments of a file (allowDirectives.ts): what they *)
(* allow, and the lines whose change may change that.  A line of a file is *)
(* code, blank or a comment; comments may hold a directive as written.     *)
(***************************************************************************)
EXTENDS Integers, Sequences, FiniteSets, FiniteSetsExt

CONSTANTS FunctionMetrics, FileMetrics

(* covers is "function" for code-gauge-allow and "file" for -allow-file. *)
IsDirectiveLine(line) == line.directive # {}
DirectiveOf(line) == CHOOSE d \in line.directive : TRUE

(* A file directive may name any metric, the other one those of functions. *)
IsValid(written) ==
  /\ written.wellFormed
  /\ written.metric \in FunctionMetrics \/ (written.covers = "file" /\ written.metric \in FileMetrics)

NoFunction == 0
EndOfFile(file) == Len(file.content) + 1
CodeLines(file) == {l \in DOMAIN file.content : file.content[l].code}

(* The next code line, or one past the end of the file. *)
Following(file, line) == Min({l \in CodeLines(file) : l > line} \cup {EndOfFile(file)})

(* Only comments may stand between a directive and its function. *)
NextLine(file, line) ==
  LET following == Following(file, line)
  IN IF \E l \in (line + 1)..(following - 1) : file.content[l].blank THEN EndOfFile(file)
     ELSE following

(* The outermost function starting on the line. *)
FunctionAt(file, line) ==
  LET starting == {f \in DOMAIN file.functions : file.functions[f].startLine = line}
      outermost == {f \in starting : \A g \in starting :
                      file.functions[f].startColumn <= file.functions[g].startColumn}
  IN IF starting = {} THEN NoFunction ELSE Min(outermost)

DirectiveLines(file) ==
  {l \in DOMAIN file.content : ~file.content[l].code /\ IsDirectiveLine(file.content[l])}

(* The function the directive of a line attaches to. *)
TargetOf(file, line) == FunctionAt(file, NextLine(file, line))

Applies(file, line) ==
  LET written == DirectiveOf(file.content[line])
  IN IsValid(written) /\ (written.covers = "file" \/ TargetOf(file, line) # NoFunction)

Directives(file) ==
  {LET written == DirectiveOf(file.content[l])
   IN [line |-> l, metric |-> written.metric, max |-> written.max,
       target |-> IF written.covers = "file" THEN NoFunction ELSE TargetOf(file, l)]
   : l \in {l \in DirectiveLines(file) : Applies(file, l)}}

(* The lines of directives that are malformed or attach to no function. *)
MisplacedLines(file) == {l \in DirectiveLines(file) : ~Applies(file, l)}

AttachmentSpan(file, line) ==
  LET written == DirectiveOf(file.content[line])
      upTo(end, atFunction) ==
        [startLine |-> line, endLine |-> end, endsAtFunction |-> atFunction]
      following == Following(file, line)
  IN IF ~IsValid(written) \/ written.covers = "file" THEN upTo(line, FALSE)
     ELSE IF TargetOf(file, line) # NoFunction
            THEN upTo(file.functions[TargetOf(file, line)].startLine, TRUE)
            ELSE upTo(IF following = EndOfFile(file) THEN Len(file.content) ELSE following, FALSE)

AttachmentSpans(file) == {AttachmentSpan(file, l) : l \in DirectiveLines(file)}
=============================================================================
