----------------------------- MODULE LineHunks -----------------------------
(***************************************************************************)
(* The change of a file as the check sees it: hunks of head lines, where a *)
(* pure deletion has none and sits between headStart and the next line.    *)
(***************************************************************************)
EXTENDS Integers

HunkType == [headStart : Nat, headCount : Nat, deletesDirective : BOOLEAN]

(* With whole set the check covers the whole file and hunks are none. *)
ChangeType == [whole : BOOLEAN, hunks : SUBSET HunkType]
WholeFile == [whole |-> TRUE, hunks |-> {}]
ChangedBy(hunks) == [whole |-> FALSE, hunks |-> hunks]

TouchesSpan(hunk, startLine, endLine, endsByIndentation) ==
  IF hunk.headCount = 0
    THEN /\ startLine <= hunk.headStart
         /\ hunk.headStart < endLine \/ (endsByIndentation /\ hunk.headStart = endLine)
    ELSE hunk.headStart <= endLine /\ startLine < hunk.headStart + hunk.headCount

(* Whether the change covers anything of the span. *)
Covers(change, startLine, endLine, endsByIndentation) ==
  change.whole \/ \E h \in change.hunks : TouchesSpan(h, startLine, endLine, endsByIndentation)

AddsTo(change, startLine, endLine) ==
  \/ change.whole
  \/ \E h \in change.hunks : h.headCount > 0 /\ TouchesSpan(h, startLine, endLine, FALSE)
=============================================================================
