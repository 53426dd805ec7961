------------------------- MODULE DuplicateSelection -------------------------
(***************************************************************************)
(* selectMaximalGroups of src/src/duplicateSelection.ts and its port       *)
(* select_maximal_duplicates of src/native/src/duplication.rs: out of all  *)
(* repeated regions, choose groups of copies that do not overlap.          *)
(*                                                                         *)
(* A pass visits the candidates one by one, best coverage first.  Groups   *)
(* that end up with too few copies are shed and the passes rerun.  "files" *)
(* is the rule of the cross-file detector, "copies" that of the native,    *)
(* within-file one.                                                        *)
(***************************************************************************)
EXTENDS Integers, Sequences, FiniteSets

CONSTANT Inputs   \* the calls: candidates, a rule and maxSelectionRerunCount

(* pos is the candidate's place in the list handed over.  Equal texts      *)
(* (fingerprints) are equal token sequences.                               *)
IsCandidate(c) ==
  /\ c.start \in Nat /\ c.end \in Nat /\ c.start < c.end
  /\ c.size \in Nat /\ c.pos \in Nat /\ c.file \in Nat

ASSUME SelectionAssumption ==
  \A in \in Inputs :
    /\ in.rule \in {"files", "copies"}
    /\ in.rerunCap \in Nat
    /\ \A c \in in.candidates : IsCandidate(c)

VARIABLES
  step,        \* where the algorithm is
  rule,        \* isSurvivingGroup
  rerunCap,    \* maxSelectionRerunCount
  duplicates,  \* the candidates of the groups that were not shed
  ranking,     \* the order duplicates was sorted into
  rest,        \* those the running pass has still to visit
  leftOver,    \* leftOver
  kept,        \* keptRegionsByBucket: the standalone copies of the counted groups
  nested,      \* copies with nestedInLargerGroup set
  order,       \* the candidates kept in this run, in the order they were kept
  blockers,    \* blockersByFingerprint, as pairs of texts
  rerun,       \* rerun
  shed         \* history: the candidates of the groups that were shed

selectionVars == <<step, rule, rerunCap, duplicates, ranking, rest, leftOver, kept, nested, order, blockers, rerun, shed>>

Steps == {"first", "second", "judge", "drop", "selected"}

-----------------------------------------------------------------------------
Overlap(c, d)  == c.file = d.file /\ c.start < d.end /\ d.start < c.end
Inside(c, d)   == c.file = d.file /\ d.start <= c.start /\ c.end <= d.end
Straddle(c, d) == Overlap(c, d) /\ ~Inside(c, d) /\ ~Inside(d, c)

TextsOf(cs)     == {c.text : c \in cs}
Copies(cs, t)   == {c \in cs : c.text = t}
LiesInKept(c)   == \E k \in kept : Inside(c, k)

Survives(r, group) ==
  /\ Cardinality(group) >= 2
  /\ r = "files" => \E c, d \in group : c.file # d.file

(* dedupeByRegion: of the candidates of one text and region, the first. *)
Deduped(cs) ==
  {c \in cs : \A d \in cs :
     (d.text = c.text /\ d.file = c.file /\ d.start = c.start /\ d.end = c.end) => c.pos <= d.pos}

Surviving(r, cs) == {c \in cs : Survives(r, Copies(cs, c.text))}

(* The greedy order: coverage, then for the cross-file rule file and start, *)
(* and for what is equal still the order of the groups and of the list.     *)
Ranking(r, cs) ==
  LET ranked == {[c |-> c, coverage |-> c.size * Cardinality(Copies(cs, c.text)),
                  group |-> CHOOSE p \in {d.pos : d \in Copies(cs, c.text)} :
                              \A d \in Copies(cs, c.text) : p <= d.pos] : c \in cs}
      listedBefore(x, y) ==
        \/ x.group < y.group
        \/ x.group = y.group /\ x.c.pos < y.c.pos
      positionedBefore(x, y) ==
        \/ x.c.file < y.c.file
        \/ x.c.file = y.c.file /\ x.c.start < y.c.start
        \/ x.c.file = y.c.file /\ x.c.start = y.c.start /\ listedBefore(x, y)
      precedes(x, y) ==
        \/ x.coverage > y.coverage
        \/ /\ x.coverage = y.coverage
           /\ IF r = "files" THEN positionedBefore(x, y) ELSE listedBefore(x, y)
      rank(x) == Cardinality({y \in ranked : precedes(y, x)})
  IN  [c \in cs |-> rank(CHOOSE x \in ranked : x.c = c)]

IsNext(c) == c \in rest /\ \A d \in rest : ranking[c] <= ranking[d]

-----------------------------------------------------------------------------
(* The start of a pass over the candidates in play. *)
StartRun(cs) ==
  /\ step' = "first"
  /\ duplicates' = cs
  /\ rest' = cs
  /\ leftOver' = {}
  /\ kept' = {}
  /\ nested' = {}
  /\ order' = <<>>
  /\ blockers' = {}

Called(in) ==
  /\ step = "first"
  /\ rule = in.rule
  /\ rerunCap = in.rerunCap
  /\ \E cs \in {Deduped(in.candidates)} : duplicates = Surviving(in.rule, cs)
  /\ ranking = Ranking(in.rule, duplicates)
  /\ rest = duplicates
  /\ leftOver = {}
  /\ kept = {}
  /\ nested = {}
  /\ order = <<>>
  /\ blockers = {}
  /\ rerun = 0
  /\ shed = {}

Init == \E in \in Inputs : Called(in)

(* Variant: any overlap counts as lying inside. *)
NestOverlapping(c) ==
  /\ \E k \in kept : Overlap(c, k)
  /\ nested' = nested \cup {c}
  /\ UNCHANGED <<leftOver, kept, order, blockers>>

(* A copy inside a kept region belongs to it as a nested copy, in either pass. *)
Nest(c) ==
  /\ LiesInKept(c)
  /\ nested' = nested \cup {c}
  /\ UNCHANGED <<leftOver, kept, order, blockers>>

LeaveOver(c, newBlockers) ==
  /\ leftOver' = leftOver \cup {c}
  /\ blockers' = blockers \cup newBlockers
  /\ UNCHANGED <<kept, nested, order>>

Visited(c) ==
  /\ rest' = rest \ {c}
  /\ UNCHANGED <<step, rule, rerunCap, duplicates, ranking, rerun, shed>>

(* Variant: a candidate is left over only when it straddles a kept region. *)
VisitFirstStraddling(c) ==
  /\ step = "first"
  /\ IsNext(c)
  /\ \/ Nest(c)
     \/ /\ ~LiesInKept(c)
        /\ \E k \in kept : Straddle(c, k)
        /\ LeaveOver(c, {})
     \/ /\ ~LiesInKept(c)
        /\ ~\E k \in kept : Straddle(c, k)
        /\ kept' = kept \cup {c}
        /\ order' = Append(order, c)
        /\ UNCHANGED <<leftOver, nested, blockers>>
  /\ Visited(c)

(* The first pass keeps what overlaps no kept region. *)
VisitFirst(c) ==
  /\ step = "first"
  /\ IsNext(c)
  /\ \/ Nest(c)
     \/ /\ ~LiesInKept(c)
        /\ \E k \in kept : Overlap(c, k)
        /\ LeaveOver(c, {})
     \/ /\ ~\E k \in kept : Overlap(c, k)
        /\ kept' = kept \cup {c}
        /\ order' = Append(order, c)
        /\ UNCHANGED <<leftOver, nested, blockers>>
  /\ Visited(c)

EndFirst ==
  /\ step = "first"
  /\ rest = {}
  /\ step' = "second"
  /\ rest' = leftOver
  /\ leftOver' = {}
  /\ UNCHANGED <<rule, rerunCap, duplicates, ranking, kept, nested, order, blockers, rerun, shed>>

(* The kept region the loop over them meets first. *)
FirstKept(regions) ==
  LET at(k) == CHOOSE i \in 1..Len(order) : order[i] = k
  IN  CHOOSE k \in regions : \A l \in regions \ {k} : at(k) < at(l)

(* The kept copies of smaller groups that c encloses give way to it. *)
Enclose(c) ==
  LET enclosed == {k \in kept : Inside(k, c)}
  IN  /\ kept' = (kept \ enclosed) \cup {c}
      /\ nested' = nested \cup enclosed

(* Variant: a candidate that straddles a kept region is tried again. *)
VisitSecondRetrying(c) ==
  /\ step = "second"
  /\ IsNext(c)
  /\ LET straddled == {k \in kept : Straddle(c, k)}
     IN  \/ Nest(c) /\ Visited(c)
         \/ /\ ~LiesInKept(c)
            /\ straddled # {}
            /\ UNCHANGED selectionVars
         \/ /\ ~LiesInKept(c)
            /\ straddled = {}
            /\ Enclose(c)
            /\ order' = Append(order, c)
            /\ UNCHANGED <<leftOver, blockers>>
            /\ Visited(c)

(* The second pass lets a candidate take the place of the kept copies it   *)
(* encloses unless it straddles another.                                   *)
VisitSecond(c) ==
  /\ step = "second"
  /\ IsNext(c)
  /\ LET straddled == {k \in kept : Straddle(c, k)}
     IN  \/ Nest(c)
         \/ /\ ~LiesInKept(c)
            /\ straddled # {}
            /\ LeaveOver(c, {<<c.text, FirstKept(straddled).text>>})
         \/ /\ ~LiesInKept(c)
            /\ straddled = {}
            /\ Enclose(c)
            /\ order' = Append(order, c)
            /\ UNCHANGED <<leftOver, blockers>>
  /\ Visited(c)

(* Variant: who straddled a region stays out although it lies inside another by now. *)
NestedInTheEndNever == {}

NestedInTheEnd == {c \in leftOver : LiesInKept(c)}

(* The end of a run: nested copies join the groups with a standalone copy, *)
(* and the groups without one are dropped.                                 *)
EndSecond ==
  /\ step = "second"
  /\ rest = {}
  /\ step' = "judge"
  /\ nested' = {c \in nested \cup NestedInTheEnd : c.text \in TextsOf(kept)}
  /\ UNCHANGED <<rule, rerunCap, duplicates, ranking, rest, leftOver, kept, order, blockers, rerun, shed>>

-----------------------------------------------------------------------------
Reported(t) == Copies(kept \cup nested, t)

Failed == {t \in TextsOf(kept) : ~Survives(rule, Reported(t))}

BlockedByFailed(t) == \E other \in Failed \ {t} : <<t, other>> \in blockers

(* The place of a group in the insertion order of counted. *)
CountedAt(t) ==
  CHOOSE i \in 1..Len(order) : order[i].text = t /\ \A j \in 1..(i - 1) : order[j].text # t

(* t is shed rather than u: unblocked groups first, then larger ones, then *)
(* the one counted first.                                                  *)
ShedBefore(t, u) ==
  LET size(x) == (CHOOSE c \in duplicates : c.text = x).size
  IN  IF BlockedByFailed(t) # BlockedByFailed(u) THEN BlockedByFailed(u)
      ELSE IF size(t) # size(u) THEN size(t) > size(u)
      ELSE CountedAt(t) < CountedAt(u)

LargestFailed == CHOOSE t \in Failed : \A u \in Failed \ {t} : ShedBefore(t, u)

(* One group at a time, and past the cap all of them. *)
Shed == IF rerun < rerunCap THEN {LargestFailed} ELSE Failed

Rerun ==
  /\ step = "judge"
  /\ Failed # {}
  /\ rerun < 2 * rerunCap
  /\ StartRun({c \in duplicates : c.text \notin Shed})
  /\ rerun' = rerun + 1
  /\ shed' = shed \cup {c \in duplicates : c.text \in Shed}
  /\ UNCHANGED <<rule, rerunCap, ranking>>

Accept ==
  /\ step = "judge"
  /\ Failed = {}
  /\ step' = "selected"
  /\ UNCHANGED <<rule, rerunCap, duplicates, ranking, rest, leftOver, kept, nested, order, blockers, rerun, shed>>

GiveUp ==
  /\ step = "judge"
  /\ Failed # {}
  /\ rerun >= 2 * rerunCap
  /\ step' = "drop"
  /\ UNCHANGED <<rule, rerunCap, duplicates, ranking, rest, leftOver, kept, nested, order, blockers, rerun, shed>>

(* Variant: failed groups are dropped once, whatever this does to others. *)
DropFailedOnce ==
  LET gone == {t \in TextsOf(kept \cup nested) : ~Survives(rule, Reported(t)) \/ t \notin TextsOf(kept)}
  IN  /\ step = "drop"
      /\ kept' = {c \in kept : c.text \notin gone}
      /\ nested' = {c \in nested : c.text \notin gone /\ \E k \in kept' : Inside(c, k)}
      /\ step' = "selected"
      /\ UNCHANGED <<rule, rerunCap, duplicates, ranking, rest, leftOver, order, blockers, rerun, shed>>

(* dropFailedGroups: one turn of its loop, which ends when nothing changes. *)
DropFailedGroups ==
  LET gone == {t \in TextsOf(kept \cup nested) : ~Survives(rule, Reported(t)) \/ t \notin TextsOf(kept)}
  IN  /\ step = "drop"
      /\ kept' = {c \in kept : c.text \notin gone}
      /\ nested' = {c \in nested : c.text \notin gone /\ \E k \in kept' : Inside(c, k)}
      /\ step' = IF kept' = kept /\ nested' = nested THEN "selected" ELSE "drop"
      /\ UNCHANGED <<rule, rerunCap, duplicates, ranking, rest, leftOver, order, blockers, rerun, shed>>

SelectionNext ==
  \/ \E c \in rest : VisitFirst(c) \/ VisitSecond(c)
  \/ EndFirst \/ EndSecond
  \/ Rerun \/ Accept \/ GiveUp \/ DropFailedGroups

Safety == Init /\ [][SelectionNext]_selectionVars
Spec   == Safety /\ WF_selectionVars(SelectionNext)

-----------------------------------------------------------------------------
(* Every candidate in play is in exactly one place: still to visit, left    *)
(* over, kept, or nested, and none is lost on the way to the end of a run.  *)
TypeOK ==
  /\ step \in Steps /\ rerun \in Nat /\ rule \in {"files", "copies"}
  /\ \A c \in duplicates : IsCandidate(c)
  /\ rest \cup leftOver \cup kept \cup nested \subseteq duplicates
  /\ rest \cap (leftOver \cup kept \cup nested) = {}
  /\ leftOver \cap kept = {}
  /\ kept \cap nested = {}
  /\ step \in {"first", "second"} => duplicates = rest \cup leftOver \cup kept \cup nested

(* Kept regions never overlap, although a larger clone may take the place   *)
(* of smaller ones and others are visited after it ("keeping kept regions   *)
(* mutually non-overlapping"): lines would be counted for two groups.       *)
KeptRegionsAreDisjoint ==
  \A c, d \in kept : c # d => ~Overlap(c, d)

(* A copy is only reported as nested while a standalone copy covers its     *)
(* span: otherwise no group would count it.  Enclosing regions replace the  *)
(* host of a copy, and dropped groups take hosts away.                      *)
NestedCopiesAreCovered ==
  \A c \in nested : LiesInKept(c)

(* What a run leaves out overlaps something it kept: nothing free is lost,  *)
(* however the kept regions were replaced since.                           *)
NothingFreeIsLeftOver ==
  step \in {"first", "second", "judge"} =>
    \A c \in leftOver : \E k \in kept : Overlap(c, k)

(* "Containment must not depend on the greedy order": in the end every      *)
(* candidate inside a kept region whose group has a standalone copy is      *)
(* reported with its group.                                                *)
ContainedCopiesAreReported ==
  step = "judge" =>
    \A c \in duplicates : LiesInKept(c) /\ c.text \in TextsOf(kept) => c \in kept \cup nested

(* A selected group has enough copies, in two files where that is the rule, *)
(* and one of them stands by itself; also after groups were dropped, which  *)
(* takes copies from other groups.                                         *)
SelectedGroupsSurvive ==
  step = "selected" =>
    \A t \in TextsOf(kept \cup nested) : t \in TextsOf(kept) /\ Survives(rule, Reported(t))

(* Shedding one group at a time, unblocked ones first, sheds no group that   *)
(* could be reported beside what was selected in the end: its copies all    *)
(* overlap selected ones, or too few do not.                               *)
NothingShedIsFree ==
  step = "selected" /\ rerun <= rerunCap =>
    \A t \in TextsOf(shed) :
      ~Survives(rule, {c \in Copies(shed, t) : \A k \in kept : ~Overlap(c, k)})

(* Whatever is not reported has to give way to something that is: a copy   *)
(* to a kept region, a group that was shed to selected ones.               *)
NothingIsLost ==
  NothingFreeIsLeftOver /\ ContainedCopiesAreReported /\ NothingShedIsFree

(* However groups rescue and block one another, the selection ends.         *)
SelectionEnds == <>(step = "selected")
=============================================================================
