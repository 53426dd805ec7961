----------------------------- MODULE CloneGroups -----------------------------
(***************************************************************************)
(* The exact and gapped groups of clones: the selection of maximal groups  *)
(* (DuplicateSelection) followed by the merging of adjacent ones           *)
(* (GapMerging), as measureCrossFileDuplication of                         *)
(* src/src/crossFileDuplication.ts and measure_duplication of              *)
(* src/native/src/duplication.rs put them together.  The near-miss groups  *)
(* that follow are not part of it.                                         *)
(***************************************************************************)
EXTENDS DuplicateSelection, GapMerging

(* The list names no candidate twice, candidates lie within their files, and *)
(* equal texts, being equal sequences of tokens, are equally long.          *)
ASSUME CandidatesAssumption ==
  \A in \in Inputs :
    /\ in.lengths \in Seq(Nat) /\ IsFiniteSet(in.candidates)
    /\ \A c \in in.candidates : c.file \in DOMAIN in.lengths /\ c.end <= in.lengths[c.file]
    /\ \A c, d \in in.candidates :
         /\ c.pos = d.pos => c = d
         /\ c.text = d.text => c.end - c.start = d.end - d.start

VARIABLE lengths   \* by file: how many tokens it has; never changes

cloneVars == <<selectionVars, mergingVars, lengths>>

(* mergeGapAdjacentGroups, to_counted_groups: the copies in the project's   *)
(* token indices, sorted within their group; groups in the order counted.  *)
ToOccurrence(c) ==
  LET offset == TokenOffsets(lengths)[c.file]
  IN  Occurrence(c.file, c.start + offset, c.end + offset, c.size, c \in nested)

CountedTexts == Arranged(TextsOf(kept), LAMBDA t, u : CountedAt(t) < CountedAt(u))

CountedGroups ==
  [i \in DOMAIN CountedTexts |->
     SortedOccurrences({ToOccurrence(c) : c \in Reported(CountedTexts[i])})]

CloneInit ==
  /\ \E in \in Inputs : Called(in) /\ lengths = in.lengths
  /\ MergingInit

SelectGroups ==
  /\ SelectionNext
  /\ UNCHANGED <<mergingVars, lengths>>

MergeGroups ==
  /\ step = "selected"
  /\ StartMerging(CountedGroups, rule = "files") \/ MergeNext \/ NothingMerges
  /\ UNCHANGED <<selectionVars, lengths>>

Finished == merging = "merged" /\ UNCHANGED cloneVars

CloneNext == SelectGroups \/ MergeGroups \/ Finished

CloneSpec == CloneInit /\ [][CloneNext]_cloneVars /\ WF_cloneVars(SelectGroups)

-----------------------------------------------------------------------------

Tokens(o)      == UNION {segment[1]..(segment[2] - 1) : segment \in ToSet(o.segments)}
GroupTokens(g) == UNION {Tokens(o) : o \in ToSet(g)}
Covered        == UNION {GroupTokens(g) : g \in ToSet(groups)}

(* "No token span contributes to the count twice": whatever groups were     *)
(* merged, kept beside the merged group or nested in others, no token is in *)
(* the segments of two copies that are counted.                            *)
SpansCountedOnce ==
  \A g, h \in DOMAIN groups : \A i \in DOMAIN groups[g], j \in DOMAIN groups[h] :
    /\ g # h \/ i # j
    /\ ~groups[g][i].shared /\ ~groups[h][j].shared
    => Tokens(groups[g][i]) \cap Tokens(groups[h][j]) = {}

(* A gapped copy lies within one file, in spite of the single index space.  *)
CopiesStayInTheirFile ==
  \A g \in ToSet(groups) : \A o \in ToSet(g) :
    LET offset == TokenOffsets(lengths)[o.file]
    IN  offset <= o.start /\ o.end <= offset + lengths[o.file]

(* "Merged spans never overlap": the standalone copies of one group, gaps   *)
(* included, are apart.                                                    *)
CopiesOfAGroupAreApart ==
  \A g \in ToSet(groups) : \A i, j \in DOMAIN g :
    i < j /\ ~g[i].nested /\ ~g[j].nested => g[i].end <= g[j].start \/ g[j].end <= g[i].start

(* Merging never makes a group report less than it has to: two copies, in   *)
(* two files where that is the rule.                                       *)
GroupsStayReportable ==
  \A g \in ToSet(groups) :
    Len(g) >= 2 /\ (spanFiles => \E o, p \in ToSet(g) : o.file # p.file)

(* What merging makes of groups is still what the rule reports, made of     *)
(* real stretches of one file each, apart from each other and counted once. *)
MergedGroupsAreSound ==
  /\ SpansCountedOnce
  /\ CopiesStayInTheirFile /\ CopiesOfAGroupAreApart
  /\ GroupsStayReportable

(* "Every other pair fails mergeGroups, so skipping it leaves the fixpoint  *)
(* unchanged."                                                             *)
SkippedPairsDoNotMerge ==
  \A l, r \in DOMAIN groups : l < r /\ ~Partners(l, r) => ~MergesEitherWay(l, r)

(* "The number of pairable occurrences strictly decreases with every        *)
(* merge", which is why the loop ends; and "line coverage must not shrink":  *)
(* what a merge replaces stays covered.                                    *)
PairablePlaces ==
  UNION {{g} \X {i \in DOMAIN groups[g] : Pairable(groups[g][i])} : g \in DOMAIN groups}

PairableCount == Cardinality(PairablePlaces)

MergesShrinkTheWork ==
  [][MergeNext => PairableCount' < PairableCount /\ Covered \subseteq Covered']_cloneVars

(* The selection reaches its result and each merge brings the end closer. *)
CloneSearchEnds == SelectionEnds /\ MergesShrinkTheWork
=============================================================================
