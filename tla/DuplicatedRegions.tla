-------------------------- MODULE DuplicatedRegions --------------------------
(***************************************************************************)
(* The duplicated regions of a checked file (thresholdCheck.ts             *)
(* collectDuplicationViolations): the reported occurrences of its clone    *)
(* groups merge, in the order of their first lines, into regions; copies   *)
(* of one group stay apart, and a region lists where its copies are.       *)
(***************************************************************************)
EXTENDS LineHunks, Sequences, FiniteSets, FiniteSetsExt

CONSTANTS
  Inputs,                \* records of the occurrences of all groups and the change
  ThisFile,              \* the file that is checked
  MinLines,              \* the duplicated lines from which on an occurrence is reported
  MinSimilarityPercent   \* of a block's tokens a copy of it holds

VARIABLES
  occurrences,  \* by their place in the flattened groups
  change,
  left,         \* the reported occurrences still to merge
  regions

regionVars == <<occurrences, change, left, regions>>

OccurrenceType ==
  [file : Nat, startLine : Nat, endLine : Nat, lines : SUBSET Nat, tokens : Nat, group : Nat]
IsInput(input) ==
  /\ IsFiniteSet(DOMAIN input.occurrences) /\ DOMAIN input.occurrences \subseteq Nat
  /\ \A i \in DOMAIN input.occurrences :
       LET o == input.occurrences[i] IN o \in OccurrenceType /\ o.startLine <= o.endLine
ASSUME InputAssumption == \A input \in Inputs : IsInput(input)

ContainsLocation(outer, inner) ==
  outer.file = inner.file /\ outer.startLine <= inner.startLine /\ inner.endLine <= outer.endLine
Overlaps(one, other) ==
  /\ one.file = other.file
  /\ one.startLine <= other.endLine /\ other.startLine <= one.endLine

(* One lying within another repeats a part of it. *)
AreCopies(i, j) ==
  LET o == occurrences[i]
      p == occurrences[j]
  IN o.group = p.group /\ ~ContainsLocation(o, p) /\ ~ContainsLocation(p, o)

IsReported(o) ==
  /\ o.file = ThisFile
  /\ Cardinality(o.lines) >= MinLines
  /\ AddsTo(change, o.startLine, o.endLine)

RegionsInit ==
  /\ \E input \in Inputs : occurrences = input.occurrences /\ change = input.change
  /\ left = {i \in DOMAIN occurrences : IsReported(occurrences[i])}
  /\ regions = <<>>

Before(i, j) ==
  \/ occurrences[i].startLine < occurrences[j].startLine
  \/ occurrences[i].startLine = occurrences[j].startLine /\ i <= j

LastRegion == regions[Len(regions)]

(* Variant: only copies decide, whatever block the location lies in. *)
JoinsUnlessCopy(i) ==
  /\ regions # <<>> /\ Overlaps(LastRegion, occurrences[i])
  /\ ~\E s \in LastRegion.sources : AreCopies(s, i)

(* Variant: copies that overlap merge like any other blocks. *)
JoinsAny(i) == regions # <<>> /\ Overlaps(LastRegion, occurrences[i])

(* A block containing the location holds it whatever it is a copy of. *)
Joins(i) ==
  /\ regions # <<>> /\ Overlaps(LastRegion, occurrences[i])
  /\ \/ \E s \in LastRegion.sources : ContainsLocation(occurrences[s], occurrences[i])
     \/ ~\E s \in LastRegion.sources : AreCopies(s, i)

LaterEnd(one, other) == IF one < other THEN other ELSE one

Joined(region, i) ==
  [region EXCEPT !.endLine = LaterEnd(@, occurrences[i].endLine), !.sources = @ \cup {i}]
Opened(i) ==
  [file |-> ThisFile, startLine |-> occurrences[i].startLine,
   endLine |-> occurrences[i].endLine, sources |-> {i}]

MergeNext(i) ==
  /\ i \in left /\ \A j \in left : Before(i, j)
  /\ left' = left \ {i}
  /\ regions' =
       IF Joins(i) THEN [regions EXCEPT ![Len(regions)] = Joined(@, i)]
                   ELSE Append(regions, Opened(i))
  /\ UNCHANGED <<occurrences, change>>

RegionsNext == \E i \in left : MergeNext(i)
RegionsSpec == RegionsInit /\ [][RegionsNext]_regionVars

-----------------------------------------------------------------------------
(* Lines that overlapping occurrences share count once. *)
DuplicatedLines(region) == UNION {occurrences[s].lines : s \in region.sources}

(* A copy of a source within a larger one is measured against the larger one. *)
MeasuredTokens(region, source) ==
  Max({occurrences[s].tokens :
         s \in {s \in region.sources : ContainsLocation(occurrences[s], occurrences[source])}})

(* Variant: one that reaches into the region's lines is inside it. *)
CopiesBeside(region, percent) ==
  {c \in DOMAIN occurrences :
     /\ \E s \in region.sources :
          /\ occurrences[c].group = occurrences[s].group
          /\ occurrences[c].tokens * 100 >= MeasuredTokens(region, s) * percent
     /\ ~Overlaps(region, occurrences[c])}

(* The places that repeat the region, without those inside it. *)
Copies(region, percent) ==
  {c \in DOMAIN occurrences :
     /\ \E s \in region.sources :
          /\ occurrences[c].group = occurrences[s].group
          /\ occurrences[c].tokens * 100 >= MeasuredTokens(region, s) * percent
     /\ ~\E s \in region.sources : ContainsLocation(occurrences[s], occurrences[c])}

Partners(region) ==
  LET copies == Copies(region, MinSimilarityPercent)
  IN IF copies # {} THEN copies ELSE Copies(region, 0)

-----------------------------------------------------------------------------
RegionType ==
  [file : {ThisFile}, startLine : Nat, endLine : Nat, sources : SUBSET DOMAIN occurrences]
TypeOK == left \subseteq DOMAIN occurrences /\ regions \in Seq(RegionType)

(* No region lies within another: a location looks only at the last region, *)
(* so this needs the last one to reach furthest, copies kept apart or not   *)
(* (mergeOverlapping).                                                      *)
NoRegionLiesWithinAnother ==
  \A r, q \in DOMAIN regions : r # q => ~ContainsLocation(regions[r], regions[q])

(* Copies of one group that overlap are reported as regions of their own    *)
(* unless some block of the region holds one of them whole: merged, they    *)
(* would be one block without a copy (areCopies, mergeOverlapping).         *)
CopiesShareNoRegion ==
  \A r \in DOMAIN regions : \A i, j \in regions[r].sources :
    AreCopies(i, j) =>
      \E s \in regions[r].sources :
        /\ s \notin {i, j}
        /\ ContainsLocation(occurrences[s], occurrences[i]) \/ ContainsLocation(occurrences[s], occurrences[j])

(* A copy of a source whose lines lie within those of a block, though the  *)
(* tokens do not say so: it is not of the source's size, or it holds more  *)
(* than the block or as much on fewer lines.                               *)
LinesMislead(block, source, copy) ==
  /\ copy.group = source.group
  /\ ContainsLocation(block, copy)
  /\ \/ copy.tokens # source.tokens
     \/ block.tokens < copy.tokens
     \/ block.tokens = copy.tokens /\ ~ContainsLocation(copy, block)

(* Every region names a place that repeats it: the filters of listCopies   *)
(* leave out copies inside the region and fragments of it, and a report of *)
(* a duplicate of nothing would remain.  All copies can only lie inside    *)
(* the region if lines mislead: where the copies of a group are of one     *)
(* size, and what lies within the lines of a block is a smaller part of    *)
(* it, a place is left (areCopies, collectDuplicationViolations).          *)
EveryRegionHasAPartner ==
  left = {} => \A r \in DOMAIN regions :
    \/ Partners(regions[r]) # {}
    \/ \E b, s \in regions[r].sources, c \in DOMAIN occurrences :
         LinesMislead(occurrences[b], occurrences[s], occurrences[c])
=============================================================================
