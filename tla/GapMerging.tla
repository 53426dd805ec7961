----------------------------- MODULE GapMerging -----------------------------
(***************************************************************************)
(* mergeAdjacentGroups of src/src/duplication.ts and its port              *)
(* merge_adjacent_groups in src/native/src/duplication.rs: groups whose    *)
(* copies sit side by side, a small gap apart, become one gapped group,    *)
(* until no two groups merge.  Positions are in one token index space for  *)
(* all files.                                                              *)
(***************************************************************************)
EXTENDS Integers, SequencesExt, Arrangements

CONSTANT MaxGapTokens   \* options.maxGapTokens

ASSUME MergingAssumption == MaxGapTokens \in Nat

VARIABLES
  merging,   \* "waiting" for the selection, "merging", "merged"
  groups,    \* groups: sequences of occurrences
  spanFiles  \* isReportableGroup: a merged group has to span two files

mergingVars == <<merging, groups, spanFiles>>

(* An occurrence: shared is spanCountedElsewhere, nested                   *)
(* nestedInLargerGroup, segments its matched token runs.                   *)
Occurrence(file, start, end, size, isNested) ==
  [file |-> file, start |-> start, end |-> end, segments |-> <<<<start, end>>>>,
   size |-> size, shared |-> isNested, nested |-> isNested]

(* computeTokenOffsets: files lie further apart than any gap. *)
TokenOffsets(lengths) ==
  LET after[f \in 0..Len(lengths)] ==
        IF f = 0 THEN 0 ELSE after[f - 1] + lengths[f] + MaxGapTokens + 1
  IN  [f \in 1..Len(lengths) |-> after[f - 1]]

(* compareGroups: groups by their first copies; equal ones stay in order. *)
SortedGroups(gs) ==
  LET first(i) == Head(gs[i])
      before(i, j) ==
        \/ first(i).start < first(j).start
        \/ first(i).start = first(j).start /\ first(i).end < first(j).end
        \/ first(i).start = first(j).start /\ first(i).end = first(j).end /\ i < j
      places == Arranged(DOMAIN gs, before)
  IN  [n \in DOMAIN gs |-> gs[places[n]]]

(* Copies of one group start at different tokens. *)
SortedOccurrences(copies) == Arranged(copies, LAMBDA o, p : o.start < p.start)

-----------------------------------------------------------------------------
(* pairableOccurrences: the copies that can be paired, and how many stand    *)
(* by themselves.                                                          *)
Pairable(o) == ~o.shared /\ ~o.nested

StandaloneCount(group) == Cardinality({i \in DOMAIN group : ~group[i].nested})

(* One turn of the pairing loop of mergeGroups: the trailing copy at n takes *)
(* the earliest unused leading copy within the gap, behind the pair before. *)
PairTrailing(first, second, n, before) ==
  LET trailing == second[n]
      near == {i \in before.next..Len(first) :
                 Pairable(first[i]) /\ first[i].end + MaxGapTokens >= trailing.start}
      next == IF near = {} THEN Len(first) + 1 ELSE CHOOSE i \in near : \A j \in near : i <= j
  IN  IF ~Pairable(trailing) THEN before
      ELSE IF near # {} /\ first[next].end <= trailing.start /\ first[next].start >= before.end
           THEN [next |-> next + 1, end |-> trailing.end, pairs |-> Append(before.pairs, <<next, n>>)]
           ELSE [before EXCEPT !.next = next]

(* The places of a leading copy and of the trailing one it is paired with. *)
Pairs(first, second) ==
  LET paired[n \in 0..Len(second)] ==
        IF n = 0 THEN [next |-> 1, end |-> -1, pairs |-> <<>>]
        ELSE PairTrailing(first, second, n, paired[n - 1])
  IN  paired[Len(second)].pairs

Joined(leading, trailing) ==
  [leading EXCEPT !.end = trailing.end, !.size = @ + trailing.size,
                  !.segments = @ \o trailing.segments, !.shared = FALSE, !.nested = FALSE]

Merged(first, second, pairs) ==
  [k \in DOMAIN pairs |-> Joined(first[pairs[k][1]], second[pairs[k][2]])]

(* spansMultipleFilesAfterMerge, where the caller asks for it. *)
Reportable(group) == spanFiles => \E o, p \in ToSet(group) : o.file # p.file

FullyPaired(group, pairs) == Len(pairs) = StandaloneCount(group)

(* mergeGroups succeeds. *)
Mergeable(first, second) ==
  LET pairs == Pairs(first, second)
  IN  /\ Len(pairs) >= 2
      /\ FullyPaired(first, pairs) \/ FullyPaired(second, pairs)
      /\ Reportable(Merged(first, second, pairs))

(* The merged group takes the place of the group. *)
Replaced(group, pairs) ==
  /\ FullyPaired(group, pairs)
  /\ \A o \in ToSet(group) : ~o.nested

(* Variant: the paired copies of a group that stays are still counted there. *)
RetainedUnmarked(group, paired) == group

(* A group that stays keeps all its copies; the paired ones are counted in *)
(* the merged group.                                                       *)
Retained(group, paired) ==
  [i \in DOMAIN group |-> IF i \in paired THEN [group[i] EXCEPT !.shared = TRUE] ELSE group[i]]

(* Variant: only copies that touch count as adjacent. *)
PartnersTouching(l, r) ==
  \E o \in ToSet(groups[l]), p \in ToSet(groups[r]) : p.start = o.end \/ o.start = p.end

(* collectGapAdjacentPartners *)
Partners(l, r) ==
  \E o \in ToSet(groups[l]), p \in ToSet(groups[r]) :
    p.start \in o.end..(o.end + MaxGapTokens) \/ o.start \in p.end..(p.end + MaxGapTokens)

(* The groups after those at i and j were merged. *)
AfterMerge(i, j) ==
  LET first     == groups[i]
      second    == groups[j]
      pairs     == Pairs(first, second)
      merged    == Merged(first, second, pairs)
      leadings  == {pairs[k][1] : k \in DOMAIN pairs}
      trailings == {pairs[k][2] : k \in DOMAIN pairs}
      gone      == {k \in {i} : Replaced(first, pairs)} \cup {k \in {j} : Replaced(second, pairs)}
      kept      == [groups EXCEPT ![i] = Retained(first, leadings), ![j] = Retained(second, trailings)]
      place     == IF gone = {} THEN Len(groups) + 1
                   ELSE CHOOSE k \in gone : \A m \in gone : k <= m
      placed    == IF gone = {} THEN Append(kept, merged) ELSE [kept EXCEPT ![place] = merged]
  IN  SortedGroups(IF Cardinality(gone) = 2
                   THEN RemoveAt(placed, CHOOSE k \in gone : k # place)
                   ELSE placed)

MergesEitherWay(l, r) == Mergeable(groups[l], groups[r]) \/ Mergeable(groups[r], groups[l])

StartMerging(gs, inFiles) ==
  /\ merging = "waiting"
  /\ spanFiles' = inFiles
  /\ groups' = IF MaxGapTokens = 0 \/ Len(gs) < 2 THEN gs ELSE SortedGroups(gs)
  /\ merging' = IF MaxGapTokens = 0 \/ Len(gs) < 2 THEN "merged" ELSE "merging"

(* One restart of the loop: the first pair of groups that merges. *)
MergeNext ==
  /\ merging = "merging"
  /\ \E l, r \in DOMAIN groups :
       /\ l < r
       /\ Partners(l, r) /\ MergesEitherWay(l, r)
       /\ \A m, n \in DOMAIN groups :
            (m < n /\ (m < l \/ (m = l /\ n < r)) /\ Partners(m, n)) => ~MergesEitherWay(m, n)
       /\ groups' = IF Mergeable(groups[l], groups[r]) THEN AfterMerge(l, r) ELSE AfterMerge(r, l)
  /\ UNCHANGED <<merging, spanFiles>>

NothingMerges ==
  /\ merging = "merging"
  /\ \A l, r \in DOMAIN groups : l < r /\ Partners(l, r) => ~MergesEitherWay(l, r)
  /\ merging' = "merged"
  /\ UNCHANGED <<groups, spanFiles>>

MergingInit == merging = "waiting" /\ groups = <<>> /\ spanFiles = FALSE
=============================================================================
