---------------------------- MODULE MCNearMisses ----------------------------
(***************************************************************************)
(* The search for near-miss clones in three parts, each on inputs of its   *)
(* own while the others have nothing to do.                                *)
(*   - The marking of all pairs of sequences of few symbols, and of        *)
(*     shorter ones of more, in words shorter than the sequences.          *)
(*   - The verdict on all pairs of blocks of up to two statements or       *)
(*     fragments, edited, renamed and reordered, and on pairs that share   *)
(*     cores in other code.                                                *)
(*   - The groups of three blocks with a token between them, groups the    *)
(*     exact passes may report in and around them, and pairs that match    *)
(*     as wholes or in cores.                                              *)
(***************************************************************************)
EXTENDS LcsMarking, NearMiss, NearMissGroups

CONSTANTS Symbols, MaxLength, MoreSymbols, MaxShorterLength,
          MaxStatements,
          MaxCopies  \* of a reported group

MCSequences == BoundedSeq(Symbols, MaxLength) \cup BoundedSeq(MoreSymbols, MaxShorterLength)

-----------------------------------------------------------------------------
Statements == {<<1, -1, 2>>, <<1, -2, 2>>, <<5, -1, 3, 6>>, <<4, -2>>}
Fragments == {<<3, 4>>, <<6>>}
Keys == <<5, 2, 6, 1, 4, 3>>

Length(parts) == Len(FlattenSeq(parts))
MCBlock(parts) ==
  LET starts(i) == Length(SubSeq(parts, 1, i - 1))
      statements == Ascending({i \in DOMAIN parts : parts[i] \in Statements})
  IN [symbols |-> FlattenSeq(parts),
      statements |-> [k \in DOMAIN statements |->
                        <<starts(statements[k]), starts(statements[k] + 1)>>]]

Blocks == {MCBlock(parts) : parts \in BoundedSeq(Statements \cup Fragments, MaxStatements) \ {<<>>}}

(* Two shared cores with code of their own around, between and in them, or in another order. *)
CoreTexts == {<<1, -1, 2, 5>>, <<5, 3, 6, 4>>, <<5, 3, 2, 6, 4>>}
Gaps == {<<>>, <<2>>, <<4, 4, 1>>}
Embedded ==
  {[symbols |-> g \o c \o h \o d, statements |-> <<>>] :
     c, d \in CoreTexts, g \in {<<>>, <<2>>}, h \in Gaps}

MCPairs == (Blocks \X Blocks) \cup (Embedded \X Embedded)
MCPopulation == <<MCBlock(<<<<1, -1, 2>>, <<4, -2>>>>)>>

-----------------------------------------------------------------------------
MCBlocks == <<<<0, 4>>, <<5, 9>>, <<10, 14>>>>

Exact(start, length) == ExactOccurrence({<<start, start + length>>}, FALSE, FALSE)
Gapped(start) == ExactOccurrence({<<start, start + 1>>, <<start + 3, start + 4>>}, FALSE, FALSE)
Nested(start, length) == ExactOccurrence({<<start, start + length>>}, TRUE, TRUE)

Disjoint(occurrences) == \A o, p \in occurrences : o # p => Listed(o) \cap Listed(p) = {}
GroupsOf(occurrences) ==
  {os \in SUBSET occurrences : Cardinality(os) \in 2..MaxCopies /\ Disjoint(os)}

ShortGroups == GroupsOf({Exact(s, 2) : s \in {0, 2, 5, 7, 10, 15}})
LongGroups ==
  GroupsOf({Exact(s, 4) : s \in {0, 5, 10}}) \cup GroupsOf({Exact(s, 5) : s \in {0, 5, 10}})
  \cup GroupsOf({Gapped(s) : s \in {0, 5, 10}}) \cup {{Exact(3, 3), Exact(8, 3)}}
  \cup {{Exact(s, 9), Exact(15, 9)} : s \in {0, 5}}
(* Copies of a part of a larger group's copy, which lists its own elsewhere. *)
NestedGroups ==
  {{Nested(s, 2), Exact(e, 2)} : s \in {0, 2, 5, 7}, e \in {10, 15}}
  \cup {{Nested(5, 4), o} : o \in {Nested(0, 4), Exact(0, 4), Nested(10, 4), Exact(10, 4)}}
  \cup {{Nested(0, 2), Nested(5, 2)}}

Reported ==
  {{}} \cup {{g} : g \in ShortGroups \cup LongGroups}
  \cup {{g, h} : g \in LongGroups, h \in ShortGroups \cup LongGroups \cup NestedGroups}
  \cup {{g, h} : g, h \in ShortGroups}
CountsOnce(gs) ==
  \A g, h \in gs : \A o \in g, p \in h :
    /\ (<<g, o>> # <<h, p>> /\ ~o.shared /\ ~p.shared) => Listed(o) \cap Listed(p) = {}
    /\ g # h => o.segments # p.segments
NestedLiesInside(gs) ==
  \A o \in UNION gs : o.nested => \E p \in UNION gs : ~p.nested /\ Listed(o) \subseteq Listed(p)

Pair(l, r, core, runs) ==
  LET at(d, range) == <<MCBlocks[d][1] + range[1], MCBlocks[d][1] + range[2]>>
  IN [left |-> l, right |-> r,
      leftCore |-> IF core = WholeBlock THEN WholeBlock ELSE at(l, core),
      rightCore |-> IF core = WholeBlock THEN WholeBlock ELSE at(r, core),
      leftRuns |-> Tokens(at(l, runs)), rightRuns |-> Tokens(at(r, runs))]
Matches(l, r) ==
  {<<>>, <<Pair(l, r, WholeBlock, <<0, 4>>)>>, <<Pair(l, r, WholeBlock, <<1, 4>>)>>,
   <<Pair(l, r, <<0, 2>>, <<0, 2>>)>>, <<Pair(l, r, <<1, 3>>, <<1, 3>>)>>,
   <<Pair(l, r, <<0, 2>>, <<0, 2>>), Pair(l, r, <<2, 4>>, <<2, 4>>)>>}

First(g) == CHOOSE o \in g : \A p \in g : Start(o) <= Start(p)
MCCases ==
  {[blocks |-> MCBlocks,
    reported |->
      LET order == Arranged(gs, LAMBDA g, h :
                     \/ Start(First(g)) < Start(First(h))
                     \/ Start(First(g)) = Start(First(h)) /\ End(First(g)) < End(First(h)))
      IN [k \in DOMAIN order |-> InFileOrder(order[k])],
    matches |-> m12 \o m13 \o m23] :
     gs \in {gs \in Reported : CountsOnce(gs) /\ NestedLiesInside(gs)},
     m12 \in Matches(1, 2), m13 \in Matches(1, 3),
     m23 \in {<<>>, <<Pair(2, 3, WholeBlock, <<0, 4>>)>>, <<Pair(2, 3, <<1, 3>>, <<1, 3>>)>>}}

-----------------------------------------------------------------------------
NothingToMark == a = <<>> /\ b = <<>> /\ todo = <<>> /\ aMatched = {} /\ bMatched = {}

NothingToCompare ==
  /\ left = [symbols |-> <<>>, statements |-> <<>>] /\ right = left
  /\ step = "done" /\ verdict = NoMatch /\ compared = <<>>

NothingToGroup ==
  /\ blocks = <<>> /\ before = <<>> /\ matches = <<>> /\ edges = <<>> /\ nodes = <<>> /\ root = <<>>
  /\ clusters = {} /\ reported = <<>> /\ groups = {} /\ phase = "done"

NearMissInit ==
  \/ MarkingInit /\ NothingToCompare /\ NothingToGroup
  \/ NothingToMark /\ Init /\ NothingToGroup
  \/ NothingToMark /\ NothingToCompare /\ GroupsInit

NearMissNext ==
  \/ MarkingNext /\ UNCHANGED <<vars, groupsVars>>
  \/ Next /\ UNCHANGED <<markingVars, groupsVars>>
  \/ GroupsNext /\ UNCHANGED <<markingVars, vars>>

NearMissSpec == NearMissInit /\ [][NearMissNext]_<<markingVars, vars, groupsVars>>
=============================================================================
