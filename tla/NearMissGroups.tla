--------------------------- MODULE NearMissGroups ---------------------------
(***************************************************************************)
(* The near-miss groups of a file beside the exact and gapped ones         *)
(* (duplication.rs collect_near_miss_groups): verified pairs of blocks are *)
(* clustered, and a cluster becomes a group of its own or takes over the   *)
(* reported groups that stand for the same copies.  A range is a pair of   *)
(* token indexes, its end left out.                                        *)
(***************************************************************************)
EXTENDS Integers, FiniteSetsExt, SequencesExt, Arrangements

CONSTANTS
  Cases,     \* records of blocks, reported groups and verified matches
  MinCopyTokens

WholeBlock == <<0, 0>>  \* the core of a pair that matches as wholes
Tokens(range) == range[1]..(range[2] - 1)
Within(r, s) == s[1] <= r[1] /\ r[2] <= s[2]

RangeType == {r \in Nat \X Nat : r[1] < r[2]}
OccurrenceType ==
  [segments : SUBSET RangeType, shared : BOOLEAN, nested : BOOLEAN, nearMiss : BOOLEAN,
   matched : SUBSET Nat, exact : SUBSET Nat]
MatchType ==
  [left : Nat, right : Nat, leftCore : RangeType \cup {WholeBlock}, rightCore : RangeType \cup {WholeBlock},
   leftRuns : SUBSET Nat, rightRuns : SUBSET Nat]

(* A block matches as a whole or in a core, and either is large enough to be reported. *)
IsSide(bs, b, core, runs) ==
  /\ b \in DOMAIN bs
  /\ \/ core = WholeBlock /\ runs \subseteq Tokens(bs[b])
     \/ Within(core, bs[b]) /\ core[2] - core[1] >= MinCopyTokens /\ runs \subseteq Tokens(core)

IsMatch(bs, m) ==
  /\ m.left # m.right
  /\ IsSide(bs, m.left, m.leftCore, m.leftRuns) /\ IsSide(bs, m.right, m.rightCore, m.rightRuns)

(* A reported group lists several occurrences, each once. *)
IsReportedGroup(g) ==
  /\ Len(g) >= 2 /\ IsInjective(g)
  /\ \A o \in ToSet(g) : o.segments # {} /\ IsFiniteSet(o.segments)

ASSUME CasesAssumption ==
  MinCopyTokens \in Nat /\ \A case \in Cases :
    /\ case.blocks \in Seq(RangeType)
    /\ \A b \in DOMAIN case.blocks : case.blocks[b][2] - case.blocks[b][1] >= MinCopyTokens
    /\ \A b, c \in DOMAIN case.blocks : b < c => case.blocks[b][2] <= case.blocks[c][1]
    /\ case.matches \in Seq(MatchType) /\ \A m \in ToSet(case.matches) : IsMatch(case.blocks, m)
    /\ case.reported \in Seq(Seq(OccurrenceType))
    /\ \A g \in ToSet(case.reported) : IsReportedGroup(g)

VARIABLES
  blocks,    \* the compared blocks, disjoint ranges in file order
  before,    \* the groups the exact passes reported
  matches,   \* the verified pairs still to look at
  edges,     \* those that match something no group lists yet
  nodes,     \* the blocks and cores that are clustered, in file order
  root,      \* the first node of each node's cluster
  clusters,  \* the clusters still to group, by their roots; none while edges are joined
  reported,  \* the groups the exact passes reported, as taken over so far
  groups,    \* the groups near-miss clusters made
  phase

groupsVars == <<blocks, before, matches, edges, nodes, root, clusters, reported, groups, phase>>

TokensOf(ranges) == UNION {Tokens(range) : range \in ranges}
Overlap(r, s) == r[1] < s[2] /\ s[1] < r[2]

(* The unions of overlapping ranges; ranges that only touch stay apart. *)
MergedRanges(ranges) ==
  LET inner(at) == \E r \in ranges : r[1] < at /\ at < r[2]
  IN {m \in {r[1] : r \in ranges} \X {r[2] : r \in ranges} :
        /\ m[1] < m[2] /\ ~inner(m[1]) /\ ~inner(m[2])
        /\ \A at \in (m[1] + 1)..(m[2] - 1) : inner(at)}

Start(o) == Min({s[1] : s \in o.segments})
End(o) == Max({s[2] : s \in o.segments})
MatchesWithin(o, range) == \E s \in o.segments : Overlap(s, range)
Listed(o) == TokensOf(o.segments)
ListedBy(gs) == UNION {Listed(o) : o \in UNION {ToSet(gs[g]) : g \in DOMAIN gs}}

(* The exact copies count wholly; matched and exact are what a near-miss copy counts. *)
ExactOccurrence(segments, shared, nested) ==
  [segments |-> segments, shared |-> shared, nested |-> nested, nearMiss |-> FALSE,
   matched |-> {}, exact |-> {}]
MatchedTokens(o) == IF o.nearMiss THEN o.matched ELSE Listed(o)
ExactTokens(o) == IF o.nearMiss THEN o.exact ELSE Listed(o)

InFileOrder(occurrences) ==
  Arranged(occurrences, LAMBDA o, p : Start(o) < Start(p) \/ (Start(o) = Start(p) /\ End(o) < End(p)))

GroupsInit ==
  /\ \E case \in Cases : /\ blocks = case.blocks /\ before = case.reported
                         /\ matches = case.matches /\ reported = case.reported
  /\ edges = <<>> /\ nodes = <<>> /\ root = <<>> /\ clusters = {} /\ groups = {}
  /\ phase = "filter"

-----------------------------------------------------------------------------
(* Groups with nested copies make no pair redundant. *)
ListedBefore ==
  ListedBy([g \in DOMAIN before |->
              IF \E o \in ToSet(before[g]) : o.nested THEN <<>> ELSE before[g]])

(* Only a pair that matches something unlisted is kept. *)
KeepMatch ==
  /\ phase = "filter" /\ matches # <<>>
  /\ LET m == Head(matches)
         adds == (m.leftRuns \cup m.rightRuns) \ ListedBefore # {}
     IN edges' = IF adds THEN Append(edges, m) ELSE edges
  /\ matches' = Tail(matches)
  /\ UNCHANGED <<blocks, before, nodes, root, clusters, reported, groups, phase>>

SidesOf(e) == {[block |-> e.left, core |-> e.leftCore, runs |-> e.leftRuns],
               [block |-> e.right, core |-> e.rightCore, runs |-> e.rightRuns]}
Sides == UNION {SidesOf(edges[i]) : i \in DOMAIN edges}

MatchedWhole(b) == \E side \in Sides : side.block = b /\ side.core = WholeBlock
CoresOf(b) ==
  IF MatchedWhole(b) THEN {} ELSE MergedRanges({side.core : side \in {s \in Sides : s.block = b}})

(* A block that matched as a whole, or not at all, is one node; otherwise each union of its *)
(* cores is one.                                                                           *)
NodesOf(b) ==
  IF CoresOf(b) = {} THEN {[block |-> b, span |-> blocks[b], whole |-> TRUE]}
  ELSE {[block |-> b, span |-> core, whole |-> FALSE] : core \in CoresOf(b)}

MakeNodes ==
  /\ phase = "filter" /\ matches = <<>>
  /\ nodes' = Arranged(UNION {NodesOf(b) : b \in DOMAIN blocks}, LAMBDA n, m : n.span[1] < m.span[1])
  /\ root' = [n \in DOMAIN nodes' |-> n]
  /\ phase' = "join"
  /\ UNCHANGED <<blocks, before, matches, edges, clusters, reported, groups>>

NodeOf(b, core) ==
  CHOOSE n \in DOMAIN nodes :
    nodes[n].block = b /\ (nodes[n].whole \/ Within(core, nodes[n].span))

LeftRoot(e) == root[NodeOf(e.left, e.leftCore)]
RightRoot(e) == root[NodeOf(e.right, e.rightCore)]
AllJoined == \A i \in DOMAIN edges : LeftRoot(edges[i]) = RightRoot(edges[i])

(* Joins the clusters of an edge's nodes under the smaller root. *)
Join ==
  /\ phase = "join"
  /\ ~AllJoined
  /\ LET e == edges[Min({i \in DOMAIN edges : LeftRoot(edges[i]) # RightRoot(edges[i])})]
         left == LeftRoot(e)
         right == RightRoot(e)
     IN root' = [n \in DOMAIN root |-> IF root[n] = Max({left, right}) THEN Min({left, right}) ELSE root[n]]
  /\ UNCHANGED <<blocks, before, matches, edges, nodes, clusters, reported, groups, phase>>

Joined ==
  /\ phase = "join"
  /\ AllJoined
  /\ clusters' = ToSet(root)
  /\ phase' = "group"
  /\ UNCHANGED <<blocks, before, matches, edges, nodes, root, reported, groups>>

-----------------------------------------------------------------------------
RunsOf(n) ==
  UNION {side.runs : side \in {s \in Sides : NodeOf(s.block, s.core) = n}}

(* The nodes of a block are one copy. *)
Copy(ns) ==
  [segments |-> {nodes[n].span : n \in ns}, shared |-> FALSE, nested |-> FALSE, nearMiss |-> TRUE,
   matched |-> UNION {RunsOf(n) : n \in ns}, exact |-> {}]
BlocksOf(ns) == {nodes[n].block : n \in ns}
InBlock(ns, b) == {n \in ns : nodes[n].block = b}
Copies(ns) == {Copy(InBlock(ns, b)) : b \in BlocksOf(ns)}
AsAnchors(copies) == {[o EXCEPT !.shared = TRUE] : o \in copies}

(* One copy's fragments as one occurrence. *)
Coalesced(os) ==
  [segments |-> MergedRanges(UNION {o.segments : o \in os}), shared |-> FALSE, nested |-> FALSE,
   nearMiss |-> TRUE, matched |-> UNION {MatchedTokens(o) : o \in os},
   exact |-> UNION {ExactTokens(o) : o \in os}]

(* Judged once, by the groups the exact passes reported. *)
Touched(n) == {g \in DOMAIN before : \E o \in ToSet(before[g]) : MatchesWithin(o, nodes[n].span)}

(* Whether an occurrence is the copy in one member block, give or take an unreportable part. *)
StandsFor(o, members, b) ==
  LET spans == {nodes[n].span : n \in InBlock(members, b)}
      first == Min({s[1] : s \in spans})
      last == Max({s[2] : s \in spans})
  IN /\ BlocksOf({n \in members : MatchesWithin(o, nodes[n].span)}) = {b}
     /\ Max({0, first - Start(o)}) + Max({0, End(o) - last}) < MinCopyTokens

(* Variant: a group is taken over when one of its occurrences stands for a member. *)
OneStandsForAMember(g, members) ==
  \E i \in DOMAIN reported[g] : \E b \in BlocksOf(members) : StandsFor(reported[g][i], members, b)

(* Every occurrence of a group is the copy in a block of its own. *)
StandForMembers(g, members) ==
  /\ reported[g] # <<>>
  /\ \A i \in DOMAIN reported[g] :
       \E b \in BlocksOf(members) :
         /\ StandsFor(reported[g][i], members, b)
         /\ \A j \in DOMAIN reported[g] \ {i} : ~StandsFor(reported[g][j], members, b)

TakenOver(members) ==
  {g \in UNION {Touched(n) : n \in members} : StandForMembers(g, members)}

FragmentsIn(taken, members, b) ==
  {o \in UNION {ToSet(reported[g]) : g \in taken} :
     \E n \in InBlock(members, b) : MatchesWithin(o, nodes[n].span)}


(* A group left in place still counts all of it. *)
CountsElsewhere(o, taken) ==
  \E g \in DOMAIN reported \ taken : \E c \in ToSet(reported[g]) :
    ~c.shared /\ \A s \in o.segments : \E t \in c.segments : Within(s, t)

(* One group of one copy per member block takes the place of the first group taken over. *)
TakeOver(members, taken) ==
  LET held == {b \in BlocksOf(members) : FragmentsIn(taken, members, b) # {}}
      others == {n \in members : nodes[n].block \notin held}
      merged == {Coalesced(FragmentsIn(taken, members, b) \cup {Copy(InBlock(members, b))}) : b \in held}
                \cup Copies({n \in others : Touched(n) = {}})
      marked == {[o EXCEPT !.shared = CountsElsewhere(o, taken)] : o \in merged}
      anchors == AsAnchors(Copies({n \in others : Touched(n) # {}}))
  IN reported' = [g \in DOMAIN reported |->
                    IF g = Min(taken) THEN InFileOrder(marked \cup anchors)
                    ELSE IF g \in taken THEN <<>> ELSE reported[g]]

NewGroup(occurrences) ==
  groups' = IF Cardinality(occurrences) >= 2 THEN groups \cup {InFileOrder(occurrences)} ELSE groups

(* A cluster of what is reported already adds nothing. *)
IsReported(members) == \A n \in members : Tokens(nodes[n].span) \subseteq ListedBy(before)

GroupCluster ==
  /\ phase = "group" /\ clusters # {}
  /\ LET members == {n \in DOMAIN nodes : root[n] = Min(clusters)}
         taken == TakenOver(members)
     IN \/ /\ Cardinality(members) < 2 \/ IsReported(members)
           /\ UNCHANGED <<reported, groups>>
        \/ /\ Cardinality(members) >= 2 /\ ~IsReported(members) /\ taken # {}
           /\ TakeOver(members, taken)
           /\ UNCHANGED groups
        \/ /\ Cardinality(members) >= 2 /\ ~IsReported(members) /\ taken = {}
           /\ NewGroup(Copies({n \in members : Touched(n) = {}})
                       \cup AsAnchors(Copies({n \in members : Touched(n) # {}})))
           /\ UNCHANGED reported
  /\ clusters' = clusters \ {Min(clusters)}
  /\ UNCHANGED <<blocks, before, matches, edges, nodes, root, phase>>

Finish ==
  /\ phase = "group" /\ clusters = {}
  /\ phase' = "done"
  /\ UNCHANGED <<blocks, before, matches, edges, nodes, root, clusters, reported, groups>>

Grouped == phase = "done" /\ UNCHANGED groupsVars
GroupsNext == KeepMatch \/ MakeNodes \/ Join \/ Joined \/ GroupCluster \/ Finish \/ Grouped
GroupsSpec == GroupsInit /\ [][GroupsNext]_groupsVars

-----------------------------------------------------------------------------
AllGroups == ({ToSet(reported[g]) : g \in DOMAIN reported} \ {{}}) \cup {ToSet(g) : g \in groups}

(* A copy of a group a takeover made, over a copy of one that is gone. *)
TookOver(o) ==
  o.nearMiss /\ \E g \in DOMAIN before :
    reported[g] # before[g] /\ \E c \in ToSet(before[g]) : Listed(c) \subseteq Listed(o)

(* What a takeover grew may reach into a reported copy that is left in place and holds    *)
(* only part of it: marking the grown copy asks for all of it (merge in                    *)
(* collect_near_miss_groups), and both count the part.                                     *)
GrewInto(o, p) ==
  /\ TookOver(o) /\ ~p.nearMiss
  /\ \E s \in o.segments : \A t \in p.segments : ~Within(s, t)


(* What was reported stays reported, and every group has two copies (to_occurrences,      *)
(* coalesce_occurrences, reported_groups).                                                 *)
ReportedContentStays ==
  phase = "done" =>
    /\ ListedBy(before) \subseteq UNION {Listed(o) : o \in UNION AllGroups}
    /\ \A g \in AllGroups : Cardinality(g) >= 2

(* Every kept pair is reported as what it is: both its sides are copies in one group, or  *)
(* all of it was listed already (collect_near_miss_groups).                                *)
KeptPairsAreListedTogether ==
  phase = "done" =>
    \A i \in DOMAIN edges :
      \/ edges[i].leftRuns \cup edges[i].rightRuns \subseteq ListedBy(before)
      \/ \E g \in AllGroups : \E o, p \in g :
           o # p /\ edges[i].leftRuns \subseteq Listed(o) /\ edges[i].rightRuns \subseteq Listed(p)

(* Neither what was reported before nor a pair kept since is lost on the way to the      *)
(* groups (collect_near_miss_groups).                                                      *)
NothingListedIsLost == ReportedContentStays /\ KeptPairsAreListedTogether
=============================================================================
