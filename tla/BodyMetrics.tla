----------------------------- MODULE BodyMetrics -----------------------------
(***************************************************************************)
(* The one walk that measures every function of a file                     *)
(* (complexity.rs measure_function_body_metrics).  A function opens a      *)
(* frame; when it closes, its totals go to the frame around it, charged    *)
(* for the levels it stands deeper there.  What a walk of its own would    *)
(* count for each function is what the frame must hold.                    *)
(***************************************************************************)
EXTENDS Decisions

(* The parsed files: records of a tree, of its language and of the functions that *)
(* find_function_name names.                                                      *)
CONSTANT Files

ASSUME FilesAssumption == \A file \in Files : IsTree(file.tree)

VARIABLES
  functionNames,  \* the functions that have a name
  todo,     \* the visits and closings still to come, the next one first
  frames,   \* one per function around the visited node, the file's own first
  results,  \* the metrics of the functions closed so far
  nestedClassDecisions,  \* paths in class bodies inside functions, which no function owns
  maxNesting

vars == <<tree, language, functionNames, todo, frames, results, nestedClassDecisions, maxNesting>>

MaxReportedBlocks == 3

Frame(cognitiveNesting, structuralNesting) ==
  [cyclomatic |-> 1, cognitive |-> 0, sensitive |-> 0, depth |-> 0, ncss |-> 0, ownNcss |-> FALSE,
   entryNesting |-> cognitiveNesting, entryStructural |-> structuralNesting,
   blocks |-> {}, open |-> <<>>]

Visit(n, nesting, bonus, inFunction, inRegion, inClass) ==
  [step |-> "visit", node |-> n, nesting |-> nesting, bonus |-> bonus,
   inFunction |-> inFunction, inRegion |-> inRegion, inClass |-> inClass]
Closing(n) == [step |-> "close", node |-> n]

Init ==
  /\ \E file \in Files : tree = file.tree /\ language = file.language /\ functionNames = file.named
  /\ todo = <<Visit(Root, 0, 0, FALSE, FALSE, FALSE)>>
  /\ frames = <<Frame(0, 0)>>
  /\ results = <<>>
  /\ nestedClassDecisions = 0 /\ maxNesting = 0

-----------------------------------------------------------------------------
(* What the node adds to the frame it stands in, its level there being known. *)
Charged(frame, n, level, own, depth) ==
  [frame EXCEPT !.cyclomatic = @ + One(IsPath(n) /\ own),
                !.cognitive = @ + FlatPoints(n) + NestedPoints(n) * (1 + level),
                !.sensitive = @ + NestedPoints(n),
                !.depth = IF own THEN Max({@, depth}) ELSE @]

WithBlockOpened(frame, n) ==
  [frame EXCEPT !.open = Append(@, [node |-> n, cognitive |-> frame.cognitive,
                                    sensitive |-> frame.sensitive])]

Counted(frame, n, opens) ==
  [frame EXCEPT !.ncss = @ + NcssContribution(n),
                !.ownNcss = @ \/ (opens /\ NcssContribution(n) > 0)]

(* A class body inside a function raises the level once for all it holds, a function once more *)
(* unless it is a member of such a body.                                                       *)
VisitNode ==
  /\ todo # <<>> /\ Head(todo).step = "visit"
  /\ LET v == Head(todo)
         n == v.node
         classBody == Kind(n) = "class_body" /\ v.inFunction
         opens == IsFunctionBoundary(n)
         bonus == v.bonus + One(classBody) + One(opens /\ v.inFunction /\ ~v.inClass)
         inRegion == v.inRegion \/ classBody
         own == ~inRegion /\ ~opens
         depth == v.nesting + One(IsNesting(n))
         top == Last(frames)
         blocked == IF Len(frames) > 1 /\ (opens \/ IsSwitchLike(n) \/ IsNesting(n))
                    THEN WithBlockOpened(top, n) ELSE top
         charged == Charged(blocked, n, v.nesting + bonus - top.entryNesting, own,
                            depth - top.entryStructural)
         memberOf(c) == \/ classBody
                        \/ /\ v.inClass /\ Kind(n) = "property_declaration"
                           /\ Kind(c) \in {"getter", "setter"}
     IN /\ frames' = IF opens THEN Front(frames) \o <<charged, Counted(Frame(depth + bonus, depth), n, TRUE)>>
                     ELSE Front(frames) \o <<Counted(charged, n, FALSE)>>
        /\ nestedClassDecisions' = nestedClassDecisions + One(IsPath(n) /\ ~own /\ ~opens)
        /\ maxNesting' = Max({maxNesting, depth})
        /\ LET below == Ascending(Children(n))
           IN todo' = [i \in DOMAIN below |-> Visit(below[i], depth, bonus, v.inFunction \/ opens,
                                                    inRegion /\ ~opens, memberOf(below[i]))]
                      \o <<Closing(n)>> \o Tail(todo)
  /\ UNCHANGED <<tree, language, functionNames, results>>

-----------------------------------------------------------------------------
(* Blocks are recorded with the node they stand for; the tree says which holds which. *)
Inside(blocks, b) ==
  LET held == {c \in blocks : b.node \in Ancestors(c.node)}
  IN {c \in held : \A d \in held : d.node \notin Ancestors(c.node)}
Cost(blocks) == MapThenSumSet(LAMBDA b : b.cognitive, blocks)
IsWrapper(blocks, b, total) ==
  /\ ~b.named /\ b.cognitive * 2 > total
  /\ Cost(Inside(blocks, b)) * 4 >= b.cognitive * 3

(* The last of the largest is unwrapped as long as it is a wrapper. *)
Unwrapped(outermost, blocks, total) ==
  LET unwrap[selected \in SUBSET blocks] ==
        LET largest == {b \in selected : \A c \in selected : c.cognitive <= b.cognitive}
            b == CHOOSE b \in largest : \A c \in largest : c.node <= b.node
        IN IF selected = {} \/ ~IsWrapper(blocks, b, total) THEN selected
           ELSE unwrap[(selected \ {b}) \cup Inside(blocks, b)]
  IN unwrap[outermost]

(* Largest first, those of a size in source order. *)
ReportedBlocks(blocks, total) ==
  LET outermost == {b \in blocks : \A c \in blocks : c.node \notin Ancestors(b.node)}
      larger(b, c) == b.cognitive > c.cognitive \/ (b.cognitive = c.cognitive /\ b.node < c.node)
      ranked == Arranged(Unwrapped(outermost, blocks, total), larger)
  IN SubSeq(ranked, 1, Min({Len(ranked), MaxReportedBlocks}))

(* A block without complexity is forgotten. *)
WithBlockClosed(frame, n) ==
  IF frame.open = <<>> \/ Last(frame.open).node # n THEN frame
  ELSE LET open == Last(frame.open)
           block == [node |-> n, named |-> n \in functionNames,
                     cognitive |-> frame.cognitive - open.cognitive,
                     sensitive |-> frame.sensitive - open.sensitive]
       IN [frame EXCEPT !.open = Front(@),
                        !.blocks = @ \cup IF block.cognitive = 0 THEN {} ELSE {block}]

(* Variant: blocks keep the cost they had where their function stands. *)
NotRebased(blocks, offset) == blocks

(* What the function's blocks cost one level deeper for each level of offset. *)
Rebased(blocks, offset) == {[b EXCEPT !.cognitive = @ + b.sensitive * offset] : b \in blocks}

Metrics(frame) ==
  [cyclomatic |-> frame.cyclomatic, cognitive |-> frame.cognitive, depth |-> frame.depth,
   ncss |-> frame.ncss + One(~frame.ownNcss),
   reported |-> ReportedBlocks(frame.blocks, frame.cognitive)]

(* Variant: a nested function costs the same wherever it stands. *)
HoistedAsIs(closed, parent) ==
  LET offset == closed.entryNesting - parent.entryNesting
  IN [parent EXCEPT !.cognitive = @ + closed.cognitive,
                    !.sensitive = @ + closed.sensitive,
                    !.ncss = @ + closed.ncss,
                    !.blocks = @ \cup IF parent.open = <<>> THEN {} ELSE Rebased(closed.blocks, offset)]

(* What a closed function leaves in the frame around it. *)
Hoisted(closed, parent) ==
  LET offset == closed.entryNesting - parent.entryNesting
  IN [parent EXCEPT !.cognitive = @ + closed.cognitive + closed.sensitive * offset,
                    !.sensitive = @ + closed.sensitive,
                    !.ncss = @ + closed.ncss,
                    !.blocks = @ \cup IF parent.open = <<>> THEN {} ELSE Rebased(closed.blocks, offset)]

WithMetrics(measured, n, metrics) ==
  [f \in DOMAIN measured \cup {n} |-> IF f = n THEN metrics ELSE measured[f]]

CloseNode ==
  /\ todo # <<>> /\ Head(todo).step = "close"
  /\ LET n == Head(todo).node
         opened == IsFunctionBoundary(n)
         closed == Last(frames)
         around == IF opened THEN Front(frames) ELSE frames
         parent == IF opened THEN Hoisted(closed, Last(around)) ELSE closed
     IN /\ frames' = Front(around) \o <<WithBlockClosed(parent, n)>>
        /\ results' = IF opened THEN WithMetrics(results, n, Metrics(closed)) ELSE results
  /\ todo' = Tail(todo)
  /\ UNCHANGED <<tree, language, functionNames, nestedClassDecisions, maxNesting>>

Finished == todo = <<>> /\ UNCHANGED vars
Next == VisitNode \/ CloseNode \/ Finished
Spec == Init /\ [][Next]_vars

(* The file's own metrics, once the walk is over. *)
FileMetrics ==
  [topLevelDecisions |-> frames[1].cyclomatic - 1 + nestedClassDecisions,
   cognitive |-> frames[1].cognitive, depth |-> maxNesting, ncss |-> frames[1].ncss]

-----------------------------------------------------------------------------
(* What a walk of its own would find: a function's own body is what no other function   *)
(* and no class inside it holds, and a level is a nesting node, a function or a class    *)
(* body on the way.  The file is walked from above its root.                             *)
Boundaries == {n \in Nodes : IsFunctionBoundary(n)}
InsideFunction(n) == Ancestors(n) \cap Boundaries # {}
ClassBodies == {n \in Nodes : Kind(n) = "class_body" /\ InsideFunction(n)}
IsMember(n) ==
  \/ Parent(n) \in ClassBodies
  \/ /\ Kind(n) \in {"getter", "setter"} /\ Kind(Parent(n)) = "property_declaration"
     /\ Parent(Parent(n)) \in ClassBodies

OwnBody(f) == {n \in Subtree(f) \ {f} : Path(f, n) \cap (Boundaries \cup ClassBodies) = {}}
Levels(f, n) ==
  LET way == Path(f, n)
  IN Cardinality({k \in way \ {n} : IsNesting(k)}) + Cardinality(way \cap ClassBodies)
     + Cardinality({k \in way \cap Boundaries : InsideFunction(k) /\ ~IsMember(k)})

(* What a sequence of numbers adds up to. *)
Total(worth) ==
  LET upTo[k \in 0..Len(worth)] == IF k = 0 THEN 0 ELSE upTo[k - 1] + worth[k]
  IN upTo[Len(worth)]

Points(f, n) == FlatPoints(n) + NestedPoints(n) * (1 + Levels(f, n))
PointsIn(f, nodes) == Total([n \in Nodes |-> IF n \in nodes THEN Points(f, n) ELSE 0])
Statements(nodes) == Total([n \in Nodes |-> IF n \in nodes THEN NcssContribution(n) ELSE 0])

MeasuredAlone(f) ==
  /\ results[f].cyclomatic = 1 + Cardinality({n \in OwnBody(f) : IsPath(n)})
  /\ results[f].cognitive = PointsIn(f, Subtree(f) \ {f})
  /\ results[f].depth =
       Max({0} \cup {Cardinality({k \in Path(f, n) : IsNesting(k)}) : n \in OwnBody(f)})
  /\ results[f].ncss = Statements(Subtree(f)) + One(NcssContribution(f) = 0)

(* The file's totals are those of its whole tree at absolute nesting, and every path has *)
(* one owner: the function whose own body holds it, or the top level (types.rs, measure, *)
(* BodyMetrics.top_level_decisions).                                                     *)
EveryPathHasOneOwner ==
  /\ FileMetrics.cognitive = PointsIn(NoNode, Nodes)
  /\ FileMetrics.ncss = Statements(Nodes)
  /\ FileMetrics.topLevelDecisions
       + Total([n \in Nodes |-> IF n \in DOMAIN results THEN results[n].cyclomatic - 1 ELSE 0])
       = Cardinality({n \in Nodes \ Boundaries : IsPath(n)})

(* Every function gets from the one shared walk what a walk of its own subtree alone    *)
(* would give it, however many functions and class bodies stand around it: hoisting a    *)
(* nested function's totals charges each of its points for the levels it stands deeper,  *)
(* and nothing else changes (complexity.rs measure_function_body_metrics, close_frame).  *)
FunctionsAreMeasuredAlone ==
  todo = <<>> =>
    /\ DOMAIN results = Boundaries
    /\ \A f \in Boundaries : MeasuredAlone(f)
    /\ EveryPathHasOneOwner

(* The blocks reported for a function explain its complexity: each is charged exactly    *)
(* what its nodes cost inside this function, nested functions included, no two overlap,  *)
(* together they hold no more than the function, and none merely wraps most of it        *)
(* (select_reported_blocks, rebase_blocks).                                              *)
BlocksExplainTheFunction ==
  todo = <<>> => \A f \in Boundaries :
    LET reported == ToSet(results[f].reported) IN
    /\ \A b \in reported : b.cognitive = PointsIn(f, Subtree(b.node)) /\ b.cognitive > 0
    /\ \A b, c \in reported : b # c => b.node \notin Subtree(c.node)
    /\ Cost(reported) <= results[f].cognitive
    /\ \A b \in reported : ~b.named /\ b.cognitive * 2 > results[f].cognitive =>
         \A inner \in SUBSET {n \in Subtree(b.node) \ {b.node} : IsNesting(n) \/ n \in Boundaries} :
           (\A i, j \in inner : i # j => i \notin Subtree(j)) =>
             4 * MapThenSumSet(LAMBDA n : PointsIn(f, Subtree(n)), inner) < 3 * b.cognitive
=============================================================================
