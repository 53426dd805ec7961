----------------------------- MODULE ScanProofs -----------------------------
(***************************************************************************)
(* Proofs that IInv of Scan is inductive and implies the type invariant    *)
(* and the safety properties of the scan, and, with OrderInv, that a scan  *)
(* takes the steps of SequentialScan and no others: for every set of       *)
(* worlds and every number of slots.                                       *)
(***************************************************************************)
EXTENDS Scan, TLAPS, FiniteSetTheorems, WellFoundedInduction

-----------------------------------------------------------------------------
(* The data of a scan.                                                     *)

(* A non-empty set of naturals has the least element Min chooses. *)
LEMMA MinIsAMember ==
  ASSUME NEW S, S \subseteq Nat, S # {}
  PROVE  Min(S) \in S
<1>1. \E x \in S : \A y \in S : ~(<<y, x>> \in OpToRel(<, Nat))
  BY NatLessThanWellFounded, WFMin
<1>2. PICK x \in S : \A y \in S : ~(<<y, x>> \in OpToRel(<, Nat))
  BY <1>1
<1>3. \A y \in S : ~(y < x)
  BY <1>2 DEF OpToRel
<1>4. \A y \in S : x =< y
  BY <1>3
<1> QED  BY <1>4 DEF Min

(* The path chooseMeasuredPath answers with is one of the candidates'. *)
LEMMA ChosenPathIsAPath ==
  ASSUME NEW w \in WorldType, NEW real \in Paths
  PROVE  ChooseMeasuredPath(w, real) \in Paths \cup {NoPath}
<1>1. ASSUME NEW positions \in SUBSET (1..Len(w.candidates))
      PROVE  FirstOf(w, positions) \in Paths \cup {NoPath}
  <2>1. CASE positions = {}
    BY <2>1 DEF FirstOf
  <2>2. CASE positions # {}
    <3>1. Len(w.candidates) \in Nat /\ positions \subseteq Nat
      BY DEF WorldType
    <3>2. Min(positions) \in positions
      BY <2>2, <3>1, MinIsAMember
    <3>3. w.candidates \in Seq(Paths) /\ Min(positions) \in 1..Len(w.candidates)
      BY <3>2 DEF WorldType
    <3>4. w.candidates[Min(positions)] \in Paths
      BY <3>3
    <3> QED  BY <2>2, <3>4 DEF FirstOf
  <2> QED  BY <2>1, <2>2
<1>2. /\ Aliases(w, real) \subseteq 1..Len(w.candidates)
      /\ Measurable(w, real) \subseteq 1..Len(w.candidates)
      /\ Plain(w, real) \subseteq 1..Len(w.candidates)
  BY DEF Aliases, Measurable, Plain
<1> QED  BY <1>1, <1>2 DEF ChooseMeasuredPath

(* What a measurement comes to is one of the outcomes settleScan tells     *)
(* apart.                                                                  *)
LEMMA MeasuredKindIsAKind ==
  \A w, real : MeasuredKind(w, real) \in Kinds
BY DEF MeasuredKind, Kinds

-----------------------------------------------------------------------------
(* IInv holds initially.                                                   *)

LEMMA InitIInv == Init => IInv
<1> SUFFICES ASSUME Init PROVE IInv
  OBVIOUS
<1> USE DEF Init
<1>1. world \in WorldType
  BY ScanAssumption
<1>2. groups \in Seq(Paths) /\ (pc = "choosing" => Len(groups) = 1)
  <2>1. CASE world.mode = "directory"
    BY <2>1
  <2>2. CASE world.mode # "directory"
    <3>1. Len(world.candidates) = 1
      BY <1>1, <2>2, ScanAssumption DEF WorldType, Modes
    <3>2. world.candidates[1] \in Paths
      BY <1>1, <3>1 DEF WorldType
    <3> QED  BY <2>2, <3>2
  <2> QED  BY <2>1, <2>2
<1>3. TypeOK
  <2>1. world \in WorldType /\ pc \in PCs /\ index \in Nat \ {0} /\ lateStarts \in Nat
    BY <1>1 DEF PCs
  <2>2. /\ outcomes \in Seq(OutcomeType)
        /\ report \in Seq(Entries)
    OBVIOUS
  <2>3. /\ task \in [Paths -> TaskStates]
        /\ kind \in [Paths -> Kinds]
    BY DEF TaskStates, Kinds
  <2>4. /\ visited \subseteq Paths
        /\ chosen \in Paths \cup {NoPath}
        /\ inFlight \subseteq Paths
        /\ fatalSeen \in BOOLEAN
    OBVIOUS
  <2> QED  BY <1>2, <2>1, <2>2, <2>3, <2>4 DEF TypeOK
<1>4. SlotsInUse
  BY FS_EmptySet, ScanAssumption DEF SlotsInUse, SlotBound
<1>5. LoopPosition
  BY <1>2 DEF LoopPosition
<1>6. VisitedFirst /\ RecordedOnce
  BY DEF VisitedFirst, RecordedOnce, Started
<1>7. LateStartIsLast /\ FatalHasACause
  BY DEF LateStartIsLast, FatalHasACause
<1>8. ReportSoFar
  BY DEF ReportSoFar
<1> QED  BY <1>3, <1>4, <1>5, <1>6, <1>7, <1>8 DEF IInv

-----------------------------------------------------------------------------
(* The variables keep their types.                                         *)

LEMMA GroupIsAPath ==
  ASSUME TypeOK, LoopPosition, pc \in {"choosing", "slot"}
  PROVE  Group \in Paths /\ index + 1 \in Nat \ {0}
BY DEF TypeOK, LoopPosition, Group

LEMMA StartMeasurementType ==
  ASSUME TypeOK, NEW path \in Paths, NEW real \in Paths, StartMeasurement(path, real)
  PROVE  /\ task' \in [Paths -> TaskStates] /\ kind' \in [Paths -> Kinds]
         /\ inFlight' \subseteq Paths /\ fatalSeen' \in BOOLEAN
         /\ outcomes' \in Seq(OutcomeType) /\ lateStarts' \in Nat
         /\ chosen' \in Paths \cup {NoPath} /\ index' \in Nat \ {0} /\ pc' \in PCs
<1>1. Promise(path, real) \in OutcomeType
  BY DEF Promise, OutcomeType
<1>2. outcomes' \in Seq(OutcomeType)
  BY <1>1 DEF TypeOK, StartMeasurement
<1>3. task' \in [Paths -> TaskStates]
  BY DEF TypeOK, StartMeasurement, TaskStates
<1> QED  BY <1>2, <1>3 DEF TypeOK, StartMeasurement, PCs

LEMMA SettleType ==
  ASSUME TypeOK, NEW real \in Paths, NEW k \in Kinds, Settle(real, k)
  PROVE  /\ task' \in [Paths -> TaskStates] /\ kind' \in [Paths -> Kinds]
         /\ inFlight' \subseteq Paths /\ fatalSeen' \in BOOLEAN
BY DEF TypeOK, Settle, TaskStates

LEMMA TypeInductive == TypeOK /\ LoopPosition /\ [Next]_vars => TypeOK'
<1> SUFFICES ASSUME TypeOK, LoopPosition, [Next]_vars PROVE TypeOK'
  OBVIOUS
<1> USE DEF vars, mainVars, taskVars
<1>0. world \in WorldType
  BY DEF TypeOK
<1>1. CASE LoadExclusion
  BY <1>1 DEF LoadExclusion, TypeOK, PCs
<1>2. CASE ResolveCandidate
  <2> DEFINE path == world.candidates[index]
             real == world.realOf[path]
  <2>1. path \in Paths /\ real \in Paths \cup {NoPath}
    <3>1. index \in 1..Len(world.candidates)
      BY <1>0, <1>2 DEF ResolveCandidate, TypeOK, WorldType
    <3>2. path \in Paths
      BY <1>0, <3>1 DEF WorldType
    <3> QED  BY <1>0, <3>2 DEF WorldType
  <2>2. Failed(path) \in OutcomeType
    BY <2>1 DEF Failed, OutcomeType
  <2>3. outcomes' \in Seq(OutcomeType)
    <3>1. outcomes' = outcomes \/ outcomes' = Append(outcomes, Failed(path))
      BY <1>2 DEF ResolveCandidate
    <3>2. outcomes \in Seq(OutcomeType)
      BY DEF TypeOK
    <3> HIDE DEF path
    <3> QED  BY <2>2, <3>1, <3>2
  <2>4. groups' \in Seq(Paths)
    <3>1. groups' = groups \/ (real # NoPath /\ groups' = Append(groups, real))
      BY <1>2 DEF ResolveCandidate
    <3>2. groups \in Seq(Paths)
      BY DEF TypeOK
    <3> HIDE DEF real
    <3> QED  BY <2>1, <3>1, <3>2
  <2> QED  BY <1>2, <2>3, <2>4 DEF ResolveCandidate, TypeOK
<1>3. CASE AllResolved
  BY <1>3 DEF AllResolved, TypeOK, PCs
<1>4. CASE NextGroup
  BY <1>4 DEF NextGroup, TypeOK, PCs
<1>5. CASE MeasureFile
  <2> DEFINE path == ChooseMeasuredPath(world, Group)
  <2>1. Group \in Paths /\ index + 1 \in Nat \ {0}
    BY <1>5, GroupIsAPath DEF MeasureFile
  <2>2. path \in Paths \cup {NoPath}
    BY <1>0, <2>1, ChosenPathIsAPath
  <2>3. CASE SkipGroup
    BY <1>5, <2>1, <2>3 DEF MeasureFile, SkipGroup, TypeOK, PCs
  <2>4. CASE path # NoPath /\ visited' = visited \cup {Group} /\ StartMeasurement(path, Group)
    BY <1>5, <2>1, <2>2, <2>4, StartMeasurementType DEF MeasureFile, TypeOK
  <2>5. CASE /\ path # NoPath /\ visited' = visited \cup {Group}
             /\ chosen' = path /\ pc' = "slot"
             /\ UNCHANGED <<index, outcomes, taskVars, lateStarts>>
    BY <1>5, <2>1, <2>2, <2>5 DEF MeasureFile, TypeOK, PCs
  <2> QED  BY <1>5, <2>3, <2>4, <2>5 DEF MeasureFile
<1>6. CASE SlotFreed
  <2>1. CASE chosen \in Paths
    <3>1. Group \in Paths
      BY <1>6, GroupIsAPath DEF SlotFreed
    <3> QED  BY <1>6, <2>1, <3>1, StartMeasurementType DEF SlotFreed, TypeOK
  <2> QED  BY <1>6, <2>1 DEF SlotFreed, LoopPosition
<1>7. CASE ApplyOutcome
  <2> DEFINE k == IF NextOutcome.real = NoPath THEN "error" ELSE kind[NextOutcome.real]
  <2>1. NextOutcome \in OutcomeType
    BY <1>7 DEF ApplyOutcome, NextOutcome, TypeOK
  <2>2. k \in Kinds
    BY <2>1 DEF TypeOK, OutcomeType, Kinds
  <2>3. [path |-> NextOutcome.path, kind |-> k] \in Entries
    BY <2>1, <2>2 DEF OutcomeType, Entries
  <2>4. report' = Append(report, [path |-> NextOutcome.path, kind |-> k])
    BY <1>7 DEF ApplyOutcome
  <2>5. report' \in Seq(Entries)
    BY <2>3, <2>4 DEF TypeOK
  <2> QED  BY <1>7, <2>5 DEF ApplyOutcome, TypeOK, PCs
<1>8. CASE AllApplied
  BY <1>8 DEF AllApplied, TypeOK, PCs
<1>9. ASSUME NEW real \in Paths, FileRead(real)
      PROVE  TypeOK'
  <2>1. \A k \in {"error", "generated"} : k \in Kinds
    BY DEF Kinds
  <2>2. MeasuredKind(world, real) \in Kinds
    BY MeasuredKindIsAKind
  <2>3. CASE \E k \in Kinds : Settle(real, k)
    BY <1>9, <2>3, SettleType DEF FileRead, TypeOK
  <2>4. CASE task' = [task EXCEPT ![real] = "measuring"] /\ UNCHANGED <<kind, inFlight, fatalSeen>>
    BY <1>9, <2>4 DEF FileRead, TypeOK, TaskStates
  <2> QED  BY <1>9, <2>1, <2>2, <2>3, <2>4 DEF FileRead
<1>10. ASSUME NEW real \in Paths, Measured(real)
       PROVE  TypeOK'
  BY <1>10, MeasuredKindIsAKind, SettleType DEF Measured, TypeOK
<1>11. ASSUME NEW real \in Paths, FreeSlot(real)
       PROVE  TypeOK'
  BY <1>11 DEF FreeSlot, TypeOK
<1>12. CASE UNCHANGED vars
  BY <1>12 DEF TypeOK
<1> QED
  BY <1>1, <1>2, <1>3, <1>4, <1>5, <1>6, <1>7, <1>8, <1>9, <1>10, <1>11, <1>12
     DEF Next, Main, Task

-----------------------------------------------------------------------------
(* What MeasureFile, SlotFreed, FileRead and Measured come to under IInv.  *)

Skipping ==
  /\ pc = "choosing"
  /\ pc' = "next"
  /\ UNCHANGED <<visited, chosen, outcomes, taskVars, lateStarts, world, groups, report>>

Waiting ==
  /\ pc = "choosing"
  /\ pc' = "slot"
  /\ chosen' \in Paths
  /\ task[Group] = "idle"
  /\ visited' = visited \cup {Group}
  /\ UNCHANGED <<world, index, groups, report, outcomes, taskVars, lateStarts>>

Starting(path) ==
  /\ pc \in {"choosing", "slot"}
  /\ pc = "choosing" => ~fatalSeen
  /\ Group \in Paths
  /\ task[Group] = "idle"
  /\ ~MustWait
  /\ visited' = visited \cup {Group}
  /\ StartMeasurement(path, Group)
  /\ UNCHANGED <<world, groups, report>>

Settling(real, k) ==
  /\ task[real] \in {"reading", "measuring"}
  /\ Settle(real, k)
  /\ UNCHANGED <<mainVars, outcomes, lateStarts>>

LEMMA MeasureFileCases ==
  ASSUME IInv, MeasureFile
  PROVE  Skipping \/ Waiting \/ \E path \in Paths : Starting(path)
<1> DEFINE path == ChooseMeasuredPath(world, Group)
<1> USE DEF IInv
<1>1. Group \in Paths
  BY GroupIsAPath DEF MeasureFile
<1>2. world \in WorldType
  BY DEF TypeOK
<1>3. path \in Paths \cup {NoPath}
  BY <1>1, <1>2, ChosenPathIsAPath
<1>4. CASE SkipGroup
  BY <1>4 DEF MeasureFile, SkipGroup, Skipping
<1>5. CASE path # NoPath /\ ~Stopped /\ Group \notin visited
  <2>1. task[Group] = "idle"
    BY <1>1, <1>5 DEF VisitedFirst, Started
  <2>2. visited' = visited \cup {Group} /\ UNCHANGED <<world, groups, report>> /\ pc = "choosing"
    BY <1>5 DEF MeasureFile, SkipGroup
  <2>3. CASE MustWait
    BY <1>3, <1>5, <2>1, <2>2, <2>3 DEF MeasureFile, Waiting
  <2>4. CASE ~MustWait
    <3>1. StartMeasurement(path, Group)
      BY <1>5, <2>4 DEF MeasureFile
    <3>2. Starting(path)
      BY <1>1, <1>5, <2>1, <2>2, <2>4, <3>1 DEF Starting, Stopped
    <3> QED  BY <1>3, <1>5, <3>2
  <2> QED  BY <2>3, <2>4
<1> QED  BY <1>4, <1>5 DEF MeasureFile

LEMMA SlotFreedCases ==
  ASSUME IInv, SlotFreed
  PROVE  \E path \in Paths : Starting(path)
<1>1. Group \in Paths
  BY GroupIsAPath DEF IInv, SlotFreed
<1>2. Group \in visited /\ task[Group] = "idle" /\ chosen \in Paths
  BY DEF IInv, LoopPosition, SlotFreed
<1>3. visited' = visited \cup {Group}
  BY <1>2 DEF SlotFreed
<1> QED  BY <1>1, <1>2, <1>3 DEF SlotFreed, Starting

LEMMA AnswerCases ==
  ASSUME IInv, NEW real \in Paths, FileRead(real) \/ Measured(real)
  PROVE  \/ \E k \in Kinds : Settling(real, k)
         \/ /\ task[real] = "reading"
            /\ task' = [task EXCEPT ![real] = "measuring"]
            /\ UNCHANGED <<mainVars, kind, inFlight, fatalSeen, outcomes, lateStarts>>
<1>1. "error" \in Kinds /\ "generated" \in Kinds
  BY DEF Kinds
<1>2. MeasuredKind(world, real) \in Kinds
  BY MeasuredKindIsAKind
<1> QED  BY <1>1, <1>2 DEF FileRead, Measured, Settling

-----------------------------------------------------------------------------
(* A measurement starts.                                                   *)

LEMMA StartKeepsIInv ==
  ASSUME IInv, TypeOK', NEW path \in Paths, Starting(path)
  PROVE  IInv'
<1> DEFINE n == Len(outcomes)
<1>1. /\ task' = [task EXCEPT ![Group] = "reading"]
      /\ inFlight' = inFlight \cup {Group}
      /\ outcomes' = Append(outcomes, [path |-> path, real |-> Group])
      /\ pc' = "next"
      /\ UNCHANGED <<kind, fatalSeen, report>>
  BY DEF Starting, StartMeasurement, Promise
<1>2. Group \in Paths /\ task[Group] = "idle" /\ visited' = visited \cup {Group}
  BY DEF Starting
<1>3. /\ n \in Nat /\ Len(outcomes') = n + 1
      /\ \A i \in 1..n : outcomes'[i] = outcomes[i]
      /\ outcomes'[n + 1] = [path |-> path, real |-> Group]
  BY <1>1 DEF IInv, TypeOK
<1>4. /\ \A r \in Paths : r # Group => task'[r] = task[r]
      /\ task'[Group] = "reading"
  BY <1>1, <1>2 DEF IInv, TypeOK
<1>5. SlotsInUse'
  <2>1. IsFiniteSet(inFlight') /\ Cardinality(inFlight') <= Cardinality(inFlight) + 1
    <3>1. IsFiniteSet(inFlight) /\ Cardinality(inFlight) \in Nat
      BY FS_CardinalityType DEF IInv, SlotsInUse
    <3>2. inFlight' = inFlight \cup {Group}
      BY <1>1
    <3> HIDE DEF Group
    <3>3. /\ IsFiniteSet(inFlight \cup {Group})
          /\ \/ Cardinality(inFlight \cup {Group}) = Cardinality(inFlight)
             \/ Cardinality(inFlight \cup {Group}) = Cardinality(inFlight) + 1
      BY <3>1, FS_AddElement, Zenon
    <3> QED  BY <3>1, <3>2, <3>3
  <2>2. Cardinality(inFlight) \in Nat /\ Cardinality(inFlight') \in Nat
    BY <2>1, FS_CardinalityType DEF IInv, SlotsInUse
  <2>3. Cardinality(inFlight) < MaxInFlight
    BY <2>2, ScanAssumption DEF Starting, MustWait
  <2>4. Cardinality(inFlight') <= MaxInFlight
    BY <2>1, <2>2, <2>3, ScanAssumption
  <2>5. \A r \in Paths : task'[r] \in {"reading", "measuring"} => r \in inFlight'
    BY <1>1, <1>4 DEF IInv, SlotsInUse, SlotBound
  <2> QED  BY <2>1, <2>4, <2>5 DEF SlotsInUse, SlotBound
<1>6. LoopPosition'
  BY <1>1 DEF LoopPosition
<1>7. VisitedFirst'
  BY <1>2, <1>4 DEF IInv, VisitedFirst, Started
<1>8. RecordedOnce'
  <2>1. Started' = Started \cup {Group}
    BY <1>2, <1>4 DEF Started
  <2>2. \A i \in 1..n : outcomes[i].real # Group
    BY <1>2, NoPathAssumption DEF IInv, RecordedOnce, Started
  <2>3. \A r \in Started' : \E i \in 1..(n + 1) : outcomes'[i].real = r
    BY <1>3, <2>1 DEF IInv, RecordedOnce
  <2>4. \A i, j \in 1..(n + 1) :
          outcomes'[i].real = outcomes'[j].real /\ outcomes'[i].real # NoPath => i = j
    BY <1>3, <2>2 DEF IInv, RecordedOnce
  <2>5. \A i \in 1..(n + 1) : outcomes'[i].real # NoPath => outcomes'[i].real \in Started'
    BY <1>3, <2>1 DEF IInv, RecordedOnce
  <2> QED  BY <1>3, <2>3, <2>4, <2>5 DEF RecordedOnce
<1>9. LateStartIsLast'
  <2>1. lateStarts = 0
    BY DEF IInv, LateStartIsLast, Starting, TypeOK
  <2> QED  BY <1>1, <2>1 DEF LateStartIsLast, Starting, StartMeasurement
<1>10. FatalHasACause'
  BY <1>1, <1>2, <1>4 DEF IInv, FatalHasACause
<1>11. ReportSoFar'
  <2>1. report' = <<>>
    BY <1>1 DEF IInv, ReportSoFar, Starting
  <2> QED  BY <1>1, <1>3, <2>1 DEF ReportSoFar
<1> QED  BY <1>5, <1>6, <1>7, <1>8, <1>9, <1>10, <1>11 DEF IInv

-----------------------------------------------------------------------------
(* A measurement settles.                                                  *)

LEMMA SettleKeepsIInv ==
  ASSUME IInv, TypeOK', NEW real \in Paths, NEW k \in Kinds, Settling(real, k)
  PROVE  IInv'
<1>1. /\ task' = [task EXCEPT ![real] = "settled"]
      /\ kind' = [kind EXCEPT ![real] = k]
      /\ fatalSeen' = (fatalSeen \/ k = "fatal")
      /\ UNCHANGED <<mainVars, inFlight, outcomes, lateStarts>>
  BY DEF Settling, Settle
<1>2. task[real] \in {"reading", "measuring"}
  BY DEF Settling
<1>3. /\ \A r \in Paths : r # real => task'[r] = task[r] /\ kind'[r] = kind[r]
      /\ task'[real] = "settled" /\ kind'[real] = k
  BY <1>1 DEF IInv, TypeOK
<1>4. UNCHANGED <<world, pc, index, groups, visited, chosen, report, Group>>
  BY <1>1 DEF mainVars, Group
<1>5. SlotsInUse'
  BY <1>1, <1>3 DEF IInv, SlotsInUse, SlotBound
<1>6. LoopPosition'
  <2>1. pc = "slot" => task'[Group] = "idle"
    <3>1. SUFFICES ASSUME pc = "slot" PROVE task'[Group] = "idle"
      OBVIOUS
    <3>2. Group \in Paths /\ task[Group] = "idle"
      BY <3>1, GroupIsAPath DEF IInv, LoopPosition
    <3> QED  BY <1>2, <1>3, <3>2
  <2> QED  BY <1>4, <2>1 DEF IInv, LoopPosition, Group
<1>7. Started' = Started
  BY <1>2, <1>3 DEF Started
<1>8. VisitedFirst' /\ RecordedOnce'
  BY <1>1, <1>4, <1>7 DEF IInv, VisitedFirst, RecordedOnce
<1>9. LateStartIsLast'
  BY <1>1, <1>4 DEF IInv, LateStartIsLast
<1>10. FatalHasACause'
  BY <1>1, <1>2, <1>3 DEF IInv, FatalHasACause
<1>11. ReportSoFar'
  <2>1. ASSUME pc = "settle", NEW i \in 1..Len(report)
        PROVE  SettledAs(outcomes[i], report[i].kind)'
    <3>1. outcomes[i] \in OutcomeType
      BY DEF IInv, TypeOK, ReportSoFar
    <3>2. outcomes[i].real # NoPath => outcomes[i].real # real
      BY <1>2, <2>1 DEF IInv, ReportSoFar, SettledAs
    <3> QED  BY <1>1, <1>3, <1>4, <2>1, <3>1, <3>2 DEF IInv, ReportSoFar, SettledAs, OutcomeType
  <2>2. pc = "done" => report # <<>> /\ report[Len(report)].kind = "fatal"
    BY <1>2 DEF IInv, ReportSoFar
  <2> QED  BY <1>1, <1>4, <2>1, <2>2 DEF IInv, ReportSoFar, SettledAs
<1> QED  BY <1>5, <1>6, <1>8, <1>9, <1>10, <1>11 DEF IInv

-----------------------------------------------------------------------------
(* A file was read and its measurement goes on, or a slot is given back.   *)

LEMMA ReadKeepsIInv ==
  ASSUME IInv, TypeOK', NEW real \in Paths, task[real] = "reading",
         task' = [task EXCEPT ![real] = "measuring"],
         UNCHANGED <<mainVars, kind, inFlight, fatalSeen, outcomes, lateStarts>>
  PROVE  IInv'
<1>1. UNCHANGED <<world, pc, index, groups, visited, chosen, report, Group>>
  BY DEF mainVars, Group
<1>2. /\ \A r \in Paths : r # real => task'[r] = task[r]
      /\ task'[real] = "measuring"
  BY DEF IInv, TypeOK
<1>3. SlotsInUse'
  BY <1>2 DEF IInv, SlotsInUse, SlotBound
<1>4. LoopPosition'
  <2>1. ASSUME pc = "slot" PROVE task'[Group] = "idle"
    <3>1. Group \in Paths /\ task[Group] = "idle"
      BY <2>1, GroupIsAPath DEF IInv, LoopPosition
    <3> QED  BY <1>2, <3>1
  <2> QED  BY <1>1, <2>1 DEF IInv, LoopPosition, Group
<1>5. Started' = Started
  BY <1>2 DEF Started
<1>6. VisitedFirst' /\ RecordedOnce'
  BY <1>1, <1>5 DEF IInv, VisitedFirst, RecordedOnce
<1>7. LateStartIsLast'
  BY <1>1 DEF IInv, LateStartIsLast
<1>8. FatalHasACause'
  BY <1>2 DEF IInv, FatalHasACause
<1>9. ReportSoFar'
  <2>1. ASSUME pc = "settle", NEW i \in 1..Len(report)
        PROVE  SettledAs(outcomes[i], report[i].kind)'
    <3>1. outcomes[i] \in OutcomeType
      BY DEF IInv, TypeOK, ReportSoFar
    <3>2. SettledAs(outcomes[i], report[i].kind)
      BY <2>1 DEF IInv, ReportSoFar
    <3> QED  BY <1>1, <1>2, <3>1, <3>2 DEF SettledAs, OutcomeType
  <2>2. pc = "done" => report # <<>> /\ report[Len(report)].kind = "fatal"
    BY DEF IInv, ReportSoFar
  <2> QED  BY <1>1, <2>1, <2>2 DEF IInv, ReportSoFar
<1> QED  BY <1>3, <1>4, <1>6, <1>7, <1>8, <1>9 DEF IInv

LEMMA FreeKeepsIInv ==
  ASSUME IInv, TypeOK', NEW real \in Paths, FreeSlot(real)
  PROVE  IInv'
<1>1. /\ task[real] = "settled" /\ inFlight' = inFlight \ {real}
      /\ UNCHANGED <<world, pc, index, groups, visited, chosen, report, Group>>
      /\ UNCHANGED <<task, kind, fatalSeen, outcomes, lateStarts>>
  BY DEF FreeSlot, mainVars, Group
<1>2. SlotsInUse'
  <2>1. /\ IsFiniteSet(inFlight) /\ Cardinality(inFlight) \in Nat
        /\ Cardinality(inFlight) <= MaxInFlight
    BY FS_CardinalityType DEF IInv, SlotsInUse, SlotBound
  <2>2. /\ IsFiniteSet(inFlight \ {real})
        /\ Cardinality(inFlight \ {real}) =
             IF real \in inFlight THEN Cardinality(inFlight) - 1 ELSE Cardinality(inFlight)
    BY <2>1, FS_RemoveElement, Zenon
  <2>3. IsFiniteSet(inFlight') /\ Cardinality(inFlight') <= MaxInFlight
    BY <1>1, <2>1, <2>2, ScanAssumption
  <2>4. \A r \in Paths : task'[r] \in {"reading", "measuring"} => r \in inFlight'
    BY <1>1 DEF IInv, SlotsInUse, SlotBound
  <2> QED  BY <2>3, <2>4 DEF SlotsInUse, SlotBound
<1>3. LoopPosition' /\ VisitedFirst' /\ RecordedOnce' /\ LateStartIsLast' /\ FatalHasACause'
  BY <1>1 DEF IInv, LoopPosition, VisitedFirst, Started, RecordedOnce, LateStartIsLast,
              FatalHasACause
<1>4. ReportSoFar'
  BY <1>1 DEF IInv, ReportSoFar, SettledAs
<1> QED  BY <1>2, <1>3, <1>4 DEF IInv

-----------------------------------------------------------------------------
(* The report grows by the outcome the loop of settleScan awaited.         *)

LEMMA ApplyKeepsIInv ==
  ASSUME IInv, TypeOK', ApplyOutcome
  PROVE  IInv'
<1> DEFINE m == Len(report)
           k == IF NextOutcome.real = NoPath THEN "error" ELSE kind[NextOutcome.real]
<1>1. /\ pc = "settle" /\ m < Len(outcomes)
      /\ report' = Append(report, [path |-> NextOutcome.path, kind |-> k])
      /\ pc' = IF k = "fatal" THEN "done" ELSE "settle"
      /\ UNCHANGED <<world, index, groups, visited, chosen, outcomes, lateStarts>>
      /\ UNCHANGED <<task, kind, inFlight, fatalSeen>>
  BY DEF ApplyOutcome, taskVars
<1>2. SettledAs(outcomes[m + 1], k)
  BY DEF ApplyOutcome, SettledAs, NextOutcome
<1>3. /\ m \in Nat /\ Len(report') = m + 1
      /\ \A i \in 1..m : report'[i] = report[i]
      /\ report'[m + 1].kind = k
  <2> HIDE DEF k
  <2> QED  BY <1>1 DEF IInv, TypeOK
<1> HIDE DEF k
<1>4. SlotsInUse' /\ VisitedFirst' /\ RecordedOnce' /\ FatalHasACause'
  BY <1>1 DEF IInv, SlotsInUse, SlotBound, VisitedFirst, RecordedOnce, Started, FatalHasACause
<1>5. LoopPosition' /\ LateStartIsLast'
  BY <1>1 DEF IInv, LoopPosition, LateStartIsLast
<1>6. ReportSoFar'
  <2>1. Len(report') <= Len(outcomes')
    BY <1>1, <1>3 DEF IInv, TypeOK
  <2>2. CASE k = "fatal"
    <3>1. pc' = "done" /\ report' # <<>> /\ report'[Len(report')].kind = "fatal"
      BY <1>1, <1>3, <2>2
    <3> QED  BY <2>1, <3>1 DEF ReportSoFar
  <2>3. CASE k # "fatal"
    <3>1. pc' = "settle"
      BY <1>1, <2>3
    <3>2. \A i \in 1..m : report[i].kind # "fatal" /\ SettledAs(outcomes[i], report[i].kind)
      BY <1>1 DEF IInv, ReportSoFar
    <3>3. ASSUME NEW i \in 1..(m + 1)
          PROVE  report'[i].kind # "fatal" /\ SettledAs(outcomes[i], report[i].kind)'
      <4>1. report'[i].kind # "fatal" /\ SettledAs(outcomes[i], report'[i].kind)
        BY <1>2, <1>3, <2>3, <3>2
      <4> QED  BY <1>1, <4>1 DEF SettledAs
    <3> QED  BY <1>3, <2>1, <3>1, <3>3 DEF ReportSoFar
  <2> QED  BY <2>2, <2>3
<1> QED  BY <1>4, <1>5, <1>6 DEF IInv

(* Every outcome was applied: every measurement that started has settled,  *)
(* and none of them was fatal.                                             *)
LEMMA AllAppliedKeepsIInv ==
  ASSUME IInv, TypeOK', AllApplied
  PROVE  IInv'
<1>1. /\ pc = "settle" /\ Len(report) = Len(outcomes) /\ pc' = "done"
      /\ UNCHANGED <<world, index, groups, visited, chosen, report, outcomes, lateStarts>>
      /\ UNCHANGED <<task, kind, inFlight, fatalSeen>>
  BY DEF AllApplied, taskVars
<1>2. SlotsInUse' /\ VisitedFirst' /\ RecordedOnce' /\ FatalHasACause'
  BY <1>1 DEF IInv, SlotsInUse, SlotBound, VisitedFirst, RecordedOnce, Started, FatalHasACause
<1>3. LoopPosition' /\ LateStartIsLast'
  BY <1>1 DEF IInv, LoopPosition, LateStartIsLast
<1>4. ASSUME NEW r \in Paths, task[r] # "idle"
      PROVE  task[r] = "settled" /\ kind[r] # "fatal"
  <2>1. PICK i \in 1..Len(outcomes) : outcomes[i].real = r
    BY <1>4 DEF IInv, RecordedOnce, Started
  <2>2. report[i].kind # "fatal" /\ SettledAs(outcomes[i], report[i].kind)
    BY <1>1 DEF IInv, ReportSoFar
  <2> QED  BY <2>1, <2>2, NoPathAssumption DEF SettledAs
<1>5. ~fatalSeen /\ \A r \in Paths : task[r] \in {"idle", "settled"}
  BY <1>4 DEF IInv, FatalHasACause
<1>6. ReportSoFar'
  BY <1>1, <1>5 DEF IInv, ReportSoFar
<1> QED  BY <1>2, <1>3, <1>6 DEF IInv

-----------------------------------------------------------------------------
(* The steps of the main continuation that start and apply nothing.        *)

LEMMA ResolveKeepsIInv ==
  ASSUME IInv, TypeOK', ResolveCandidate
  PROVE  IInv'
<1> DEFINE path == world.candidates[index]
<1>1. /\ pc = "resolve" /\ pc' = pc
      /\ outcomes' = outcomes \/ outcomes' = Append(outcomes, Failed(path))
      /\ UNCHANGED <<world, visited, chosen, report, lateStarts>>
      /\ UNCHANGED <<task, kind, inFlight, fatalSeen>>
  BY DEF ResolveCandidate, taskVars
<1> HIDE DEF path
<1>2. SlotsInUse' /\ VisitedFirst' /\ FatalHasACause' /\ LateStartIsLast' /\ LoopPosition'
  BY <1>1 DEF IInv, SlotsInUse, SlotBound, VisitedFirst, Started, FatalHasACause,
              LateStartIsLast, LoopPosition
<1>3. Started' = Started
  BY <1>1 DEF Started
<1>4. RecordedOnce'
  <2>1. CASE outcomes' = outcomes
    BY <1>3, <2>1 DEF IInv, RecordedOnce
  <2>2. CASE outcomes' = Append(outcomes, Failed(path))
    <3> DEFINE n == Len(outcomes)
    <3>1. /\ n \in Nat /\ Len(outcomes') = n + 1
          /\ \A i \in 1..n : outcomes'[i] = outcomes[i]
          /\ outcomes'[n + 1].real = NoPath
      BY <2>2 DEF IInv, TypeOK, Failed
    <3>2. \A r \in Started' : \E i \in 1..(n + 1) : outcomes'[i].real = r
      BY <1>3, <3>1 DEF IInv, RecordedOnce
    <3>3. \A i, j \in 1..(n + 1) :
            outcomes'[i].real = outcomes'[j].real /\ outcomes'[i].real # NoPath => i = j
      BY <3>1 DEF IInv, RecordedOnce
    <3>4. \A i \in 1..(n + 1) : outcomes'[i].real # NoPath => outcomes'[i].real \in Started'
      BY <1>3, <3>1 DEF IInv, RecordedOnce
    <3> QED  BY <3>1, <3>2, <3>3, <3>4 DEF RecordedOnce
  <2> QED  BY <1>1, <2>1, <2>2
<1>5. ReportSoFar'
  <2>1. report' = <<>> /\ pc' = "resolve"
    BY <1>1 DEF IInv, ReportSoFar
  <2>2. Len(report') <= Len(outcomes')
    BY <2>1 DEF TypeOK
  <2> QED  BY <2>1, <2>2 DEF ReportSoFar
<1> QED  BY <1>2, <1>4, <1>5 DEF IInv

(* A step that only moves the loop: to a state before the report, or to a  *)
(* group that exists.                                                      *)
LEMMA MoveKeepsIInv ==
  ASSUME IInv, TypeOK',
         UNCHANGED <<world, groups, report, task, kind, inFlight, fatalSeen, outcomes, lateStarts>>,
         visited \subseteq visited', LoopPosition', pc \notin {"settle", "done"}, pc' # "done",
         lateStarts > 0 => pc' \in {"next", "settle"}
  PROVE  IInv'
<1>1. SlotsInUse' /\ VisitedFirst' /\ FatalHasACause' /\ RecordedOnce'
  BY DEF IInv, SlotsInUse, SlotBound, VisitedFirst, Started, FatalHasACause, RecordedOnce
<1>2. LateStartIsLast'
  BY DEF IInv, LateStartIsLast
<1>3. ReportSoFar'
  <2>1. report' = <<>>
    BY DEF IInv, ReportSoFar
  <2>2. Len(report') <= Len(outcomes')
    BY <2>1 DEF TypeOK
  <2> QED  BY <2>1, <2>2 DEF ReportSoFar
<1> QED  BY <1>1, <1>2, <1>3 DEF IInv

LEMMA IInvInductive == IInv /\ [Next]_vars => IInv'
<1> SUFFICES ASSUME IInv, [Next]_vars PROVE IInv'
  OBVIOUS
<1>0. TypeOK'
  BY TypeInductive DEF IInv
<1>1. CASE LoadExclusion
  BY <1>0, <1>1, MoveKeepsIInv
     DEF IInv, LoadExclusion, taskVars, LoopPosition, LateStartIsLast, TypeOK
<1>2. CASE ResolveCandidate
  BY <1>0, <1>2, ResolveKeepsIInv
<1>3. CASE AllResolved
  BY <1>0, <1>3, MoveKeepsIInv
     DEF IInv, AllResolved, taskVars, LoopPosition, LateStartIsLast, TypeOK
<1>4. CASE NextGroup
  <2>1. LoopPosition'
    BY <1>4 DEF IInv, NextGroup, LoopPosition, TypeOK
  <2>2. lateStarts > 0 => pc' = "settle"
    BY <1>4 DEF IInv, NextGroup, LateStartIsLast, Stopped
  <2> QED  BY <1>0, <1>4, <2>1, <2>2, MoveKeepsIInv DEF NextGroup, taskVars
<1>5. CASE MeasureFile
  <2>1. CASE Skipping
    BY <1>0, <1>5, <2>1, MoveKeepsIInv DEF MeasureFile, Skipping, taskVars, LoopPosition
  <2>2. CASE Waiting
    <3>1. LoopPosition'
      BY <2>2 DEF IInv, Waiting, taskVars, LoopPosition, Group
    <3>2. ~(lateStarts > 0)
      BY <2>2 DEF IInv, Waiting, LateStartIsLast
    <3> QED  BY <1>0, <2>2, <3>1, <3>2, MoveKeepsIInv DEF Waiting, taskVars
  <2>3. CASE \E path \in Paths : Starting(path)
    BY <1>0, <2>3, StartKeepsIInv
  <2> QED  BY <1>5, <2>1, <2>2, <2>3, MeasureFileCases
<1>6. CASE SlotFreed
  BY <1>0, <1>6, SlotFreedCases, StartKeepsIInv
<1>7. CASE ApplyOutcome
  BY <1>0, <1>7, ApplyKeepsIInv
<1>8. CASE AllApplied
  BY <1>0, <1>8, AllAppliedKeepsIInv
<1>9. ASSUME NEW real \in Paths, FileRead(real) \/ Measured(real)
      PROVE  IInv'
  <2>1. CASE \E k \in Kinds : Settling(real, k)
    BY <1>0, <2>1, SettleKeepsIInv
  <2>2. CASE /\ task[real] = "reading"
             /\ task' = [task EXCEPT ![real] = "measuring"]
             /\ UNCHANGED <<mainVars, kind, inFlight, fatalSeen, outcomes, lateStarts>>
    BY <1>0, <2>2, ReadKeepsIInv
  <2> QED  BY <1>9, <2>1, <2>2, AnswerCases
<1>10. ASSUME NEW real \in Paths, FreeSlot(real)
       PROVE  IInv'
  BY <1>0, <1>10, FreeKeepsIInv
<1>11. CASE UNCHANGED vars
  <2>1. UNCHANGED <<world, pc, index, groups, visited, chosen, report, task, kind, inFlight,
                    fatalSeen, outcomes, lateStarts>>
    BY <1>11 DEF vars, mainVars, taskVars
  <2> QED
    BY <1>0, <2>1 DEF IInv, SlotsInUse, SlotBound, LoopPosition, Group, VisitedFirst, Started,
                      RecordedOnce, LateStartIsLast, FatalHasACause, ReportSoFar, SettledAs
<1> QED
  BY <1>1, <1>2, <1>3, <1>4, <1>5, <1>6, <1>7, <1>8, <1>9, <1>10, <1>11 DEF Next, Main, Task

-----------------------------------------------------------------------------
(* The properties of the specification.                                    *)

LEMMA IInvAlways == Safety => []IInv
BY InitIInv, IInvInductive, PTL DEF Safety

(* Every variable keeps to its type, whatever the scan finds. *)
THEOREM TypeCorrect == Safety => []TypeOK
<1>1. IInv => TypeOK
  BY DEF IInv
<1> QED  BY IInvAlways, <1>1, PTL

(* No more than MaxInFlight measurements hold a file at a time: the wait   *)
(* for a slot in measureFile (scan.ts:109) bounds the memory of a scan.    *)
THEOREM SlotsBounded == Safety => []SlotBound
<1>1. IInv => SlotBound
  BY DEF IInv, SlotsInUse
<1> QED  BY IInvAlways, <1>1, PTL

(* A started measurement has exactly one outcome for settleScan to await,  *)
(* however many candidates and links lead to its file.                     *)
THEOREM RecordedOnceAlways == Safety => []RecordedOnce
<1>1. IInv => RecordedOnce
  BY DEF IInv
<1> QED  BY IInvAlways, <1>1, PTL

(* After a fatal failure at most the measurement that was already waiting  *)
(* for a slot still starts.                                                *)
THEOREM LateStartsBounded == Safety => []AtMostOneLateStart
<1>1. IInv => AtMostOneLateStart
  BY DEF IInv, LateStartIsLast, AtMostOneLateStart, TypeOK
<1> QED  BY IInvAlways, <1>1, PTL

(* A scan that saw a fatal failure never ends as if it had succeeded: the  *)
(* last outcome settleScan applied is the fatal one.                       *)
THEOREM FatalReported == Safety => []FatalIsReported
<1>1. IInv => FatalIsReported
  BY DEF IInv, ReportSoFar, FatalIsReported
<1> QED  BY IInvAlways, <1>1, PTL

-----------------------------------------------------------------------------
(* Why a scan reports what the sequential scan reports: how much of its    *)
(* report is laid out in `outcomes`, inductive together with IInv.         *)

Candidates  == 1..Len(world.candidates)
RealAt(i)   == world.realOf[world.candidates[i]]
CountTo(S, n) == Cardinality({i \in S : i <= n})

(* The candidates without a real file, those each real file was found      *)
(* first through, and those of them whose file is measured.                *)
FailedAt   == Sequential!Unresolved(world)
FoundAt    == Sequential!FirstAliases(world)
MeasuredAt == Sequential!RealFiles(world)

(* The candidates the grouping loop has dealt with. *)
Resolved ==
  IF pc \in {"exclusion", "thrown"} THEN 0
  ELSE IF pc = "resolve" THEN index - 1 ELSE Len(world.candidates)

(* pathsByRealFile has one key for each real file found, in that order. *)
GroupsInOrder ==
  /\ Len(groups) = CountTo(FoundAt, Resolved)
  /\ \A g \in 1..Len(groups) : \E i \in FoundAt :
       i <= Resolved /\ CountTo(FoundAt, i) = g /\ groups[g] = RealAt(i)
  /\ \A i \in 1..Resolved : RealAt(i) # NoPath => \E g \in 1..Len(groups) : groups[g] = RealAt(i)

(* The k-th outcome is the one the sequential scan reports k-th: the       *)
(* candidates that failed, then the measured files.                        *)
FailureComes(k) ==
  \E i \in FailedAt : CountTo(FailedAt, i) = k /\ outcomes[k] = Failed(world.candidates[i])
MeasurementComes(k) ==
  \E i \in MeasuredAt :
    /\ Cardinality(FailedAt) + CountTo(MeasuredAt, i) = k
    /\ outcomes[k] = Promise(ChooseMeasuredPath(world, RealAt(i)), RealAt(i))
OutcomesInOrder == \A k \in 1..Len(outcomes) : FailureComes(k) \/ MeasurementComes(k)

(* The measured files among the groups before the n-th. *)
MeasuredBefore(n) == {i \in MeasuredAt : CountTo(FoundAt, i) < n}

(* No outcome is missing where the main continuation stands, unless a      *)
(* fatal failure made it leave the loop.                                   *)
NoOutcomeMissing ==
  /\ pc \in {"exclusion", "resolve", "thrown"} => Len(outcomes) = CountTo(FailedAt, Resolved)
  /\ (pc \in {"next", "choosing"} /\ ~fatalSeen) \/ pc = "slot" =>
       Len(outcomes) = Cardinality(FailedAt) + Cardinality(MeasuredBefore(index))
  /\ pc = "settle" =>
       fatalSeen \/ Len(outcomes) = Cardinality(FailedAt) + Cardinality(MeasuredAt)

(* The loop has visited no group it has not come to yet. *)
VisitedBefore(n) == \A r \in visited : \E g \in 1..Len(groups) : g < n /\ groups[g] = r
VisitedSoFar ==
  /\ pc \in {"exclusion", "resolve"} => visited = {}
  /\ pc \in {"next", "choosing"} => VisitedBefore(index)
  /\ pc = "slot" => VisitedBefore(index + 1)

(* A measurement comes to what the world says of its file. *)
KindsAreTheWorlds == \A r \in Paths :
  /\ task[r] = "settled" => kind[r] = Sequential!KindOf(world, r)
  /\ task[r] = "measuring" =>
       /\ world.mode = "directory"
       /\ world.fate[r] # "unreadable"
       /\ ~JudgedGenerated(world, ChooseMeasuredPath(world, r), r)

OrderInv ==
  /\ world \in Worlds
  /\ pc \notin {"exclusion", "thrown"} => world.exclusion # "broken"
  /\ pc \in {"exclusion", "resolve", "thrown"} => Started = {}
  /\ pc = "resolve" => index <= Len(world.candidates) + 1
  /\ pc = "exclusion" => index = 1
  /\ pc = "slot" => chosen = ChooseMeasuredPath(world, Group)
  /\ GroupsInOrder
  /\ OutcomesInOrder
  /\ NoOutcomeMissing
  /\ VisitedSoFar
  /\ KindsAreTheWorlds
-----------------------------------------------------------------------------
(* Counting the members of a set of positions.                             *)

LEMMA CountIsANumber ==
  ASSUME NEW S, S \subseteq Nat, NEW n \in Nat
  PROVE  /\ IsFiniteSet({i \in S : i <= n})
         /\ CountTo(S, n) \in Nat
<1>1. IsFiniteSet(0..n)
  BY FS_Interval
<1>2. {i \in S : i <= n} \subseteq 0..n
  <2>1. \A i \in S : i \in Nat
    OBVIOUS
  <2>2. \A i \in Nat : i <= n => i \in 0..n
    OBVIOUS
  <2> QED  BY <2>1, <2>2
<1>3. IsFiniteSet({i \in S : i <= n})
  BY <1>1, <1>2, FS_Subset
<1> QED  BY <1>3, FS_CardinalityType DEF CountTo

(* One position further counts it when it is a member. *)
LEMMA CountOneMore ==
  ASSUME NEW S, S \subseteq Nat, NEW n \in Nat
  PROVE  CountTo(S, n + 1) = IF n + 1 \in S THEN CountTo(S, n) + 1 ELSE CountTo(S, n)
<1> DEFINE upTo == {i \in S : i <= n}
<1>0. \A i \in S : i \in Nat /\ (i <= n + 1 <=> i <= n \/ i = n + 1)
  <2>1. \A i \in Nat : i <= n + 1 <=> i <= n \/ i = n + 1
    OBVIOUS
  <2> QED  BY <2>1
<1>1. IsFiniteSet(upTo) /\ n + 1 \notin upTo
  <2>1. ~(n + 1 <= n)
    OBVIOUS
  <2> QED  BY <2>1, CountIsANumber
<1>2. CASE n + 1 \in S
  <2>1. {i \in S : i <= n + 1} = upTo \cup {n + 1}
    <3>1. n + 1 <= n + 1
      OBVIOUS
    <3> QED  BY <1>0, <1>2, <3>1, Zenon
  <2> HIDE DEF upTo
  <2>2. Cardinality(upTo \cup {n + 1}) = Cardinality(upTo) + 1
    BY <1>1, FS_AddElement
  <2> USE DEF upTo
  <2> QED  BY <1>2, <2>1, <2>2 DEF CountTo
<1>3. CASE n + 1 \notin S
  <2>1. {i \in S : i <= n + 1} = upTo
    BY <1>0, <1>3, Zenon
  <2> QED  BY <1>3, <2>1 DEF CountTo
<1> QED  BY <1>2, <1>3

(* The count never falls, and it rises past a member. *)
LEMMA CountGrows ==
  ASSUME NEW S, S \subseteq Nat, NEW m \in Nat, NEW n \in Nat, m <= n
  PROVE  /\ CountTo(S, m) <= CountTo(S, n)
         /\ (\E i \in S : m < i /\ i <= n) => CountTo(S, m) < CountTo(S, n)
<1> DEFINE low == {i \in S : i <= m}
           high == {i \in S : i <= n}
<1>0. \A i \in S : i <= m => i <= n
  <2>1. \A i \in Nat : i <= m => i <= n
    OBVIOUS
  <2> QED  BY <2>1
<1>1. IsFiniteSet(low) /\ IsFiniteSet(high) /\ low \subseteq high
  BY <1>0, CountIsANumber, Zenon
<1>2. Cardinality(low) \in Nat /\ Cardinality(high) \in Nat
  BY <1>1, FS_CardinalityType
<1>3. Cardinality(low) <= Cardinality(high)
  BY <1>1, FS_Subset
<1>4. ASSUME \E i \in S : m < i /\ i <= n
      PROVE  Cardinality(low) < Cardinality(high)
  <2>1. low # high
    <3>1. PICK i \in S : m < i /\ i <= n
      BY <1>4
    <3>2. i \in high /\ i \notin low
      BY <3>1
    <3> QED  BY <3>2
  <2>2. Cardinality(low) = Cardinality(high) => low = high
    BY <1>1, FS_Subset
  <2> QED  BY <1>2, <1>3, <2>1, <2>2
<1> QED  BY <1>3, <1>4 DEF CountTo

(* A member is counted, and no two members count the same. *)
LEMMA MembersAreCounted ==
  ASSUME NEW S, S \subseteq Nat \ {0}, NEW i \in S
  PROVE  /\ CountTo(S, i) \in Nat \ {0}
         /\ \A j \in S : CountTo(S, j) = CountTo(S, i) => j = i
<1>1. CountTo(S, 0) \in Nat /\ CountTo(S, i) \in Nat
  <2>1. S \subseteq Nat /\ i \in Nat
    OBVIOUS
  <2> QED  BY <2>1, CountIsANumber
<1>0. S \subseteq Nat /\ \A j \in S : j \in Nat /\ 0 < j /\ 0 <= j /\ j <= j
  OBVIOUS
<1>2. CountTo(S, 0) < CountTo(S, i)
  BY <1>0, CountGrows
<1>3. ASSUME NEW j \in S, NEW k \in S, j < k
      PROVE  CountTo(S, j) < CountTo(S, k)
  <2>1. j \in Nat /\ k \in Nat /\ j <= k /\ k <= k
    BY <1>0, <1>3
  <2> QED  BY <1>0, <1>3, <2>1, CountGrows
<1>4. \A j \in S : CountTo(S, j) \in Nat
  BY CountIsANumber
<1> QED  BY <1>1, <1>2, <1>3, <1>4

(* Counted to the end, the members are all there. *)
LEMMA CountToTheEnd ==
  ASSUME NEW N \in Nat, NEW S, S \subseteq 1..N
  PROVE  IsFiniteSet(S) /\ CountTo(S, N) = Cardinality(S)
<1>1. {i \in S : i <= N} = S
  <2>1. \A i \in S : i <= N
    OBVIOUS
  <2> QED  BY <2>1, Zenon
<1>2. S \subseteq Nat
  OBVIOUS
<1>3. IsFiniteSet({i \in S : i <= N})
  BY <1>2, CountIsANumber
<1> QED  BY <1>1, <1>3 DEF CountTo

LEMMA CountFromNothing ==
  ASSUME NEW S, S \subseteq Nat \ {0}
  PROVE  CountTo(S, 0) = 0
<1>1. {i \in S : i <= 0} = {}
  <2>1. \A i \in S : ~(i <= 0)
    OBVIOUS
  <2> QED  BY <2>1, Zenon
<1> QED  BY <1>1, FS_EmptySet DEF CountTo

-----------------------------------------------------------------------------
(* The path a file is measured through is one the sequential scan may      *)
(* report it as, and what comes of the measurement is what that scan says. *)

LEMMA InstanceCardinality ==
  ASSUME NEW S
  PROVE  Sequential!Cardinality(S) = Cardinality(S)
BY DEF Sequential!Cardinality, Cardinality

LEMMA InstanceCount ==
  ASSUME NEW S, NEW n
  PROVE  Sequential!CountTo(S, n) = CountTo(S, n)
BY InstanceCardinality DEF Sequential!CountTo, CountTo

LEMMA FirstOfSome ==
  ASSUME NEW w \in WorldType, NEW positions \in SUBSET (1..Len(w.candidates))
  PROVE  /\ positions = {} => FirstOf(w, positions) = NoPath
         /\ positions # {} => /\ FirstOf(w, positions) \in Paths
                              /\ FirstOf(w, positions) # NoPath
                              /\ \E i \in positions : FirstOf(w, positions) = w.candidates[i]
<1>1. CASE positions = {}
  BY <1>1 DEF FirstOf
<1>2. CASE positions # {}
  <2>1. Len(w.candidates) \in Nat /\ positions \subseteq Nat /\ w.candidates \in Seq(Paths)
    BY DEF WorldType
  <2>2. Min(positions) \in positions
    BY <1>2, <2>1, MinIsAMember
  <2>3. w.candidates[Min(positions)] \in Paths
    BY <2>1, <2>2
  <2>4. FirstOf(w, positions) = w.candidates[Min(positions)]
    BY <1>2 DEF FirstOf
  <2> QED  BY <1>2, <2>2, <2>3, <2>4, NoPathAssumption
<1> QED  BY <1>1, <1>2

(* The aliases the sequential scan keeps are the measurable ones. *)
LEMMA KeptAreMeasurable ==
  ASSUME NEW w \in WorldType, NEW real \in Paths, NEW p
  PROVE  p \in Sequential!KeptAliases(w, real) <=>
           \E i \in Aliases(w, real) :
              w.candidates[i] = p /\ (w.exclusion = "loaded" => i \in Measurable(w, real))
<1>1. DOMAIN w.candidates = 1..Len(w.candidates)
  BY DEF WorldType
<1>2. p \in Sequential!ToSet(w.candidates) <=> \E i \in 1..Len(w.candidates) : w.candidates[i] = p
  BY <1>1 DEF Sequential!ToSet
<1> QED  BY <1>2 DEF Sequential!KeptAliases, Aliases, Measurable

LEMMA ChosenPathIsReported ==
  ASSUME NEW w \in WorldType, w.exclusion # "broken", NEW real \in Paths
  PROVE  /\ ChooseMeasuredPath(w, real) # NoPath <=> Sequential!IsMeasured(w, real)
         /\ ChooseMeasuredPath(w, real) # NoPath =>
              /\ ChooseMeasuredPath(w, real) \in Sequential!KeptAliases(w, real)
              /\ Sequential!MayBeReportedAs(w, real, ChooseMeasuredPath(w, real))
<1> DEFINE path == ChooseMeasuredPath(w, real)
           kept == Sequential!KeptAliases(w, real)
           plainKept == {p \in kept : p \notin w.generated}
<1>1. /\ Aliases(w, real) \in SUBSET (1..Len(w.candidates))
      /\ Measurable(w, real) \in SUBSET (1..Len(w.candidates))
      /\ Plain(w, real) \in SUBSET (1..Len(w.candidates))
      /\ Measurable(w, real) \subseteq Aliases(w, real)
      /\ Plain(w, real) \subseteq Measurable(w, real)
  BY DEF Aliases, Measurable, Plain
<1>2. CASE w.exclusion # "loaded"
  <2>1. path = FirstOf(w, Aliases(w, real))
    BY <1>2 DEF ChooseMeasuredPath
  <2>2. \A p : p \in kept <=> \E i \in Aliases(w, real) : w.candidates[i] = p
    BY <1>2, KeptAreMeasurable
  <2>3. Sequential!IsMeasured(w, real) <=> kept # {}
    BY <1>2 DEF Sequential!IsMeasured
  <2>4. path # NoPath <=> Aliases(w, real) # {}
    BY <1>1, <2>1, FirstOfSome
  <2>5. path # NoPath => path \in kept
    BY <1>1, <2>1, <2>2, <2>4, FirstOfSome
  <2>6. path # NoPath => Sequential!MayBeReportedAs(w, real, path)
    BY <1>2, <2>5 DEF Sequential!MayBeReportedAs
  <2> QED  BY <2>2, <2>3, <2>4, <2>5, <2>6
<1>3. CASE w.exclusion = "loaded"
  <2>1. \A p : p \in kept <=> \E i \in Measurable(w, real) : w.candidates[i] = p
    BY <1>1, <1>3, KeptAreMeasurable
  <2>2. Sequential!IsMeasured(w, real) <=> kept # {} /\ real \notin w.excluded
    BY <1>3 DEF Sequential!IsMeasured
  <2>3. Sequential!MayBeReportedAs(w, real, path) <=>
          /\ path \in kept
          /\ real \in kept => path = real
          /\ real \notin kept /\ plainKept # {} /\ w.fate[real] # "unreadable" =>
               path \in plainKept
    BY <1>3 DEF Sequential!MayBeReportedAs
  <2>4. CASE real \in w.excluded
    BY <1>3, <2>2, <2>4 DEF ChooseMeasuredPath
  <2>5. CASE real \notin w.excluded /\ real \in kept
    <3>1. path = real
      BY <1>3, <2>1, <2>5 DEF ChooseMeasuredPath
    <3> QED  BY <2>2, <2>3, <2>5, <3>1, NoPathAssumption
  <2>6. CASE real \notin w.excluded /\ real \notin kept /\ Plain(w, real) # {}
    <3>1. path = FirstOf(w, Plain(w, real))
      BY <1>3, <2>1, <2>6 DEF ChooseMeasuredPath
    <3>2. PICK i \in Plain(w, real) : path = w.candidates[i]
      BY <1>1, <2>6, <3>1, FirstOfSome
    <3>3. path # NoPath
      BY <1>1, <2>6, <3>1, FirstOfSome
    <3>4. path \in kept /\ path \in plainKept
      BY <1>1, <2>1, <3>2 DEF Plain
    <3> QED  BY <2>2, <2>3, <2>6, <3>3, <3>4
  <2>7. CASE real \notin w.excluded /\ real \notin kept /\ Plain(w, real) = {}
    <3>1. path = FirstOf(w, Measurable(w, real))
      BY <1>3, <2>1, <2>7 DEF ChooseMeasuredPath
    <3>2. plainKept # {} => w.fate[real] = "unreadable"
      BY <2>1, <2>7 DEF Plain
    <3>3. CASE Measurable(w, real) = {}
      <4>1. path = NoPath /\ kept = {}
        BY <1>1, <2>1, <3>1, <3>3, FirstOfSome
      <4> QED  BY <2>2, <4>1
    <3>4. CASE Measurable(w, real) # {}
      <4>1. path # NoPath /\ path \in kept
        BY <1>1, <2>1, <3>1, <3>4, FirstOfSome
      <4> QED  BY <2>2, <2>3, <2>7, <3>2, <4>1
    <3> QED  BY <3>3, <3>4
  <2> QED  BY <2>4, <2>5, <2>6, <2>7
<1> QED  BY <1>2, <1>3

LEMMA InstanceMeasuredKind ==
  ASSUME NEW w, NEW real
  PROVE  Sequential!MeasuredKind(w, real) = MeasuredKind(w, real)
BY DEF Sequential!MeasuredKind, MeasuredKind

(* The content is judged generated when the sequential scan says so: the   *)
(* order the aliases were listed in does not matter.                       *)
LEMMA GeneratedAsReported ==
  ASSUME NEW w \in WorldType, w.mode = "single-file" => w.exclusion = "absent",
         NEW real \in Paths, w.exclusion # "broken",
         w.fate[real] # "unreadable", Sequential!IsMeasured(w, real)
  PROVE  Sequential!KindOf(w, real) =
           IF JudgedGenerated(w, ChooseMeasuredPath(w, real), real)
             THEN "generated" ELSE MeasuredKind(w, real)
<1> DEFINE path == ChooseMeasuredPath(w, real)
           kept == Sequential!KeptAliases(w, real)
           isGenerated == /\ w.exclusion = "loaded"
                          /\ \/ real \in w.generated
                             \/ real \notin kept /\ kept \subseteq w.generated
<1>1. path # NoPath /\ path \in kept /\ Sequential!MayBeReportedAs(w, real, path)
  BY ChosenPathIsReported
<1>2. JudgedGenerated(w, path, real) <=> isGenerated
  <2>1. CASE w.exclusion # "loaded"
    BY <2>1 DEF JudgedGenerated
  <2>2. CASE w.exclusion = "loaded"
    <3>1. w.mode = "directory"
      BY <2>2 DEF WorldType, Modes
    <3>2. CASE real \in kept
      BY <1>1, <2>2, <3>1, <3>2 DEF JudgedGenerated, Sequential!MayBeReportedAs
    <3>3. CASE real \notin kept
      <4>1. kept \subseteq w.generated \/ path \notin w.generated
        BY <1>1, <2>2, <3>3 DEF Sequential!MayBeReportedAs
      <4> QED  BY <1>1, <2>2, <3>1, <3>3, <4>1 DEF JudgedGenerated
    <3> QED  BY <3>2, <3>3
  <2> QED  BY <2>1, <2>2
<1>3. Sequential!KindOf(w, real) = IF isGenerated THEN "generated" ELSE MeasuredKind(w, real)
  <2> HIDE DEF kept
  <2>1. Sequential!KindOf(w, real) =
          CASE w.fate[real] = "unreadable"                -> "error"
            [] w.fate[real] # "unreadable" /\ isGenerated  -> "generated"
            [] w.fate[real] # "unreadable" /\ ~isGenerated -> Sequential!MeasuredKind(w, real)
    BY DEF Sequential!KindOf, kept
  <2> HIDE DEF isGenerated
  <2> QED  BY <2>1, InstanceMeasuredKind
<1> QED  BY <1>2, <1>3

LEMMA UnreadableAsReported ==
  ASSUME NEW w, NEW real, w.fate[real] = "unreadable"
  PROVE  Sequential!KindOf(w, real) = "error"
BY DEF Sequential!KindOf

-----------------------------------------------------------------------------
(* The positions of a world, and the groups found at them.                 *)

LEMMA PositionTypes ==
  ASSUME TypeOK
  PROVE  /\ Len(world.candidates) \in Nat
         /\ \A i \in Candidates : i \in Nat \ {0} /\ i <= Len(world.candidates)
         /\ \A i \in Candidates : world.candidates[i] \in Paths /\ RealAt(i) \in Paths \cup {NoPath}
         /\ FailedAt \subseteq Candidates
         /\ MeasuredAt \subseteq FoundAt
         /\ FoundAt \subseteq Candidates
<1>1. world.candidates \in Seq(Paths) /\ world.realOf \in [Paths -> Paths \cup {NoPath}]
  BY DEF TypeOK, WorldType
<1>2. FailedAt \subseteq Candidates /\ FoundAt \subseteq Candidates /\ MeasuredAt \subseteq FoundAt
  BY DEF FailedAt, FoundAt, MeasuredAt, Sequential!Unresolved, Sequential!FirstAliases,
         Sequential!RealFiles, Sequential!Positions, Candidates
<1> QED  BY <1>1, <1>2 DEF Candidates, RealAt

LEMMA FailedMeans ==
  ASSUME NEW i
  PROVE  i \in FailedAt <=> i \in Candidates /\ RealAt(i) = NoPath
BY DEF FailedAt, Sequential!Unresolved, Sequential!Positions, Sequential!RealAt, Candidates, RealAt

LEMMA FoundMeans ==
  ASSUME NEW i
  PROVE  i \in FoundAt <=> /\ i \in Candidates
                           /\ RealAt(i) # NoPath
                           /\ \A j \in 1..(i - 1) : RealAt(j) # RealAt(i)
BY DEF FoundAt, Sequential!FirstAliases, Sequential!Positions, Sequential!RealAt, Candidates, RealAt

LEMMA MeasuredMeans ==
  ASSUME NEW i
  PROVE  i \in MeasuredAt <=> i \in FoundAt /\ Sequential!IsMeasured(world, RealAt(i))
BY DEF MeasuredAt, Sequential!RealFiles, FoundAt, Sequential!RealAt, RealAt

(* No real file is found first twice. *)
LEMMA FoundOnce ==
  ASSUME TypeOK, NEW i \in FoundAt, NEW j \in FoundAt, RealAt(i) = RealAt(j)
  PROVE  i = j
<1>1. i \in Nat \ {0} /\ j \in Nat \ {0}
  BY PositionTypes
<1>2. ~(i < j)
  <2>1. i < j => i \in 1..(j - 1)
    BY <1>1
  <2> QED  BY <2>1, FoundMeans
<1>3. ~(j < i)
  <2>1. j < i => j \in 1..(i - 1)
    BY <1>1
  <2> QED  BY <2>1, FoundMeans
<1> QED  BY <1>1, <1>2, <1>3

(* The sets of positions are sets of positive numbers, and finite. *)
LEMMA PositionsCount ==
  ASSUME TypeOK, NEW S \in {FailedAt, FoundAt, MeasuredAt}
  PROVE  /\ S \subseteq 1..Len(world.candidates)
         /\ S \subseteq Nat \ {0}
         /\ S \subseteq Nat
         /\ IsFiniteSet(S)
         /\ Cardinality(S) \in Nat
         /\ CountTo(S, Len(world.candidates)) = Cardinality(S)
         /\ \A i \in S : CountTo(S, i) \in Nat \ {0} /\ CountTo(S, i) <= Cardinality(S)
<1>1. S \subseteq Candidates
  BY PositionTypes
<1>2. S \subseteq 1..Len(world.candidates) /\ Len(world.candidates) \in Nat
  BY <1>1, PositionTypes DEF Candidates
<1>3. S \subseteq Nat \ {0} /\ S \subseteq Nat
  BY <1>1, PositionTypes
<1>4. IsFiniteSet(S) /\ CountTo(S, Len(world.candidates)) = Cardinality(S)
  BY <1>2, CountToTheEnd
<1>5. ASSUME NEW i \in S
      PROVE  CountTo(S, i) \in Nat \ {0} /\ CountTo(S, i) <= Cardinality(S)
  <2>1. CountTo(S, i) \in Nat \ {0}
    BY <1>3, MembersAreCounted
  <2>2. i \in Nat /\ i <= Len(world.candidates)
    BY <1>1, PositionTypes
  <2>3. CountTo(S, i) <= CountTo(S, Len(world.candidates))
    BY <1>2, <1>3, <2>2, CountGrows
  <2> QED  BY <1>4, <2>1, <2>3
<1> QED  BY <1>2, <1>3, <1>4, <1>5, FS_CardinalityType

(* The n-th group is the n-th real file found. *)
LEMMA GroupFound ==
  ASSUME TypeOK, GroupsInOrder, NEW g \in 1..Len(groups)
  PROVE  \E i \in FoundAt :
           /\ CountTo(FoundAt, i) = g
           /\ groups[g] = RealAt(i)
           /\ \A j \in FoundAt : CountTo(FoundAt, j) = g => j = i
<1>1. PICK i \in FoundAt : CountTo(FoundAt, i) = g /\ groups[g] = RealAt(i)
  BY DEF GroupsInOrder
<1>2. FoundAt \subseteq Nat \ {0}
  BY PositionsCount
<1> QED  BY <1>1, <1>2, MembersAreCounted

LEMMA GroupsAreDistinct ==
  ASSUME TypeOK, GroupsInOrder, NEW g \in 1..Len(groups), NEW h \in 1..Len(groups),
         groups[g] = groups[h]
  PROVE  g = h
<1>1. PICK i \in FoundAt : CountTo(FoundAt, i) = g /\ groups[g] = RealAt(i)
  BY GroupFound
<1>2. PICK j \in FoundAt : CountTo(FoundAt, j) = h /\ groups[h] = RealAt(j)
  BY GroupFound
<1> QED  BY <1>1, <1>2, FoundOnce

LEMMA MeasuredBeforeIsFinite ==
  ASSUME TypeOK, NEW n \in Nat
  PROVE  /\ IsFiniteSet(MeasuredBefore(n))
         /\ Cardinality(MeasuredBefore(n)) \in Nat
<1>1. IsFiniteSet(MeasuredAt) /\ MeasuredBefore(n) \in SUBSET MeasuredAt
  BY PositionsCount DEF MeasuredBefore
<1> QED  BY <1>1, FS_Subset, FS_CardinalityType

(* Past a group that is not measured nothing more is due ...               *)
LEMMA NothingDue ==
  ASSUME TypeOK, GroupsInOrder, index \in 1..Len(groups),
         ~Sequential!IsMeasured(world, Group)
  PROVE  MeasuredBefore(index + 1) = MeasuredBefore(index)
<1>1. PICK i \in FoundAt : /\ groups[index] = RealAt(i)
                           /\ \A j \in FoundAt : CountTo(FoundAt, j) = index => j = i
  BY GroupFound
<1>2. i \notin MeasuredAt
  BY <1>1, MeasuredMeans DEF Group
<1>3. \A j \in MeasuredAt : CountTo(FoundAt, j) # index
  BY <1>1, <1>2, PositionTypes
<1>4. \A j \in MeasuredAt : CountTo(FoundAt, j) < index + 1 <=> CountTo(FoundAt, j) < index
  <2>1. \A j \in MeasuredAt : CountTo(FoundAt, j) \in Nat
    BY PositionTypes, PositionsCount
  <2>2. \A c \in Nat : c # index => (c < index + 1 <=> c < index)
    BY DEF TypeOK
  <2> QED  BY <1>3, <2>1, <2>2
<1> QED  BY <1>4, Zenon DEF MeasuredBefore

(* ... and past one that is, its outcome is the next.                      *)
LEMMA OneMoreDue ==
  ASSUME TypeOK, GroupsInOrder, index \in 1..Len(groups),
         Sequential!IsMeasured(world, Group)
  PROVE  \E i \in MeasuredAt :
           /\ RealAt(i) = Group
           /\ CountTo(MeasuredAt, i) = Cardinality(MeasuredBefore(index)) + 1
           /\ Cardinality(MeasuredBefore(index + 1)) = Cardinality(MeasuredBefore(index)) + 1
<1>1. PICK i \in FoundAt : /\ CountTo(FoundAt, i) = index
                           /\ groups[index] = RealAt(i)
                           /\ \A j \in FoundAt : CountTo(FoundAt, j) = index => j = i
  BY GroupFound
<1>2. i \in MeasuredAt /\ RealAt(i) = Group
  BY <1>1, MeasuredMeans DEF Group
<1>3. \A j \in MeasuredAt : j \in FoundAt /\ j \in Nat /\ CountTo(FoundAt, j) \in Nat
  BY PositionTypes, PositionsCount
<1>4. i \in Nat /\ index \in Nat
  BY <1>2, <1>3 DEF TypeOK
<1>5. ASSUME NEW j \in MeasuredAt
      PROVE  /\ CountTo(FoundAt, j) < index + 1 <=> j <= i
             /\ CountTo(FoundAt, j) < index <=> (j <= i /\ j # i)
  <2>0. j \in Nat /\ j \in FoundAt /\ CountTo(FoundAt, j) \in Nat /\ FoundAt \subseteq Nat
    BY <1>3, PositionsCount
  <2>1. j <= i => CountTo(FoundAt, j) <= index
    BY <1>1, <1>4, <2>0, CountGrows
  <2>2. i < j => index < CountTo(FoundAt, j)
    <3>1. SUFFICES ASSUME i < j PROVE CountTo(FoundAt, i) < CountTo(FoundAt, j)
      BY <1>1
    <3>2. i <= j /\ j <= j
      BY <1>4, <2>0, <3>1
    <3> QED  BY <1>4, <2>0, <3>1, <3>2, CountGrows
  <2>3. CountTo(FoundAt, j) = index => j = i
    BY <1>1, <2>0
  <2> DEFINE c == CountTo(FoundAt, j)
  <2>4. c \in Nat /\ (j <= i => c <= index) /\ (i < j => index < c) /\ (c = index => j = i)
        /\ (j = i => c = index)
    BY <1>1, <2>0, <2>1, <2>2, <2>3
  <2> HIDE DEF c
  <2>5. (c < index + 1 <=> j <= i) /\ (c < index <=> (j <= i /\ j # i))
    BY <1>4, <2>0, <2>4
  <2> QED  BY <2>5 DEF c
<1> DEFINE before == MeasuredBefore(index)
           upTo   == {j \in MeasuredAt : j <= i}
<1>6. MeasuredBefore(index + 1) = upTo
  BY <1>5, Zenon DEF MeasuredBefore
<1>7. upTo = before \cup {i} /\ i \notin before
  <2>1. i <= i
    BY <1>4
  <2> QED  BY <1>2, <1>5, <2>1, Zenon DEF MeasuredBefore
<1>8. IsFiniteSet(before)
  BY <1>4, MeasuredBeforeIsFinite
<1>9. Cardinality(upTo) = Cardinality(before) + 1
  <2> HIDE DEF before, upTo
  <2> QED  BY <1>7, <1>8, FS_AddElement
<1> QED  BY <1>2, <1>6, <1>9 DEF CountTo

(* Once the loop is past the last group, everything measured is due. *)
LEMMA AllDue ==
  ASSUME TypeOK, GroupsInOrder, index > Len(groups), Resolved = Len(world.candidates)
  PROVE  MeasuredBefore(index) = MeasuredAt
<1>1. ASSUME NEW i \in MeasuredAt PROVE CountTo(FoundAt, i) < index
  <2>1. i \in FoundAt
    BY PositionTypes
  <2>2. /\ CountTo(FoundAt, i) \in Nat /\ CountTo(FoundAt, i) <= Cardinality(FoundAt)
        /\ CountTo(FoundAt, Len(world.candidates)) = Cardinality(FoundAt)
        /\ Cardinality(FoundAt) \in Nat
    BY <2>1, PositionsCount
  <2>3. Len(groups) = Cardinality(FoundAt)
    BY <2>2 DEF GroupsInOrder
  <2> QED  BY <2>2, <2>3 DEF TypeOK
<1> QED  BY <1>1, Zenon DEF MeasuredBefore

(* Before the first group nothing measured is due. *)
LEMMA NoneDue ==
  ASSUME TypeOK
  PROVE  Cardinality(MeasuredBefore(1)) = 0
<1>1. ASSUME NEW i \in MeasuredAt PROVE ~(CountTo(FoundAt, i) < 1)
  <2>1. CountTo(FoundAt, i) \in Nat \ {0}
    BY PositionTypes, PositionsCount
  <2> QED  BY <2>1
<1>2. MeasuredBefore(1) = {}
  BY <1>1, Zenon DEF MeasuredBefore
<1> QED  BY <1>2, FS_EmptySet

-----------------------------------------------------------------------------
(* OrderInv holds initially.                                               *)

LEMMA InitOrder == Init => OrderInv
<1> SUFFICES ASSUME Init PROVE OrderInv
  OBVIOUS
<1>1. TypeOK /\ world \in Worlds /\ world.mode \in Modes
  BY InitIInv DEF IInv, Init, TypeOK, WorldType
<1>2. index = 1 /\ outcomes = <<>> /\ visited = {} /\ task = [r \in Paths |-> "idle"]
  BY DEF Init
<1>3. Started = {} /\ KindsAreTheWorlds
  BY <1>2 DEF Started, KindsAreTheWorlds
<1>4. OutcomesInOrder /\ VisitedSoFar
  BY <1>2 DEF OutcomesInOrder, VisitedSoFar, VisitedBefore
<1>5. CASE world.mode = "directory"
  <2>1. pc = "exclusion" /\ groups = <<>> /\ Resolved = 0
    BY <1>5 DEF Init, Resolved
  <2>2. CountTo(FoundAt, 0) = 0 /\ CountTo(FailedAt, 0) = 0
    BY <1>1, PositionsCount, CountFromNothing
  <2>3. GroupsInOrder
    BY <2>1, <2>2 DEF GroupsInOrder
  <2>4. NoOutcomeMissing
    BY <1>2, <2>1, <2>2 DEF NoOutcomeMissing
  <2> QED  BY <1>1, <1>2, <1>3, <1>4, <2>1, <2>3, <2>4 DEF OrderInv
<1>6. CASE world.mode = "single-file"
  <2> DEFINE file == world.candidates[1]
  <2>1. /\ pc = "choosing" /\ groups = <<file>> /\ Resolved = 1
        /\ Len(world.candidates) = 1 /\ world.realOf[file] = file /\ world.exclusion = "absent"
    BY <1>1, <1>6, ScanAssumption DEF Init, Resolved
  <2>2. Candidates = {1} /\ RealAt(1) = file /\ file \in Paths
    <3>1. Candidates = {1} /\ RealAt(1) = file
      BY <2>1 DEF Candidates, RealAt
    <3> QED  BY <1>1, <3>1, PositionTypes
  <2>3. FoundAt = {1} /\ FailedAt = {}
    <3>1. 1 \in FoundAt
      BY <2>2, FoundMeans, NoPathAssumption
    <3>2. 1 \notin FailedAt
      BY <2>2, FailedMeans, NoPathAssumption
    <3> QED  BY <1>1, <2>2, <3>1, <3>2, PositionTypes
  <2>4. CountTo(FoundAt, 1) = 1
    <3>1. {i \in {1} : i <= 1} = {1}
      OBVIOUS
    <3> QED  BY <2>3, <3>1, FS_Singleton DEF CountTo
  <2>5. GroupsInOrder
    <3>1. Len(groups) = 1 /\ groups[1] = RealAt(1)
      BY <2>1, <2>2
    <3>2. \A i \in 1..Resolved : i = 1
      BY <2>1
    <3>3. 1 \in FoundAt /\ 1 <= Resolved
      BY <2>1, <2>3
    <3>4. \A g \in 1..Len(groups) : g = 1
      BY <3>1
    <3>5. \A g \in 1..Len(groups) : \E i \in FoundAt :
            i <= Resolved /\ CountTo(FoundAt, i) = g /\ groups[g] = RealAt(i)
      BY <2>4, <3>1, <3>3, <3>4
    <3>6. \A i \in 1..Resolved : \E g \in 1..Len(groups) : groups[g] = RealAt(i)
      BY <3>1, <3>2
    <3> QED  BY <2>1, <2>4, <3>1, <3>5, <3>6 DEF GroupsInOrder
  <2>6. Cardinality(FailedAt) = 0 /\ Cardinality(MeasuredBefore(index)) = 0
    BY <1>1, <1>2, <2>3, NoneDue, FS_EmptySet
  <2>7. NoOutcomeMissing
    BY <1>2, <2>1, <2>6 DEF NoOutcomeMissing
  <2> QED  BY <1>1, <1>2, <1>3, <1>4, <2>1, <2>5, <2>7 DEF OrderInv
<1> QED  BY <1>1, <1>5, <1>6 DEF Modes

-----------------------------------------------------------------------------
(* What a step keeps as long as it leaves the data alone.                  *)

LEMMA WorldStays ==
  ASSUME world' = world
  PROVE  /\ FailedAt' = FailedAt
         /\ FoundAt' = FoundAt
         /\ MeasuredAt' = MeasuredAt
         /\ Candidates' = Candidates
         /\ \A i : RealAt(i)' = RealAt(i)
         /\ \A n : MeasuredBefore(n)' = MeasuredBefore(n)
<1>1. FailedAt' = FailedAt /\ FoundAt' = FoundAt /\ MeasuredAt' = MeasuredAt
  BY DEF FailedAt, FoundAt, MeasuredAt
<1>2. Candidates' = Candidates /\ \A i : RealAt(i)' = RealAt(i)
  BY DEF Candidates, RealAt
<1>3. \A n : MeasuredBefore(n)' = MeasuredBefore(n)
  BY <1>1 DEF MeasuredBefore
<1> QED  BY <1>1, <1>2, <1>3

LEMMA GroupsStay ==
  ASSUME GroupsInOrder, UNCHANGED <<world, groups>>, Resolved' = Resolved
  PROVE  GroupsInOrder'
BY WorldStays DEF GroupsInOrder

LEMMA OutcomesStay ==
  ASSUME OutcomesInOrder, UNCHANGED <<world, outcomes>>
  PROVE  OutcomesInOrder'
BY WorldStays DEF OutcomesInOrder, FailureComes, MeasurementComes

(* An outcome is appended where the sequential scan has it. *)
LEMMA OutcomeAppended ==
  ASSUME TypeOK, OutcomesInOrder, world' = world, NEW outcome,
         outcomes' = Append(outcomes, outcome),
         \/ \E i \in FailedAt : /\ CountTo(FailedAt, i) = Len(outcomes) + 1
                                /\ outcome = Failed(world.candidates[i])
         \/ \E i \in MeasuredAt :
              /\ Cardinality(FailedAt) + CountTo(MeasuredAt, i) = Len(outcomes) + 1
              /\ outcome = Promise(ChooseMeasuredPath(world, RealAt(i)), RealAt(i))
  PROVE  OutcomesInOrder'
<1> DEFINE n == Len(outcomes)
<1>1. /\ n \in Nat /\ Len(outcomes') = n + 1
      /\ \A k \in 1..n : outcomes'[k] = outcomes[k]
      /\ outcomes'[n + 1] = outcome
  BY DEF TypeOK
<1>2. ASSUME NEW k \in 1..n
      PROVE  FailureComes(k)' \/ MeasurementComes(k)'
  <2>1. FailureComes(k) \/ MeasurementComes(k)
    BY DEF OutcomesInOrder
  <2>2. outcomes'[k] = outcomes[k]
    BY <1>1
  <2> QED  BY <2>1, <2>2, WorldStays DEF FailureComes, MeasurementComes
<1>3. ASSUME NEW k, k = n + 1
      PROVE  FailureComes(k)' \/ MeasurementComes(k)'
  <2>1. outcomes'[k] = outcome
    BY <1>1, <1>3
  <2>2. CASE \E i \in FailedAt : CountTo(FailedAt, i) = k /\ outcome = Failed(world.candidates[i])
    BY <2>1, <2>2, WorldStays DEF FailureComes
  <2>3. CASE \E i \in MeasuredAt :
               /\ Cardinality(FailedAt) + CountTo(MeasuredAt, i) = k
               /\ outcome = Promise(ChooseMeasuredPath(world, RealAt(i)), RealAt(i))
    <3>1. PICK i \in MeasuredAt :
               /\ Cardinality(FailedAt) + CountTo(MeasuredAt, i) = k
               /\ outcome = Promise(ChooseMeasuredPath(world, RealAt(i)), RealAt(i))
      BY <2>3
    <3>2. Cardinality(FailedAt)' = Cardinality(FailedAt) /\ MeasuredAt' = MeasuredAt
          /\ CountTo(MeasuredAt, i)' = CountTo(MeasuredAt, i) /\ RealAt(i)' = RealAt(i)
      BY WorldStays DEF CountTo
    <3> QED  BY <2>1, <3>1, <3>2 DEF MeasurementComes
  <2> QED  BY <1>3, <2>2, <2>3
<1>4. \A k \in 1..(n + 1) : k \in 1..n \/ k = n + 1
  BY <1>1
<1>5. ASSUME NEW k \in 1..Len(outcomes')
      PROVE  FailureComes(k)' \/ MeasurementComes(k)'
  BY <1>1, <1>2, <1>3, <1>4, <1>5
<1> QED  BY <1>5 DEF OutcomesInOrder

LEMMA KindsStay ==
  ASSUME TypeOK, KindsAreTheWorlds, UNCHANGED <<world, kind>>,
         \A r \in Paths : task'[r] = task[r] \/ task'[r] \in {"idle", "reading"}
  PROVE  KindsAreTheWorlds'
<1>1. ASSUME NEW r \in Paths, task'[r] = "settled"
      PROVE  kind'[r] = Sequential!KindOf(world', r)
  BY <1>1 DEF KindsAreTheWorlds
<1>2. ASSUME NEW r \in Paths, task'[r] = "measuring"
      PROVE  /\ world'.mode = "directory"
             /\ world'.fate[r] # "unreadable"
             /\ ~JudgedGenerated(world', ChooseMeasuredPath(world', r), r)
  BY <1>2 DEF KindsAreTheWorlds
<1> QED  BY <1>1, <1>2 DEF KindsAreTheWorlds

-----------------------------------------------------------------------------
(* The grouping loop keeps OrderInv.                                       *)

LEMMA LoadKeepsOrder ==
  ASSUME TypeOK, OrderInv, LoadExclusion
  PROVE  OrderInv'
<1>1. /\ pc = "exclusion" /\ pc' = (IF world.exclusion = "broken" THEN "thrown" ELSE "resolve")
      /\ UNCHANGED <<world, index, groups, visited, chosen, task, kind, outcomes>>
  BY DEF LoadExclusion, taskVars
<1>2. index = 1 /\ Resolved = 0 /\ Resolved' = 0
  BY <1>1 DEF OrderInv, Resolved
<1>3. GroupsInOrder' /\ OutcomesInOrder' /\ KindsAreTheWorlds'
  BY <1>1, <1>2, GroupsStay, OutcomesStay, KindsStay DEF OrderInv
<1>4. NoOutcomeMissing'
  <2>1. Len(outcomes) = CountTo(FailedAt, 0)
    BY <1>1, <1>2 DEF OrderInv, NoOutcomeMissing
  <2> QED  BY <1>1, <1>2, <2>1, WorldStays DEF NoOutcomeMissing, CountTo
<1>5. Started' = Started
  BY <1>1 DEF Started
<1>6. 1 <= Len(world.candidates) + 1
  BY PositionTypes
<1> QED  BY <1>1, <1>2, <1>3, <1>4, <1>5, <1>6 DEF OrderInv, VisitedSoFar, VisitedBefore

LEMMA ResolveKeepsOrder ==
  ASSUME TypeOK, OrderInv, ResolveCandidate
  PROVE  OrderInv'
<1> DEFINE path == world.candidates[index]
           N == Len(world.candidates)
<1>1. /\ pc = "resolve" /\ pc' = "resolve" /\ index <= N /\ index' = index + 1
      /\ UNCHANGED <<world, visited, chosen, task, kind>>
      /\ \/ /\ RealAt(index) = NoPath
            /\ outcomes' = Append(outcomes, Failed(path))
            /\ UNCHANGED groups
         \/ /\ RealAt(index) # NoPath
            /\ groups' = IF RealAt(index) \in ToSet(groups) THEN groups
                                                            ELSE Append(groups, RealAt(index))
            /\ UNCHANGED outcomes
  BY DEF ResolveCandidate, taskVars, RealAt
<1>2. /\ N \in Nat /\ index \in Nat \ {0} /\ index \in Candidates
      /\ Resolved = index - 1 /\ Resolved' = index /\ Resolved \in Nat /\ index = Resolved + 1
  BY <1>1, PositionTypes DEF TypeOK, Resolved, Candidates
<1>3. /\ Len(groups) \in Nat /\ Len(groups) = CountTo(FoundAt, Resolved)
      /\ \A g \in 1..Len(groups) : \E i \in FoundAt :
           i <= Resolved /\ CountTo(FoundAt, i) = g /\ groups[g] = RealAt(i)
      /\ \A i \in 1..Resolved : RealAt(i) # NoPath =>
           \E g \in 1..Len(groups) : groups[g] = RealAt(i)
  BY DEF OrderInv, GroupsInOrder, TypeOK
<1>4. /\ CountTo(FoundAt, index) =
           (IF index \in FoundAt THEN CountTo(FoundAt, Resolved) + 1
                                 ELSE CountTo(FoundAt, Resolved))
      /\ CountTo(FailedAt, index) =
           (IF index \in FailedAt THEN CountTo(FailedAt, Resolved) + 1
                                  ELSE CountTo(FailedAt, Resolved))
  <2>1. FoundAt \subseteq Nat /\ FailedAt \subseteq Nat
    BY PositionsCount
  <2>2. index = Resolved + 1 /\ Resolved \in Nat
    BY <1>2
  <2> HIDE DEF N
  <2>3. CountTo(FoundAt, Resolved + 1) =
          IF Resolved + 1 \in FoundAt THEN CountTo(FoundAt, Resolved) + 1
                                      ELSE CountTo(FoundAt, Resolved)
    BY <2>1, <2>2, CountOneMore
  <2>4. CountTo(FailedAt, Resolved + 1) =
          IF Resolved + 1 \in FailedAt THEN CountTo(FailedAt, Resolved) + 1
                                       ELSE CountTo(FailedAt, Resolved)
    BY <2>1, <2>2, CountOneMore
  <2> QED  BY <2>2, <2>3, <2>4
<1>5. Len(outcomes) = CountTo(FailedAt, Resolved)
  BY <1>1 DEF OrderInv, NoOutcomeMissing
<1>6. ASSUME RealAt(index) # NoPath
      PROVE  index \in FoundAt <=> RealAt(index) \notin ToSet(groups)
  <2>1. RealAt(index) \in ToSet(groups) <=> \E g \in 1..Len(groups) : groups[g] = RealAt(index)
    <3>1. DOMAIN groups = 1..Len(groups)
      BY DEF TypeOK
    <3> QED  BY <3>1 DEF ToSet
  <2>2. index - 1 = Resolved
    BY <1>2
  <2>3. index \in FoundAt <=> \A j \in 1..Resolved : RealAt(j) # RealAt(index)
    BY <1>2, <1>6, <2>2, FoundMeans
  <2>4. (\E g \in 1..Len(groups) : groups[g] = RealAt(index)) =>
          \E j \in 1..Resolved : RealAt(j) = RealAt(index)
    <3>1. \A i \in FoundAt : i <= Resolved => i \in 1..Resolved
      <4>1. \A i \in FoundAt : i \in Nat \ {0}
        BY PositionsCount
      <4> QED  BY <1>2, <4>1
    <3> QED  BY <1>3, <3>1
  <2>5. (\E j \in 1..Resolved : RealAt(j) = RealAt(index)) =>
          \E g \in 1..Len(groups) : groups[g] = RealAt(index)
    BY <1>3, <1>6
  <2> QED  BY <2>1, <2>3, <2>4, <2>5
<1>7. GroupsInOrder'
  <2>1. ASSUME NEW c, c = CountTo(FoundAt, index), Len(groups') = c,
               \A g \in 1..Len(groups') : \E i \in FoundAt :
                 i <= index /\ CountTo(FoundAt, i) = g /\ groups'[g] = RealAt(i),
               \A i \in 1..index : RealAt(i) # NoPath =>
                 \E g \in 1..Len(groups') : groups'[g] = RealAt(i)
        PROVE  GroupsInOrder'
    BY <1>1, <1>2, <2>1, WorldStays DEF GroupsInOrder, CountTo
  <2>2. /\ \A i \in FoundAt : i <= Resolved => i <= index
        /\ \A i \in 1..index : i \in 1..Resolved \/ i = index
    <3>1. \A i \in Nat : i <= Resolved => i <= index
      BY <1>2
    <3>2. FoundAt \subseteq Nat
      BY PositionsCount
    <3> QED  BY <1>2, <3>1, <3>2
  <2>3. CASE groups' = groups /\ index \notin FoundAt /\
             (RealAt(index) # NoPath => \E g \in 1..Len(groups) : groups[g] = RealAt(index))
    <3>1. \A g \in 1..Len(groups) : \E i \in FoundAt :
             i <= index /\ CountTo(FoundAt, i) = g /\ groups[g] = RealAt(i)
      BY <1>3, <2>2
    <3>2. \A i \in 1..index : RealAt(i) # NoPath =>
             \E g \in 1..Len(groups) : groups[g] = RealAt(i)
      BY <1>3, <2>2, <2>3
    <3>3. Len(groups) = CountTo(FoundAt, index)
      BY <1>3, <1>4, <2>3
    <3> QED  BY <2>1, <2>3, <3>1, <3>2, <3>3
  <2>4. CASE groups' = Append(groups, RealAt(index)) /\ index \in FoundAt
    <3> DEFINE n == Len(groups)
    <3>1. /\ n \in Nat /\ Len(groups') = n + 1 /\ groups'[n + 1] = RealAt(index)
          /\ \A g \in 1..n : groups'[g] = groups[g]
          /\ \A g \in 1..(n + 1) : g \in 1..n \/ g = n + 1
          /\ n + 1 \in 1..(n + 1) /\ 1..n \subseteq 1..(n + 1)
      <4>1. groups \in Seq(Paths) /\ RealAt(index) \in Paths
        BY <1>2, <2>4, PositionTypes, FoundMeans DEF TypeOK
      <4> QED  BY <2>4, <4>1
    <3>2. n + 1 = CountTo(FoundAt, index)
      BY <1>3, <1>4, <2>4
    <3>3. ASSUME NEW g \in 1..(n + 1)
          PROVE  \E i \in FoundAt :
                   i <= index /\ CountTo(FoundAt, i) = g /\ groups'[g] = RealAt(i)
      <4>1. CASE g \in 1..n
        BY <1>3, <2>2, <3>1, <4>1
      <4>2. CASE g = n + 1
        <5>1. index <= index
          BY <1>2
        <5> QED  BY <2>4, <3>1, <3>2, <4>2, <5>1
      <4> QED  BY <3>1, <4>1, <4>2
    <3>4. ASSUME NEW i \in 1..index, RealAt(i) # NoPath
          PROVE  \E g \in 1..(n + 1) : groups'[g] = RealAt(i)
      <4>1. CASE i \in 1..Resolved
        <5>1. PICK g \in 1..n : groups[g] = RealAt(i)
          BY <1>3, <3>4, <4>1
        <5> QED  BY <3>1, <5>1
      <4>2. CASE i = index
        BY <3>1, <4>2
      <4> QED  BY <2>2, <4>1, <4>2
    <3> QED  BY <2>1, <3>1, <3>2, <3>3, <3>4
  <2>5. CASE RealAt(index) = NoPath
    BY <1>1, <2>3, <2>5, FoundMeans
  <2>6. CASE RealAt(index) # NoPath
    <3>1. RealAt(index) \in ToSet(groups) => \E g \in 1..Len(groups) : groups[g] = RealAt(index)
      <4>1. DOMAIN groups = 1..Len(groups)
        BY DEF TypeOK
      <4> QED  BY <4>1 DEF ToSet
    <3> QED  BY <1>1, <1>6, <2>3, <2>4, <2>6, <3>1
  <2> QED  BY <2>5, <2>6
<1>8. index \in FailedAt <=> RealAt(index) = NoPath
  BY <1>2, FailedMeans
<1>9. OutcomesInOrder' /\ Len(outcomes') = CountTo(FailedAt, index)
  <2>1. CASE RealAt(index) = NoPath
    <3>1. outcomes' = Append(outcomes, Failed(path)) /\ index \in FailedAt
      BY <1>1, <1>8, <2>1
    <3>2. CountTo(FailedAt, index) = Len(outcomes) + 1
      BY <1>4, <1>5, <3>1
    <3>3. OutcomesInOrder'
      BY <1>1, <3>1, <3>2, OutcomeAppended DEF OrderInv
    <3>4. Len(outcomes') = Len(outcomes) + 1
      BY <3>1 DEF TypeOK
    <3> QED  BY <3>2, <3>3, <3>4
  <2>2. CASE RealAt(index) # NoPath
    <3>1. outcomes' = outcomes
      BY <1>1, <2>2
    <3> QED  BY <1>1, <1>4, <1>5, <1>8, <2>2, <3>1, OutcomesStay DEF OrderInv
  <2> QED  BY <2>1, <2>2
<1>10. NoOutcomeMissing'
  BY <1>1, <1>2, <1>9, WorldStays DEF NoOutcomeMissing, CountTo
<1>11. Started' = Started /\ KindsAreTheWorlds'
  BY <1>1, KindsStay DEF OrderInv, Started
<1>12. index' <= N + 1
  BY <1>1, <1>2
<1> QED  BY <1>1, <1>7, <1>9, <1>10, <1>11, <1>12 DEF OrderInv, VisitedSoFar, VisitedBefore

LEMMA AllResolvedKeepsOrder ==
  ASSUME TypeOK, OrderInv, AllResolved
  PROVE  OrderInv'
<1>1. /\ pc = "resolve" /\ pc' = "next" /\ index > Len(world.candidates) /\ index' = 1
      /\ UNCHANGED <<world, groups, visited, chosen, task, kind, outcomes>>
  BY DEF AllResolved, taskVars
<1>2. Resolved = Len(world.candidates) /\ Resolved' = Len(world.candidates)
  BY <1>1, PositionTypes DEF OrderInv, TypeOK, Resolved
<1>3. GroupsInOrder' /\ OutcomesInOrder' /\ KindsAreTheWorlds'
  BY <1>1, <1>2, GroupsStay, OutcomesStay, KindsStay DEF OrderInv
<1>4. NoOutcomeMissing'
  <2>1. Len(outcomes) = Cardinality(FailedAt) /\ Cardinality(FailedAt) \in Nat
    BY <1>1, <1>2, PositionsCount DEF OrderInv, NoOutcomeMissing
  <2>2. Cardinality(MeasuredBefore(1)) = 0
    BY NoneDue
  <2>3. Len(outcomes') = Cardinality(FailedAt') + Cardinality(MeasuredBefore(index)')
    <3>1. FailedAt' = FailedAt /\ MeasuredBefore(index)' = MeasuredBefore(1)
      <4>1. MeasuredAt' = MeasuredAt /\ FoundAt' = FoundAt /\ FailedAt' = FailedAt
        BY <1>1, WorldStays
      <4> QED  BY <1>1, <4>1 DEF MeasuredBefore, CountTo
    <3> QED  BY <1>1, <2>1, <2>2, <3>1
  <2> QED  BY <1>1, <2>3 DEF NoOutcomeMissing
<1>5. Started' = Started
  BY <1>1 DEF Started
<1> QED  BY <1>1, <1>3, <1>4, <1>5 DEF OrderInv, VisitedSoFar, VisitedBefore

-----------------------------------------------------------------------------
(* The measuring loop keeps OrderInv.                                      *)

LEMMA NextGroupKeepsOrder ==
  ASSUME TypeOK, OrderInv, NextGroup
  PROVE  OrderInv'
<1>1. /\ pc = "next" /\ pc' = (IF index > Len(groups) \/ fatalSeen THEN "settle" ELSE "choosing")
      /\ UNCHANGED <<world, index, groups, visited, chosen, task, kind, fatalSeen, outcomes>>
  BY DEF NextGroup, taskVars, Stopped
<1>2. Resolved = Len(world.candidates) /\ Resolved' = Resolved
  BY <1>1 DEF Resolved
<1>3. GroupsInOrder' /\ OutcomesInOrder' /\ KindsAreTheWorlds'
  BY <1>1, <1>2, GroupsStay, OutcomesStay, KindsStay DEF OrderInv
<1>4. NoOutcomeMissing'
  <2>1. fatalSeen \/ Len(outcomes) = Cardinality(FailedAt) + Cardinality(MeasuredBefore(index))
    BY <1>1 DEF OrderInv, NoOutcomeMissing
  <2>2. ~fatalSeen /\ pc' = "settle" => MeasuredBefore(index) = MeasuredAt
    BY <1>1, <1>2, AllDue DEF OrderInv
  <2>3. FailedAt' = FailedAt /\ MeasuredAt' = MeasuredAt
        /\ MeasuredBefore(index)' = MeasuredBefore(index)
    <3>1. FailedAt' = FailedAt /\ MeasuredAt' = MeasuredAt /\ FoundAt' = FoundAt
      BY <1>1, WorldStays
    <3> QED  BY <1>1, <3>1 DEF MeasuredBefore, CountTo
  <2> QED  BY <1>1, <2>1, <2>2, <2>3 DEF NoOutcomeMissing
<1>5. Started' = Started
  BY <1>1 DEF Started
<1> QED  BY <1>1, <1>3, <1>4, <1>5 DEF OrderInv, VisitedSoFar, VisitedBefore

(* The start of a measurement appends the outcome that is due.             *)
LEMMA StartKeepsOrder ==
  ASSUME TypeOK, LoopPosition, OrderInv, pc \in {"choosing", "slot"}, ~fatalSeen \/ pc = "slot",
         ChooseMeasuredPath(world, Group) # NoPath,
         StartMeasurement(ChooseMeasuredPath(world, Group), Group),
         UNCHANGED <<world, groups>>
  PROVE  OutcomesInOrder' /\ NoOutcomeMissing' /\ KindsAreTheWorlds'
<1> DEFINE path == ChooseMeasuredPath(world, Group)
           n == Len(outcomes)
<1>1. /\ task' = [task EXCEPT ![Group] = "reading"]
      /\ outcomes' = Append(outcomes, Promise(path, Group))
      /\ index' = index + 1 /\ pc' = "next"
      /\ UNCHANGED <<kind, fatalSeen>>
  BY DEF StartMeasurement
<1>2. index \in 1..Len(groups) /\ Group \in Paths
  BY GroupIsAPath DEF LoopPosition
<1>3. world \in WorldType /\ world.exclusion # "broken"
  BY DEF TypeOK, OrderInv
<1>4. Sequential!IsMeasured(world, Group)
  BY <1>2, <1>3, ChosenPathIsReported
<1>5. PICK i \in MeasuredAt :
        /\ RealAt(i) = Group
        /\ CountTo(MeasuredAt, i) = Cardinality(MeasuredBefore(index)) + 1
        /\ Cardinality(MeasuredBefore(index + 1)) = Cardinality(MeasuredBefore(index)) + 1
  BY <1>2, <1>4, OneMoreDue DEF OrderInv
<1>6. n = Cardinality(FailedAt) + Cardinality(MeasuredBefore(index))
  BY DEF OrderInv, NoOutcomeMissing
<1>7. /\ Cardinality(FailedAt) \in Nat /\ Cardinality(MeasuredBefore(index)) \in Nat
      /\ n \in Nat
  <2>1. index \in Nat
    BY DEF TypeOK
  <2>2. Cardinality(FailedAt) \in Nat
    BY PositionsCount
  <2>3. Cardinality(MeasuredBefore(index)) \in Nat
    BY <2>1, MeasuredBeforeIsFinite
  <2> QED  BY <2>2, <2>3 DEF TypeOK
<1>8. OutcomesInOrder'
  <2>1. Cardinality(FailedAt) + CountTo(MeasuredAt, i) = n + 1
    BY <1>5, <1>6, <1>7
  <2>2. Promise(path, Group) = Promise(ChooseMeasuredPath(world, RealAt(i)), RealAt(i))
    BY <1>5
  <2> QED  BY <1>1, <2>1, <2>2, OutcomeAppended DEF OrderInv
<1>9. NoOutcomeMissing'
  <2>1. Len(outcomes') = n + 1
    BY <1>1 DEF TypeOK
  <2>2. FailedAt' = FailedAt /\ MeasuredBefore(index)' = MeasuredBefore(index + 1)
    <3>1. FailedAt' = FailedAt /\ MeasuredAt' = MeasuredAt /\ FoundAt' = FoundAt
      BY WorldStays
    <3> QED  BY <1>1, <3>1 DEF MeasuredBefore, CountTo
  <2>3. Len(outcomes') = Cardinality(FailedAt) + Cardinality(MeasuredBefore(index + 1))
    BY <1>5, <1>6, <1>7, <2>1
  <2> QED  BY <1>1, <2>2, <2>3 DEF NoOutcomeMissing
<1>10. KindsAreTheWorlds'
  <2>1. \A r \in Paths : task'[r] = task[r] \/ task'[r] = "reading"
    BY <1>1 DEF TypeOK
  <2> QED  BY <1>1, <2>1, KindsStay DEF OrderInv
<1> QED  BY <1>8, <1>9, <1>10

LEMMA GroupIsVisited ==
  ASSUME TypeOK, LoopPosition, VisitedSoFar, pc = "choosing",
         (pc' = "next" /\ index' = index + 1) \/ (pc' = "slot" /\ index' = index),
         UNCHANGED groups, visited' \subseteq visited \cup {Group}
  PROVE  VisitedSoFar'
<1>1. index \in 1..Len(groups) /\ index < index + 1 /\ index \in Nat
  BY DEF LoopPosition, TypeOK
<1>2. ASSUME NEW r \in visited'
      PROVE  \E g \in 1..Len(groups) : g < index + 1 /\ groups[g] = r
  <2>1. CASE r = Group
    BY <1>1, <2>1 DEF Group
  <2>2. CASE r \in visited
    <3>1. PICK g \in 1..Len(groups) : g < index /\ groups[g] = r
      BY <2>2 DEF VisitedSoFar, VisitedBefore
    <3>2. g < index + 1
      BY <1>1, <3>1
    <3> QED  BY <3>1, <3>2
  <2> QED  BY <1>2, <2>1, <2>2
<1> QED  BY <1>2 DEF VisitedSoFar, VisitedBefore

LEMMA MeasureKeepsOrder ==
  ASSUME IInv, OrderInv, MeasureFile
  PROVE  OrderInv'
<1> DEFINE path == ChooseMeasuredPath(world, Group)
<1>0. TypeOK /\ LoopPosition
  BY DEF IInv
<1>1. /\ pc = "choosing" /\ UNCHANGED <<world, groups>>
      /\ \/ /\ path = NoPath \/ fatalSeen \/ Group \in visited
            /\ index' = index + 1 /\ pc' = "next"
            /\ UNCHANGED <<visited, chosen, outcomes, task, kind, inFlight, fatalSeen>>
         \/ /\ path # NoPath /\ ~fatalSeen /\ Group \notin visited
            /\ visited' = visited \cup {Group}
            /\ \/ /\ chosen' = path /\ pc' = "slot"
                  /\ UNCHANGED <<index, outcomes, task, kind, fatalSeen>>
               \/ StartMeasurement(path, Group)
  BY DEF MeasureFile, SkipGroup, taskVars, Stopped
<1>2. index \in 1..Len(groups) /\ Group \in Paths /\ index \in Nat
  BY <1>0, <1>1, GroupIsAPath DEF LoopPosition, TypeOK
<1>3. pc' \in {"next", "slot"}
  BY <1>1 DEF StartMeasurement
<1>4. Resolved = Len(world.candidates) /\ Resolved' = Resolved
  BY <1>1, <1>3 DEF Resolved
<1>5. GroupsInOrder'
  BY <1>1, <1>4, GroupsStay DEF OrderInv
<1>6. world' \in Worlds /\ world'.exclusion # "broken"
  BY <1>1 DEF OrderInv
<1>7. CASE /\ path = NoPath \/ fatalSeen \/ Group \in visited
           /\ index' = index + 1 /\ pc' = "next"
           /\ UNCHANGED <<visited, chosen, outcomes, task, kind, inFlight, fatalSeen>>
  <2>1. OutcomesInOrder' /\ KindsAreTheWorlds'
    BY <1>0, <1>1, <1>7, OutcomesStay, KindsStay DEF OrderInv
  <2>2. VisitedSoFar'
    <3>1. visited' \subseteq visited \cup {Group} /\ groups' = groups /\ VisitedSoFar
      BY <1>1, <1>7 DEF OrderInv
    <3>2. (pc' = "next" /\ index' = index + 1) \/ (pc' = "slot" /\ index' = index)
      BY <1>7
    <3> QED  BY <1>0, <1>1, <3>1, <3>2, GroupIsVisited
  <2>3. NoOutcomeMissing'
    <3>1. CASE fatalSeen
      BY <1>7, <3>1 DEF NoOutcomeMissing
    <3>2. CASE ~fatalSeen
      <4>1. Group \notin visited
        <5>1. SUFFICES ASSUME Group \in visited PROVE FALSE
          OBVIOUS
        <5>2. PICK g \in 1..Len(groups) : g < index /\ groups[g] = groups[index]
          BY <1>1, <5>1 DEF OrderInv, VisitedSoFar, VisitedBefore, Group
        <5>3. g = index
          BY <1>0, <1>2, <5>2, GroupsAreDistinct DEF OrderInv
        <5> QED  BY <1>2, <5>2, <5>3
      <4>2. path = NoPath
        BY <1>7, <3>2, <4>1
      <4>3. ~Sequential!IsMeasured(world, Group)
        BY <1>0, <1>1, <1>2, <4>2, ChosenPathIsReported DEF TypeOK, OrderInv
      <4>4. MeasuredBefore(index + 1) = MeasuredBefore(index)
        BY <1>0, <1>2, <4>3, NothingDue DEF OrderInv
      <4>5. Len(outcomes) = Cardinality(FailedAt) + Cardinality(MeasuredBefore(index))
        BY <1>1, <3>2 DEF OrderInv, NoOutcomeMissing
      <4>6. FailedAt' = FailedAt /\ MeasuredBefore(index)' = MeasuredBefore(index + 1)
        <5>1. FailedAt' = FailedAt /\ MeasuredAt' = MeasuredAt /\ FoundAt' = FoundAt
          BY <1>1, WorldStays
        <5> QED  BY <1>7, <5>1 DEF MeasuredBefore, CountTo
      <4> QED  BY <1>7, <4>4, <4>5, <4>6 DEF NoOutcomeMissing
    <3> QED  BY <3>1, <3>2
  <2> QED  BY <1>5, <1>6, <1>7, <2>1, <2>2, <2>3 DEF OrderInv
<1>8. CASE /\ path # NoPath /\ ~fatalSeen /\ visited' = visited \cup {Group}
           /\ chosen' = path /\ pc' = "slot"
           /\ UNCHANGED <<index, outcomes, task, kind, fatalSeen>>
  <2>1. OutcomesInOrder' /\ KindsAreTheWorlds'
    BY <1>0, <1>1, <1>8, OutcomesStay, KindsStay DEF OrderInv
  <2>2. VisitedSoFar'
    BY <1>0, <1>1, <1>8, GroupIsVisited DEF OrderInv
  <2>3. NoOutcomeMissing'
    <3>1. Len(outcomes) = Cardinality(FailedAt) + Cardinality(MeasuredBefore(index))
      BY <1>1, <1>8 DEF OrderInv, NoOutcomeMissing
    <3>2. FailedAt' = FailedAt /\ MeasuredBefore(index)' = MeasuredBefore(index)
      <4>1. FailedAt' = FailedAt /\ MeasuredAt' = MeasuredAt /\ FoundAt' = FoundAt
        BY <1>1, WorldStays
      <4> QED  BY <1>8, <4>1 DEF MeasuredBefore, CountTo
    <3> QED  BY <1>8, <3>1, <3>2 DEF NoOutcomeMissing
  <2>4. chosen' = ChooseMeasuredPath(world', Group')
    BY <1>1, <1>8 DEF Group
  <2> QED  BY <1>5, <1>6, <1>8, <2>1, <2>2, <2>3, <2>4 DEF OrderInv
<1>9. CASE /\ path # NoPath /\ ~fatalSeen /\ visited' = visited \cup {Group}
           /\ StartMeasurement(path, Group)
  <2>1. OutcomesInOrder' /\ NoOutcomeMissing' /\ KindsAreTheWorlds'
    BY <1>0, <1>1, <1>9, StartKeepsOrder
  <2>2. index' = index + 1 /\ pc' = "next"
    BY <1>9 DEF StartMeasurement
  <2>3. VisitedSoFar'
    <3>1. visited' \subseteq visited \cup {Group} /\ groups' = groups /\ VisitedSoFar
      BY <1>1, <1>9 DEF OrderInv
    <3>2. (pc' = "next" /\ index' = index + 1) \/ (pc' = "slot" /\ index' = index)
      BY <2>2
    <3> QED  BY <1>0, <1>1, <3>1, <3>2, GroupIsVisited
  <2> QED  BY <1>5, <1>6, <2>1, <2>2, <2>3 DEF OrderInv
<1> QED  BY <1>1, <1>7, <1>8, <1>9

LEMMA SlotKeepsOrder ==
  ASSUME IInv, OrderInv, SlotFreed
  PROVE  OrderInv'
<1>0. TypeOK /\ LoopPosition
  BY DEF IInv
<1>1. /\ pc = "slot" /\ pc' = "next" /\ index' = index + 1
      /\ UNCHANGED <<world, groups, visited>>
      /\ StartMeasurement(ChooseMeasuredPath(world, Group), Group)
      /\ ChooseMeasuredPath(world, Group) # NoPath
  BY <1>0, NoPathAssumption DEF SlotFreed, StartMeasurement, OrderInv, LoopPosition
<1>2. Resolved = Len(world.candidates) /\ Resolved' = Resolved
  BY <1>1 DEF Resolved
<1>3. GroupsInOrder'
  BY <1>1, <1>2, GroupsStay DEF OrderInv
<1>4. OutcomesInOrder' /\ NoOutcomeMissing' /\ KindsAreTheWorlds'
  BY <1>0, <1>1, StartKeepsOrder
<1>5. VisitedSoFar'
  BY <1>1 DEF OrderInv, VisitedSoFar, VisitedBefore
<1> QED  BY <1>1, <1>3, <1>4, <1>5 DEF OrderInv

-----------------------------------------------------------------------------
(* The measurements and the end of the scan keep OrderInv.                 *)

(* The started measurement of a file is one the sequential scan makes, and *)
(* its path is the one chooseMeasuredPath answered with.                   *)
LEMMA StartedIsMeasured ==
  ASSUME IInv, OrderInv, NEW real \in Paths, task[real] # "idle"
  PROVE  /\ Sequential!IsMeasured(world, real)
         /\ MeasuredPath(real) = ChooseMeasuredPath(world, real)
<1>1. \E i \in 1..Len(outcomes) : outcomes[i].real = real
  BY DEF IInv, RecordedOnce, Started
<1>2. PICK i \in 1..Len(outcomes) : /\ outcomes[i].real = real
                                    /\ MeasuredPath(real) = outcomes[i].path
  BY <1>1 DEF MeasuredPath
<1>3. ~FailureComes(i)
  <2>1. outcomes[i].real # NoPath
    BY <1>2, NoPathAssumption
  <2>2. \A path : Failed(path).real = NoPath
    BY DEF Failed
  <2> QED  BY <2>1, <2>2 DEF FailureComes
<1>4. MeasurementComes(i)
  BY <1>3 DEF OrderInv, OutcomesInOrder
<1>5. PICK j \in MeasuredAt : outcomes[i] = Promise(ChooseMeasuredPath(world, RealAt(j)), RealAt(j))
  BY <1>4 DEF MeasurementComes
<1>6. RealAt(j) = real /\ MeasuredPath(real) = ChooseMeasuredPath(world, RealAt(j))
  BY <1>2, <1>5 DEF Promise
<1> QED  BY <1>6, MeasuredMeans

(* A step of a measurement leaves the order of the outcomes alone. *)
LEMMA TaskKeepsOrder ==
  ASSUME TypeOK, OrderInv, UNCHANGED <<mainVars, outcomes>>, fatalSeen => fatalSeen',
         Started' = Started, KindsAreTheWorlds'
  PROVE  OrderInv'
<1>1. UNCHANGED <<world, pc, index, groups, visited, chosen>>
  BY DEF mainVars
<1>2. Resolved' = Resolved
  BY <1>1 DEF Resolved
<1>3. GroupsInOrder' /\ OutcomesInOrder'
  BY <1>1, <1>2, GroupsStay, OutcomesStay DEF OrderInv
<1>4. NoOutcomeMissing'
  <2>1. /\ FailedAt' = FailedAt /\ MeasuredAt' = MeasuredAt
        /\ MeasuredBefore(index)' = MeasuredBefore(index)
    <3>1. FailedAt' = FailedAt /\ MeasuredAt' = MeasuredAt /\ FoundAt' = FoundAt
      BY <1>1, WorldStays
    <3> QED  BY <1>1, <3>1 DEF MeasuredBefore, CountTo
  <2>2. CountTo(FailedAt, Resolved)' = CountTo(FailedAt, Resolved)
    BY <1>2, <2>1 DEF CountTo
  <2> QED  BY <1>1, <2>1, <2>2 DEF OrderInv, NoOutcomeMissing
<1>5. VisitedSoFar' /\ Group' = Group
  BY <1>1 DEF OrderInv, VisitedSoFar, VisitedBefore, Group
<1> QED  BY <1>1, <1>3, <1>4, <1>5 DEF OrderInv

LEMMA SettleKeepsOrder ==
  ASSUME TypeOK, OrderInv, NEW real \in Paths, task[real] \in {"reading", "measuring"},
         Settle(real, Sequential!KindOf(world, real)),
         UNCHANGED <<mainVars, outcomes, lateStarts>>
  PROVE  OrderInv'
<1>1. /\ task' = [task EXCEPT ![real] = "settled"]
      /\ kind' = [kind EXCEPT ![real] = Sequential!KindOf(world, real)]
      /\ fatalSeen => fatalSeen'
      /\ world' = world
  BY DEF Settle, mainVars
<1>2. /\ \A r \in Paths : r # real => task'[r] = task[r] /\ kind'[r] = kind[r]
      /\ task'[real] = "settled"
      /\ kind'[real] = Sequential!KindOf(world, real)
  BY <1>1 DEF TypeOK
<1>3. Started' = Started
  BY <1>2 DEF Started
<1>4. KindsAreTheWorlds'
  <2>1. ASSUME NEW r \in Paths, task'[r] = "settled"
        PROVE  kind'[r] = Sequential!KindOf(world', r)
    BY <1>1, <1>2, <2>1 DEF OrderInv, KindsAreTheWorlds
  <2>2. ASSUME NEW r \in Paths, task'[r] = "measuring"
        PROVE  /\ world'.mode = "directory"
               /\ world'.fate[r] # "unreadable"
               /\ ~JudgedGenerated(world', ChooseMeasuredPath(world', r), r)
    BY <1>1, <1>2, <2>2 DEF OrderInv, KindsAreTheWorlds
  <2> QED  BY <2>1, <2>2 DEF KindsAreTheWorlds
<1> QED  BY <1>1, <1>3, <1>4, TaskKeepsOrder

LEMMA WorldIsSound ==
  ASSUME OrderInv, TypeOK, Started # {}
  PROVE  /\ world \in WorldType
         /\ world.exclusion # "broken"
         /\ world.mode = "single-file" => world.exclusion = "absent"
BY ScanAssumption DEF OrderInv, TypeOK

LEMMA ReadKeepsOrder ==
  ASSUME IInv, OrderInv, NEW real \in Paths, FileRead(real)
  PROVE  OrderInv'
<1> DEFINE path == ChooseMeasuredPath(world, real)
<1>0. TypeOK /\ task[real] = "reading" /\ UNCHANGED <<mainVars, outcomes, lateStarts>>
  BY DEF IInv, FileRead
<1>1. Started # {}
  BY <1>0 DEF Started
<1>2. /\ world \in WorldType /\ world.exclusion # "broken"
      /\ world.mode = "single-file" => world.exclusion = "absent"
  BY <1>0, <1>1, WorldIsSound
<1>3. Sequential!IsMeasured(world, real) /\ MeasuredPath(real) = path
  BY <1>0, StartedIsMeasured
<1>4. world.fate[real] # "unreadable" =>
        Sequential!KindOf(world, real) =
          IF JudgedGenerated(world, path, real) THEN "generated" ELSE MeasuredKind(world, real)
  BY <1>2, <1>3, GeneratedAsReported
<1>5. CASE world.fate[real] = "unreadable" /\ Settle(real, "error")
  <2>1. Sequential!KindOf(world, real) = "error"
    BY <1>5, UnreadableAsReported
  <2> QED  BY <1>0, <1>5, <2>1, SettleKeepsOrder
<1>6. CASE /\ world.fate[real] # "unreadable"
           /\ JudgedGenerated(world, MeasuredPath(real), real) /\ Settle(real, "generated")
  <2>1. Sequential!KindOf(world, real) = "generated"
    BY <1>3, <1>4, <1>6
  <2> QED  BY <1>0, <1>6, <2>1, SettleKeepsOrder
<1>7. CASE /\ world.fate[real] # "unreadable" /\ world.mode = "single-file"
           /\ Settle(real, MeasuredKind(world, real))
  <2>1. ~JudgedGenerated(world, path, real)
    BY <1>7 DEF JudgedGenerated
  <2>2. Sequential!KindOf(world, real) = MeasuredKind(world, real)
    BY <1>4, <1>7, <2>1
  <2> QED  BY <1>0, <1>7, <2>2, SettleKeepsOrder
<1>8. CASE /\ world.fate[real] # "unreadable" /\ world.mode = "directory"
           /\ ~JudgedGenerated(world, MeasuredPath(real), real)
           /\ task' = [task EXCEPT ![real] = "measuring"]
           /\ UNCHANGED <<kind, inFlight, fatalSeen>>
  <2>1. world' = world
    BY <1>0 DEF mainVars
  <2>2. /\ \A r \in Paths : r # real => task'[r] = task[r]
        /\ task'[real] = "measuring"
    BY <1>0, <1>8 DEF TypeOK
  <2>3. Started' = Started
    BY <1>0, <2>2 DEF Started
  <2>4. KindsAreTheWorlds'
    <3>1. ASSUME NEW r \in Paths, task'[r] = "settled"
          PROVE  kind'[r] = Sequential!KindOf(world', r)
      BY <1>8, <2>1, <2>2, <3>1 DEF OrderInv, KindsAreTheWorlds
    <3>2. ASSUME NEW r \in Paths, task'[r] = "measuring"
          PROVE  /\ world'.mode = "directory"
                 /\ world'.fate[r] # "unreadable"
                 /\ ~JudgedGenerated(world', ChooseMeasuredPath(world', r), r)
      <4>1. CASE r = real
        BY <1>3, <1>8, <2>1, <4>1
      <4>2. CASE r # real
        BY <2>1, <2>2, <3>2, <4>2 DEF OrderInv, KindsAreTheWorlds
      <4> QED  BY <4>1, <4>2
    <3> QED  BY <3>1, <3>2 DEF KindsAreTheWorlds
  <2> QED  BY <1>0, <1>8, <2>3, <2>4, TaskKeepsOrder
<1> QED  BY <1>5, <1>6, <1>7, <1>8 DEF FileRead

LEMMA MeasuredKeepsOrder ==
  ASSUME IInv, OrderInv, NEW real \in Paths, Measured(real)
  PROVE  OrderInv'
<1>0. TypeOK /\ task[real] = "measuring" /\ UNCHANGED <<mainVars, outcomes, lateStarts>>
      /\ Settle(real, MeasuredKind(world, real))
  BY DEF IInv, Measured
<1>1. Started # {}
  BY <1>0 DEF Started
<1>2. /\ world \in WorldType /\ world.exclusion # "broken"
      /\ world.mode = "single-file" => world.exclusion = "absent"
  BY <1>0, <1>1, WorldIsSound
<1>3. Sequential!IsMeasured(world, real)
  BY <1>0, StartedIsMeasured
<1>4. world.fate[real] # "unreadable"
      /\ ~JudgedGenerated(world, ChooseMeasuredPath(world, real), real)
  BY <1>0 DEF OrderInv, KindsAreTheWorlds
<1>5. Sequential!KindOf(world, real) = MeasuredKind(world, real)
  BY <1>2, <1>3, <1>4, GeneratedAsReported
<1> QED  BY <1>0, <1>5, SettleKeepsOrder

LEMMA FreeKeepsOrder ==
  ASSUME TypeOK, OrderInv, NEW real \in Paths, FreeSlot(real)
  PROVE  OrderInv'
<1>1. UNCHANGED <<mainVars, task, kind, fatalSeen, outcomes>> /\ world' = world
  BY DEF FreeSlot, mainVars
<1>2. KindsAreTheWorlds' /\ Started' = Started
  BY <1>1, KindsStay DEF OrderInv, Started
<1> QED  BY <1>1, <1>2, TaskKeepsOrder

LEMMA ApplyKeepsOrder ==
  ASSUME TypeOK, OrderInv, ApplyOutcome \/ AllApplied
  PROVE  OrderInv'
<1>1. /\ pc = "settle" /\ pc' \in {"settle", "done"}
      /\ UNCHANGED <<world, index, groups, visited, chosen, task, kind, fatalSeen, outcomes>>
  BY DEF ApplyOutcome, AllApplied, taskVars
<1>2. Resolved = Len(world.candidates) /\ Resolved' = Resolved
  BY <1>1 DEF Resolved
<1>3. GroupsInOrder' /\ OutcomesInOrder' /\ KindsAreTheWorlds'
  BY <1>1, <1>2, GroupsStay, OutcomesStay, KindsStay DEF OrderInv
<1>4. NoOutcomeMissing'
  <2>1. FailedAt' = FailedAt /\ MeasuredAt' = MeasuredAt
    BY <1>1, WorldStays
  <2> QED  BY <1>1, <2>1 DEF OrderInv, NoOutcomeMissing
<1> QED  BY <1>1, <1>3, <1>4 DEF OrderInv, VisitedSoFar

LEMMA OrderInductive == IInv /\ OrderInv /\ [Next]_vars => OrderInv'
<1> SUFFICES ASSUME IInv, OrderInv, [Next]_vars PROVE OrderInv'
  OBVIOUS
<1>0. TypeOK
  BY DEF IInv
<1>1. CASE LoadExclusion
  BY <1>0, <1>1, LoadKeepsOrder
<1>2. CASE ResolveCandidate
  BY <1>0, <1>2, ResolveKeepsOrder
<1>3. CASE AllResolved
  BY <1>0, <1>3, AllResolvedKeepsOrder
<1>4. CASE NextGroup
  BY <1>0, <1>4, NextGroupKeepsOrder
<1>5. CASE MeasureFile
  BY <1>5, MeasureKeepsOrder
<1>6. CASE SlotFreed
  BY <1>6, SlotKeepsOrder
<1>7. CASE ApplyOutcome \/ AllApplied
  BY <1>0, <1>7, ApplyKeepsOrder
<1>8. ASSUME NEW real \in Paths, Task(real)
      PROVE  OrderInv'
  BY <1>0, <1>8, ReadKeepsOrder, MeasuredKeepsOrder, FreeKeepsOrder DEF Task
<1>9. CASE UNCHANGED vars
  <2>1. UNCHANGED <<mainVars, outcomes, fatalSeen, world, task, kind>>
    BY <1>9 DEF vars, mainVars, taskVars
  <2>2. KindsAreTheWorlds' /\ Started' = Started
    BY <1>0, <2>1, KindsStay DEF OrderInv, Started
  <2> QED  BY <1>0, <2>1, <2>2, TaskKeepsOrder
<1> QED
  BY <1>1, <1>2, <1>3, <1>4, <1>5, <1>6, <1>7, <1>8, <1>9 DEF Next, Main

-----------------------------------------------------------------------------
(* Every step of the scan is a step of the sequential scan or none.        *)

(* The next outcome is an entry the sequential scan may report next. *)
LEMMA NextOutcomeIsNext ==
  ASSUME IInv, OrderInv, ApplyOutcome
  PROVE  /\ Sequential!Remaining(world, Len(report)) > 0
         /\ [path |-> NextOutcome.path,
             kind |-> IF NextOutcome.real = NoPath THEN "error" ELSE kind[NextOutcome.real]]
              \in Sequential!NextEntries(world, Len(report) + 1)
<1> DEFINE k == Len(report) + 1
           n == Cardinality(FailedAt)
           m == Cardinality(MeasuredAt)
<1>0. TypeOK
  BY DEF IInv
<1>1. k \in 1..Len(outcomes) /\ k \in Nat /\ Len(report) = k - 1 /\ NextOutcome = outcomes[k]
      /\ (NextOutcome.real # NoPath => task[NextOutcome.real] = "settled")
  BY <1>0 DEF ApplyOutcome, NextOutcome, TypeOK
<1>2. n \in Nat /\ m \in Nat
  BY <1>0, PositionsCount
<1>3. Sequential!Remaining(world, Len(report)) = n + m - (k - 1)
  BY <1>1, InstanceCardinality DEF Sequential!Remaining, FailedAt, MeasuredAt
<1>4. Sequential!NextEntries(world, k) =
        IF k <= n
          THEN {[path |-> world.candidates[Sequential!Nth(FailedAt, k)], kind |-> "error"]}
          ELSE LET real == RealAt(Sequential!Nth(MeasuredAt, k - n))
               IN  {[path |-> path, kind |-> Sequential!KindOf(world, real)] :
                      path \in {p \in Sequential!KeptAliases(world, real) :
                                  Sequential!MayBeReportedAs(world, real, p)}}
  BY InstanceCardinality
     DEF Sequential!NextEntries, FailedAt, MeasuredAt, RealAt, Sequential!RealAt
<1> HIDE DEF k, n, m
<1>5. CASE FailureComes(k)
  <2>1. PICK i \in FailedAt : CountTo(FailedAt, i) = k /\ outcomes[k] = Failed(world.candidates[i])
    BY <1>5 DEF FailureComes
  <2>2. Sequential!Nth(FailedAt, k) = i /\ k <= n
    <3>1. FailedAt \subseteq Nat \ {0} /\ CountTo(FailedAt, i) <= n
      BY <1>0, PositionsCount DEF n
    <3>2. \A j \in FailedAt : CountTo(FailedAt, j) = k => j = i
      BY <2>1, <3>1, MembersAreCounted
    <3> QED  BY <2>1, <3>1, <3>2, InstanceCount DEF Sequential!Nth
  <2>3. NextOutcome.real = NoPath /\ NextOutcome.path = world.candidates[i]
    BY <1>1, <2>1 DEF Failed
  <2>4. n + m - (k - 1) > 0
    BY <1>1, <1>2, <2>2
  <2> QED  BY <1>1, <1>3, <1>4, <2>2, <2>3, <2>4 DEF k
<1>6. CASE MeasurementComes(k)
  <2>1. PICK i \in MeasuredAt :
          /\ n + CountTo(MeasuredAt, i) = k
          /\ outcomes[k] = Promise(ChooseMeasuredPath(world, RealAt(i)), RealAt(i))
    BY <1>6 DEF MeasurementComes, n
  <2> DEFINE real == RealAt(i)
             c == CountTo(MeasuredAt, i)
  <2>2. c \in Nat \ {0} /\ c <= m /\ MeasuredAt \subseteq Nat \ {0}
    BY <1>0, PositionsCount DEF m
  <2>3. ~(k <= n) /\ k - n = c /\ n + m - (k - 1) > 0
    <3> HIDE DEF c
    <3> QED  BY <1>1, <1>2, <2>1, <2>2 DEF c
  <2>4. Sequential!Nth(MeasuredAt, k - n) = i
    <3>1. \A j \in MeasuredAt : CountTo(MeasuredAt, j) = c => j = i
      BY <2>2, MembersAreCounted
    <3> QED  BY <2>3, <3>1, InstanceCount DEF Sequential!Nth
  <2>5. real \in Paths /\ Sequential!IsMeasured(world, real)
    <3>1. i \in FoundAt /\ Sequential!IsMeasured(world, real)
      BY MeasuredMeans
    <3>2. i \in Candidates /\ real # NoPath
      BY <3>1, FoundMeans
    <3> QED  BY <1>0, <3>1, <3>2, PositionTypes
  <2>6. NextOutcome.real = real /\ NextOutcome.path = ChooseMeasuredPath(world, real)
    BY <1>1, <2>1 DEF Promise
  <2>7. task[real] = "settled" /\ kind[real] = Sequential!KindOf(world, real)
    BY <1>1, <2>5, <2>6, NoPathAssumption DEF OrderInv, KindsAreTheWorlds
  <2>8. world \in WorldType /\ world.exclusion # "broken"
    BY <1>0 DEF OrderInv, TypeOK, ApplyOutcome
  <2>9. /\ ChooseMeasuredPath(world, real) \in Sequential!KeptAliases(world, real)
        /\ Sequential!MayBeReportedAs(world, real, ChooseMeasuredPath(world, real))
    BY <2>5, <2>8, ChosenPathIsReported
  <2>10. Sequential!NextEntries(world, k) =
           {[path |-> path, kind |-> Sequential!KindOf(world, real)] :
              path \in {p \in Sequential!KeptAliases(world, real) :
                          Sequential!MayBeReportedAs(world, real, p)}}
    BY <1>4, <2>3, <2>4
  <2>11. [path |-> NextOutcome.path, kind |-> kind[NextOutcome.real]]
           \in Sequential!NextEntries(world, k)
    <3> HIDE DEF real
    <3> QED  BY <2>6, <2>7, <2>9, <2>10
  <2> QED  BY <1>3, <2>3, <2>5, <2>6, <2>11, NoPathAssumption DEF k
<1> QED  BY <1>1, <1>5, <1>6 DEF OrderInv, OutcomesInOrder

LEMMA StepIsSequential ==
  IInv /\ OrderInv /\ [Next]_vars => [Sequential!Next]_(Sequential!vars)
<1> SUFFICES ASSUME IInv, OrderInv, [Next]_vars PROVE [Sequential!Next]_(Sequential!vars)
  OBVIOUS
<1>0. TypeOK
  BY DEF IInv
<1>1. ASSUME UNCHANGED <<world, report>>,
             (pc \notin {"done", "thrown"} /\ pc' \notin {"done", "thrown"}) \/ pc' = pc
      PROVE  UNCHANGED Sequential!vars
  BY <1>1 DEF Sequential!vars
<1>2. CASE LoadExclusion
  <2>1. CASE world.exclusion = "broken"
    <3>1. Sequential!Throw
      BY <1>2, <2>1 DEF LoadExclusion, Sequential!Throw
    <3> QED  BY <3>1 DEF Sequential!Next
  <2>2. CASE world.exclusion # "broken"
    BY <1>1, <1>2, <2>2 DEF LoadExclusion
  <2> QED  BY <2>1, <2>2
<1>3. CASE ResolveCandidate \/ AllResolved \/ NextGroup
  BY <1>1, <1>3 DEF ResolveCandidate, AllResolved, NextGroup
<1>4. CASE MeasureFile \/ SlotFreed
  BY <1>1, <1>4 DEF MeasureFile, SlotFreed, SkipGroup, StartMeasurement
<1>5. CASE ApplyOutcome
  <2> DEFINE entry == [path |-> NextOutcome.path,
                       kind |-> IF NextOutcome.real = NoPath THEN "error"
                                                             ELSE kind[NextOutcome.real]]
  <2>1. /\ Sequential!Remaining(world, Len(report)) > 0
        /\ entry \in Sequential!NextEntries(world, Len(report) + 1)
    BY <1>5, NextOutcomeIsNext
  <2>2. /\ pc = "settle" /\ world' = world /\ world.exclusion # "broken"
        /\ report' = Append(report, entry)
        /\ pc' = IF entry.kind = "fatal" THEN "done" ELSE "settle"
    BY <1>5 DEF ApplyOutcome, OrderInv
  <2> HIDE DEF entry
  <2>3. Sequential!Measure
    BY <2>1, <2>2 DEF Sequential!Measure
  <2> QED  BY <2>3 DEF Sequential!Next
<1>6. CASE AllApplied
  <2>1. /\ pc = "settle" /\ pc' = "done" /\ UNCHANGED <<world, report>>
        /\ Len(report) = Len(outcomes) /\ world.exclusion # "broken"
    BY <1>6 DEF AllApplied, OrderInv
  <2>2. ~fatalSeen
    <3>1. SUFFICES ASSUME fatalSeen PROVE FALSE
      OBVIOUS
    <3>2. PICK r \in Paths : task[r] = "settled" /\ kind[r] = "fatal"
      BY <3>1 DEF IInv, FatalHasACause
    <3>3. PICK i \in 1..Len(outcomes) : outcomes[i].real = r
      BY <3>2 DEF IInv, RecordedOnce, Started
    <3>4. report[i].kind # "fatal" /\ SettledAs(outcomes[i], report[i].kind)
      BY <2>1 DEF IInv, ReportSoFar
    <3> QED  BY <3>2, <3>3, <3>4, NoPathAssumption DEF SettledAs
  <2>3. Len(report) = Cardinality(FailedAt) + Cardinality(MeasuredAt)
    BY <2>1, <2>2 DEF OrderInv, NoOutcomeMissing
  <2>4. Cardinality(FailedAt) \in Nat /\ Cardinality(MeasuredAt) \in Nat
    BY <1>0, PositionsCount
  <2>5. Sequential!Remaining(world, Len(report)) = 0
    <3>1. Sequential!Remaining(world, Len(report)) =
            Cardinality(FailedAt) + Cardinality(MeasuredAt) - Len(report)
      BY InstanceCardinality DEF Sequential!Remaining, FailedAt, MeasuredAt
    <3> QED  BY <2>3, <2>4, <3>1
  <2>6. Sequential!Finish
    BY <2>1, <2>5 DEF Sequential!Finish
  <2> QED  BY <2>6 DEF Sequential!Next
<1>7. ASSUME NEW real \in Paths, Task(real)
      PROVE  UNCHANGED Sequential!vars
  BY <1>1, <1>7 DEF Task, FileRead, Measured, FreeSlot, mainVars
<1>8. CASE UNCHANGED vars
  BY <1>1, <1>8 DEF vars, mainVars
<1> QED
  BY <1>2, <1>3, <1>4, <1>5, <1>6, <1>7, <1>8 DEF Next, Main

LEMMA InitIsSequential == Init => Sequential!Init
<1> SUFFICES ASSUME Init PROVE Sequential!Init
  OBVIOUS
<1>1. pc \notin {"done", "thrown"} /\ world \in Worlds /\ report = <<>>
  BY DEF Init
<1> QED  BY <1>1 DEF Sequential!Init

(* What a scan of a directory or a file reports, and whether it throws, is *)
(* what measuring one file at a time in discovery order would report: the  *)
(* up to MaxInFlight measurements that run at once and settle in any order *)
(* (measureCandidates and settleScan of scan.ts) show nowhere.             *)
THEOREM ScanReportsInOrder ==
  Safety => Sequential!Safety
<1>1. Safety => [](IInv /\ OrderInv)
  <2>1. Init => IInv /\ OrderInv
    BY InitIInv, InitOrder
  <2>2. IInv /\ OrderInv /\ [Next]_vars => (IInv /\ OrderInv)'
    BY IInvInductive, OrderInductive
  <2> QED  BY <2>1, <2>2, PTL DEF Safety
<1> QED  BY <1>1, InitIsSequential, StepIsSequential, PTL DEF Safety, Sequential!Safety
=============================================================================
