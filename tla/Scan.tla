-------------------------------- MODULE Scan --------------------------------
(***************************************************************************)
(* The measuring half of a scan: measureCandidates, measureFile,           *)
(* readAndMeasureFile and settleScan of src/src/scan.ts.  One main         *)
(* continuation walks the candidates and starts measurements; up to        *)
(* MaxInFlight measurements run between its awaits and settle in any       *)
(* order.  A step is what the event loop runs without an await in between. *)
(***************************************************************************)
EXTENDS ScanWorld, FiniteSets

CONSTANTS Worlds,       \* the file systems this scan may meet
          MaxInFlight   \* maxMeasurementsInFlight

(* A single-file target is its own, only candidate and is never excluded. *)
ASSUME ScanAssumption ==
  /\ Worlds \subseteq WorldType
  /\ \A w \in Worlds : w.mode = "single-file" =>
       /\ Len(w.candidates) = 1
       /\ w.realOf[w.candidates[1]] = w.candidates[1]
       /\ w.exclusion = "absent"
  /\ MaxInFlight \in Nat \ {0}

VARIABLES
  world,      \* what the scan finds; never changes
  pc,         \* where the main continuation is
  index,      \* the candidate, then the group, the main loop is at
  groups,     \* keys of pathsByRealFile, in insertion order
  visited,    \* visitedFiles
  chosen,     \* the path of the measurement waiting for a slot
  outcomes,   \* context.outcomes
  task,       \* by real path: the continuation of readAndMeasureFile
  kind,       \* by real path: the outcome a settled promise holds
  inFlight,   \* context.inFlight, as the real paths being measured
  fatalSeen,  \* context.fatalSeen
  report,     \* what settleScan has applied so far
  lateStarts  \* history: measurements started although fatalSeen was set

mainVars == <<world, pc, index, groups, visited, chosen, report>>
taskVars == <<task, kind, inFlight, fatalSeen>>
vars     == <<mainVars, taskVars, outcomes, lateStarts>>

PCs       == {"exclusion", "resolve", "next", "choosing", "slot", "settle", "done", "thrown"}
TaskStates == {"idle", "reading", "measuring", "settled"}

(* outcomes holds settled errors and the promises of measurements. *)
Failed(path)          == [path |-> path, real |-> NoPath]
Promise(path, real)   == [path |-> path, real |-> real]
OutcomeType           == [path : Paths, real : Paths \cup {NoPath}]

Group   == groups[index]

(* Variants: the bound off by one; the fatal failure not looked at. *)
MustWaitLate == Cardinality(inFlight) > MaxInFlight
NeverStopped == FALSE

(* All slots are taken: measureFile has to wait for one. *)
MustWait == Cardinality(inFlight) >= MaxInFlight

(* A fatal failure was seen: measureCandidates and measureFile return. *)
Stopped == fatalSeen

Started == {r \in Paths : task[r] # "idle"}

-----------------------------------------------------------------------------
Init ==
  /\ world \in Worlds
  /\ pc = IF world.mode = "directory" THEN "exclusion" ELSE "choosing"
  /\ index = 1
  /\ groups = IF world.mode = "directory" THEN <<>> ELSE <<world.candidates[1]>>
  /\ visited = {}
  /\ chosen = NoPath
  /\ outcomes = <<>>
  /\ task = [r \in Paths |-> "idle"]
  /\ kind = [r \in Paths |-> "error"]
  /\ inFlight = {}
  /\ fatalSeen = FALSE
  /\ report = <<>>
  /\ lateStarts = 0

(* measureCandidates: the exclusion covering all candidates is loaded first. *)
LoadExclusion ==
  /\ pc = "exclusion"
  /\ pc' = IF world.exclusion = "broken" THEN "thrown" ELSE "resolve"
  /\ UNCHANGED <<world, index, groups, visited, chosen, report, taskVars, outcomes, lateStarts>>

(* measureCandidates: one turn of the grouping loop. *)
ResolveCandidate ==
  /\ pc = "resolve"
  /\ index <= Len(world.candidates)
  /\ LET path == world.candidates[index]
         real == world.realOf[path]
     IN  \/ /\ real = NoPath
            /\ outcomes' = Append(outcomes, Failed(path))
            /\ UNCHANGED groups
         \/ /\ real # NoPath
            /\ groups' = IF real \in ToSet(groups) THEN groups ELSE Append(groups, real)
            /\ UNCHANGED outcomes
  /\ index' = index + 1
  /\ UNCHANGED <<world, pc, visited, chosen, report, taskVars, lateStarts>>

AllResolved ==
  /\ pc = "resolve"
  /\ index > Len(world.candidates)
  /\ pc' = "next"
  /\ index' = 1
  /\ UNCHANGED <<world, groups, visited, chosen, report, taskVars, outcomes, lateStarts>>

(* The head of the measuring loop: done, stopped by a fatal failure, or a  *)
(* call of chooseMeasuredPath, whose answer is awaited.                    *)
NextGroup ==
  /\ pc = "next"
  /\ pc' = IF index > Len(groups) \/ Stopped THEN "settle" ELSE "choosing"
  /\ UNCHANGED <<world, index, groups, visited, chosen, report, taskVars, outcomes, lateStarts>>

(* The end of measureFile: readAndMeasureFile runs up to its first await. *)
StartMeasurement(path, real) ==
  /\ task' = [task EXCEPT ![real] = "reading"]
  /\ inFlight' = inFlight \cup {real}
  /\ outcomes' = Append(outcomes, Promise(path, real))
  /\ lateStarts' = IF fatalSeen THEN lateStarts + 1 ELSE lateStarts
  /\ chosen' = NoPath
  /\ index' = index + 1
  /\ pc' = "next"
  /\ UNCHANGED <<kind, fatalSeen>>

(* measureFile returns without measuring, or chose nothing to measure. *)
SkipGroup ==
  /\ index' = index + 1
  /\ pc' = "next"
  /\ UNCHANGED <<visited, chosen, outcomes, taskVars, lateStarts>>

(* The answer of chooseMeasuredPath and the part of measureFile before the *)
(* slot wait, with the start itself when a slot is free.                   *)
MeasureFile ==
  /\ pc = "choosing"
  /\ LET path == ChooseMeasuredPath(world, Group)
     IN  \/ /\ path = NoPath \/ Stopped \/ Group \in visited
            /\ SkipGroup
         \/ /\ path # NoPath
            /\ ~Stopped
            /\ Group \notin visited
            /\ visited' = visited \cup {Group}
            /\ IF MustWait
                 THEN /\ chosen' = path
                      /\ pc' = "slot"
                      /\ UNCHANGED <<index, outcomes, taskVars, lateStarts>>
                 ELSE StartMeasurement(path, Group)
  /\ UNCHANGED <<world, groups, report>>

(* Promise.race(inFlight) resumes the waiting measureFile. *)
SlotFreed ==
  /\ pc = "slot"
  /\ ~MustWait
  /\ StartMeasurement(chosen, Group)
  /\ UNCHANGED <<world, groups, visited, report>>

-----------------------------------------------------------------------------
(* The promise of readAndMeasureFile resolves; it never rejects. *)
Settle(real, k) ==
  /\ task' = [task EXCEPT ![real] = "settled"]
  /\ kind' = [kind EXCEPT ![real] = k]
  /\ fatalSeen' = (fatalSeen \/ k = "fatal")
  /\ UNCHANGED inFlight

(* The `file` a measurement was started with. *)
MeasuredPath(real) ==
  outcomes[CHOOSE i \in 1..Len(outcomes) : outcomes[i].real = real].path

(* readFile answers: an error, generated code, a synchronous measurement   *)
(* (single file) or a call of the addon that is awaited.                   *)
FileRead(real) ==
  /\ task[real] = "reading"
  /\ \/ /\ world.fate[real] = "unreadable"
        /\ Settle(real, "error")
     \/ /\ world.fate[real] # "unreadable"
        /\ JudgedGenerated(world, MeasuredPath(real), real)
        /\ Settle(real, "generated")
     \/ /\ world.fate[real] # "unreadable"
        /\ world.mode = "single-file"
        /\ Settle(real, MeasuredKind(world, real))
     \/ /\ world.fate[real] # "unreadable"
        /\ world.mode = "directory"
        /\ ~JudgedGenerated(world, MeasuredPath(real), real)
        /\ task' = [task EXCEPT ![real] = "measuring"]
        /\ UNCHANGED <<kind, inFlight, fatalSeen>>
  /\ UNCHANGED <<mainVars, outcomes, lateStarts>>

(* measureWithCrossFileData answers, the synchronous fallback included. *)
Measured(real) ==
  /\ task[real] = "measuring"
  /\ Settle(real, MeasuredKind(world, real))
  /\ UNCHANGED <<mainVars, outcomes, lateStarts>>

(* Variant: the slot of a measurement that failed is kept. *)
FreeSlotOfSuccess(real) ==
  /\ task[real] = "settled"
  /\ kind[real] = "file"
  /\ real \in inFlight
  /\ inFlight' = inFlight \ {real}
  /\ UNCHANGED <<mainVars, task, kind, fatalSeen, outcomes, lateStarts>>

(* The callback that gives the slot back once the promise has settled. *)
FreeSlot(real) ==
  /\ task[real] = "settled"
  /\ real \in inFlight
  /\ inFlight' = inFlight \ {real}
  /\ UNCHANGED <<mainVars, task, kind, fatalSeen, outcomes, lateStarts>>

-----------------------------------------------------------------------------
NextOutcome == outcomes[Len(report) + 1]

(* Variants: a pending outcome is applied; a fatal one is an error.        *)
ApplyUnawaited ==
  /\ pc = "settle"
  /\ Len(report) < Len(outcomes)
  /\ LET k == IF NextOutcome.real = NoPath THEN "error" ELSE kind[NextOutcome.real]
     IN  /\ report' = Append(report, [path |-> NextOutcome.path, kind |-> k])
         /\ pc' = IF k = "fatal" THEN "done" ELSE "settle"
  /\ UNCHANGED <<world, index, groups, visited, chosen, taskVars, outcomes, lateStarts>>

ApplyFatalAsError ==
  /\ pc = "settle"
  /\ Len(report) < Len(outcomes)
  /\ NextOutcome.real # NoPath => task[NextOutcome.real] = "settled"
  /\ LET k == IF NextOutcome.real = NoPath THEN "error" ELSE kind[NextOutcome.real]
     IN  report' = Append(report, [path |-> NextOutcome.path,
                                   kind |-> IF k = "fatal" THEN "error" ELSE k])
  /\ UNCHANGED <<world, pc, index, groups, visited, chosen, taskVars, outcomes, lateStarts>>

(* One turn of settleScan's loop: the outcome is awaited, then applied. *)
ApplyOutcome ==
  /\ pc = "settle"
  /\ Len(report) < Len(outcomes)
  /\ NextOutcome.real # NoPath => task[NextOutcome.real] = "settled"
  /\ LET k == IF NextOutcome.real = NoPath THEN "error" ELSE kind[NextOutcome.real]
     IN  /\ report' = Append(report, [path |-> NextOutcome.path, kind |-> k])
         /\ pc' = IF k = "fatal" THEN "done" ELSE "settle"
  /\ UNCHANGED <<world, index, groups, visited, chosen, taskVars, outcomes, lateStarts>>

AllApplied ==
  /\ pc = "settle"
  /\ Len(report) = Len(outcomes)
  /\ pc' = "done"
  /\ UNCHANGED <<world, index, groups, visited, chosen, report, taskVars, outcomes, lateStarts>>

-----------------------------------------------------------------------------
Main ==
  \/ LoadExclusion
  \/ ResolveCandidate
  \/ AllResolved
  \/ NextGroup
  \/ MeasureFile
  \/ SlotFreed
  \/ ApplyOutcome
  \/ AllApplied

Task(real) ==
  \/ FileRead(real)
  \/ Measured(real)
  \/ FreeSlot(real)

Next == Main \/ \E real \in Paths : Task(real)

(* The event loop runs every continuation whose promise has settled; reads *)
(* and measurements answer (the worker pool's part: see WorkerPool).       *)
Fairness == WF_vars(Main) /\ \A real \in Paths : WF_vars(Task(real))

Safety == Init /\ [][Next]_vars
Spec   == Safety /\ Fairness
-----------------------------------------------------------------------------
TypeOK ==
  /\ world \in WorldType
  /\ pc \in PCs
  /\ index \in Nat \ {0}
  /\ groups \in Seq(Paths)
  /\ visited \subseteq Paths
  /\ chosen \in Paths \cup {NoPath}
  /\ outcomes \in Seq(OutcomeType)
  /\ task \in [Paths -> TaskStates]
  /\ kind \in [Paths -> Kinds]
  /\ inFlight \subseteq Paths
  /\ fatalSeen \in BOOLEAN
  /\ report \in Seq(Entries)
  /\ lateStarts \in Nat

(* A measurement holds file contents or a payload only while it has one of *)
(* the MaxInFlight slots: nothing runs outside the bound (scan.ts:109).    *)
SlotBound ==
  /\ Cardinality(inFlight) <= MaxInFlight
  /\ \A real \in Paths : task[real] \in {"reading", "measuring"} => real \in inFlight

(* Every started measurement is recorded exactly once, so settleScan can   *)
(* neither lose a file nor report one twice however paths alias it.        *)
RecordedOnce ==
  /\ \A real \in Started : \E i \in 1..Len(outcomes) : outcomes[i].real = real
  /\ \A i, j \in 1..Len(outcomes) :
       outcomes[i].real = outcomes[j].real /\ outcomes[i].real # NoPath => i = j
  /\ \A i \in 1..Len(outcomes) : outcomes[i].real # NoPath => outcomes[i].real \in Started

(* A fatal failure stops the scan up to the one measurement that was       *)
(* already waiting for a slot (scan.ts:445-448).                           *)
AtMostOneLateStart == lateStarts <= 1

(* Without a usable addon no scan that reached a measurement ends as a     *)
(* success: the first entry a reader can miss is the fatal one.            *)
FatalIsReported ==
  pc = "done" /\ fatalSeen => report # <<>> /\ report[Len(report)].kind = "fatal"

-----------------------------------------------------------------------------
(* What the safety properties rest on, each part inductive with the others. *)

(* The slots in use are finitely many, so their number can be compared.    *)
SlotsInUse == IsFiniteSet(inFlight) /\ SlotBound

(* The measuring loop stands at a group while it chooses or waits, and the *)
(* waiting measurement is the only one of its file.                        *)
LoopPosition ==
  /\ pc \in {"choosing", "slot"} => index \in 1..Len(groups)
  /\ pc = "slot" => Group \in visited /\ task[Group] = "idle" /\ chosen \in Paths

(* visitedFiles is set before a measurement starts. *)
VisitedFirst == Started \subseteq visited

(* After a late start the loop has no measurement left to start. *)
LateStartIsLast ==
  lateStarts > 0 => lateStarts = 1 /\ fatalSeen /\ pc \in {"next", "settle", "done"}

(* fatalSeen is set by a measurement that settled as fatal. *)
FatalHasACause == fatalSeen => \E r \in Paths : task[r] = "settled" /\ kind[r] = "fatal"

SettledAs(outcome, k) ==
  outcome.real # NoPath => task[outcome.real] = "settled" /\ kind[outcome.real] = k

(* What settleScan applied so far had settled, and none of it was fatal;   *)
(* once it is done with every outcome nothing can turn fatal any more.     *)
ReportSoFar ==
  /\ pc \notin {"settle", "done"} => report = <<>>
  /\ Len(report) <= Len(outcomes)
  /\ pc = "settle" => \A i \in 1..Len(report) :
       report[i].kind # "fatal" /\ SettledAs(outcomes[i], report[i].kind)
  /\ pc = "done" =>
       \/ report # <<>> /\ report[Len(report)].kind = "fatal"
       \/ ~fatalSeen /\ \A r \in Paths : task[r] \in {"idle", "settled"}

(* The inductive invariant of the proofs. *)
IInv ==
  /\ TypeOK
  /\ SlotsInUse
  /\ LoopPosition
  /\ VisitedFirst
  /\ RecordedOnce
  /\ LateStartIsLast
  /\ FatalHasACause
  /\ ReportSoFar

-----------------------------------------------------------------------------
(* The comment of scan.ts:111, "Set once a measurement fails fatally; no   *)
(* further measurement starts".                                            *)
NoLateStart == lateStarts = 0

(* The comment of scan.ts:105, "Outcomes in discovery order": the outcome  *)
(* of a candidate comes before the outcomes of candidates found after it.  *)
DiscoveredAt(outcome) ==
  IF outcome.real = NoPath
    THEN {i \in 1..Len(world.candidates) : world.candidates[i] = outcome.path}
    ELSE {i \in 1..Len(world.candidates) : world.realOf[world.candidates[i]] = outcome.real}

OutcomesInDiscoveryOrder ==
  \A i, j \in 1..Len(outcomes) : i < j =>
    \E k \in DiscoveredAt(outcomes[i]) : \A l \in DiscoveredAt(outcomes[j]) : k < l

(* The scan ends, and every slot is given back, whatever order the         *)
(* measurements finish in.                                                 *)
Termination == <>[](pc \in {"done", "thrown"} /\ inFlight = {})

(* The report is the one of measuring a file at a time in discovery order. *)
Sequential ==
  INSTANCE SequentialScan
    WITH status <- IF pc \in {"done", "thrown"} THEN pc ELSE "scanning"
RefinesSequentialScan == Sequential!Spec
=============================================================================
