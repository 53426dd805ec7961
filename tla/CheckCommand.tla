---------------------------- MODULE CheckCommand ----------------------------
(***************************************************************************)
(* A run of the check on a repository (checkCommand.ts runCheckCommand,    *)
(* scanRepository) while a developer goes on working in it.  Git and the   *)
(* files are read step by step, some steps by two git processes at once,   *)
(* so that every step may see another working tree.  What a content        *)
(* violates is a constant: its own check is in ThresholdCheck.             *)
(***************************************************************************)
EXTENDS Integers

CONSTANTS
  Files,         \* the paths with a supported type that nothing excludes
  Ignored,       \* the files that git does not list unless they are tracked
  Contents, Absent,
  Violating,     \* the contents with an error-level violation
  ErrorPrefixes,      \* pairs of a path and a file whose error texts start with "path:"
  MaxEdits

ASSUME CheckAssumption ==
  /\ Absent \notin Contents /\ Violating \subseteq Contents /\ Ignored \subseteq Files
  /\ \A f \in Files : <<f, f>> \in ErrorPrefixes

VARIABLES
  tracked, base, work,  \* the index, the merge base, the working tree
  failing,       \* the files whose measurement fails
  edits, touched,  \* what the developer did since the run began
  onlyChanges,   \* whether the run has --base
  step,          \* what the run does next
  seen,          \* what git processes answered, by command
  toRead,        \* the files this step has yet to read
  measured, errors,
  hunks,         \* by checked entry of the change, whether its lines differ from its base
  exitCode       \* Running until the run ends

Running == 3

world == <<tracked, base, work, failing, edits, touched>>
vars == <<world, onlyChanges, step, seen, toRead, measured, errors, hunks, exitCode>>

Present == {f \in Files : work[f] # Absent}

With(function, key, value) ==
  [k \in DOMAIN function \cup {key} |-> IF k = key THEN value ELSE function[k]]

Init ==
  /\ tracked \in SUBSET Files /\ failing \in SUBSET Files
  /\ base \in [Files -> Contents \cup {Absent}] /\ work \in [Files -> Contents \cup {Absent}]
  /\ edits = 0 /\ touched = {} /\ onlyChanges \in BOOLEAN
  /\ step = "list" /\ seen = <<>> /\ toRead = {}
  /\ measured = <<>> /\ errors = {} /\ hunks = <<>> /\ exitCode = Running

-----------------------------------------------------------------------------
(* The developer writes, creates or deletes a file, and adds it or not. *)
Edit(f) ==
  /\ edits < MaxEdits /\ exitCode = Running
  /\ \E c \in Contents \cup {Absent} : c # work[f] /\ work' = [work EXCEPT ![f] = c]
  /\ tracked' \in {tracked, tracked \cup {f}, tracked \ {f}}
  /\ edits' = edits + 1 /\ touched' = touched \cup {f}
  /\ UNCHANGED <<base, failing, onlyChanges, step, seen, toRead, measured, errors, hunks, exitCode>>

-----------------------------------------------------------------------------
Untracked == {f \in Present \ tracked : f \notin Ignored}
Added(files) == {[head |-> f, status |-> "added"] : f \in files}

(* git diff --name-status of the working tree against the merge base. *)
Differing ==
  {e \in [status : {"added", "modified", "deleted"}, head : Files] :
     LET f == e.head
         inTree == f \in tracked /\ f \in Present
     IN e.status = IF base[f] = Absent THEN IF inTree THEN "added" ELSE "none"
                   ELSE IF ~inTree THEN "deleted"
                   ELSE IF work[f] # base[f] THEN "modified" ELSE "none"}

Answer(command) ==
  CASE command = "ls-files" -> tracked \cup Untracked
    [] command = "ls-files --deleted" -> tracked \ Present
    [] command = "diff" -> Differing
    [] command = "ls-files --others" -> Untracked

Commands == [list |-> {"ls-files", "ls-files --deleted"}, changes |-> {"diff", "ls-files --others"}]

(* The two processes of a step answer in any order. *)
GitAnswers(command) ==
  /\ step \in DOMAIN Commands /\ command \in Commands[step] \ DOMAIN seen
  /\ seen' = With(seen, command, Answer(command))
  /\ UNCHANGED <<world, onlyChanges, step, toRead, measured, errors, hunks, exitCode>>

Answered == step \in DOMAIN Commands /\ Commands[step] \subseteq DOMAIN seen

RepositoryFiles == seen["ls-files"] \ seen["ls-files --deleted"]

StartScan ==
  /\ step = "list" /\ Answered
  /\ step' = "scan" /\ toRead' = RepositoryFiles
  /\ UNCHANGED <<world, onlyChanges, seen, measured, errors, hunks, exitCode>>

(* A listed file that is gone by now is one that cannot be measured. *)
Measure(f) ==
  /\ step = "scan" /\ f \in toRead
  /\ toRead' = toRead \ {f}
  /\ IF f \in Present \ failing
       THEN measured' = With(measured, f, work[f]) /\ UNCHANGED errors
       ELSE errors' = errors \cup {f} /\ UNCHANGED measured
  /\ UNCHANGED <<world, onlyChanges, step, seen, hunks, exitCode>>

(* Without --base the files checked are those that were measured. *)
EndScan ==
  /\ step = "scan" /\ toRead = {}
  /\ IF onlyChanges THEN step' = "changes" /\ UNCHANGED <<toRead, hunks>>
     ELSE /\ step' = "directives" /\ toRead' = DOMAIN measured
          /\ hunks' = [e \in Added(DOMAIN measured) |-> TRUE]
  /\ UNCHANGED <<world, onlyChanges, seen, measured, errors, exitCode>>

(* A file that left the index stays in the change as an untracked one. *)
ChangedFiles ==
  {e \in seen["diff"] : e.status # "deleted"}
  \cup Added(seen["ls-files --others"])

(* A changed file the scan left out has nothing to check. *)
StartHunks ==
  /\ step = "changes" /\ Answered
  /\ step' = "hunks"
  /\ toRead' = {e \in ChangedFiles : e.head \in DOMAIN measured}
  /\ UNCHANGED <<world, onlyChanges, seen, measured, errors, hunks, exitCode>>

(* All of an added file is a hunk, whatever became of it. *)
AttachHunks(e) ==
  /\ step = "hunks" /\ e \in toRead
  /\ toRead' = toRead \ {e}
  /\ hunks' = With(hunks, e, e.status = "added" \/ work[e.head] # base[e.head])
  /\ UNCHANGED <<world, onlyChanges, step, seen, measured, errors, exitCode>>

EndHunks ==
  /\ step = "hunks" /\ toRead = {}
  /\ step' = "directives" /\ toRead' = {e.head : e \in DOMAIN hunks}
  /\ UNCHANGED <<world, onlyChanges, seen, measured, errors, hunks, exitCode>>

-----------------------------------------------------------------------------
(* Reading a checked file again fails the run when it is gone. *)
ReadAgain(f) ==
  /\ step \in {"directives", "line ends"} /\ f \in toRead
  /\ IF f \in Present THEN toRead' = toRead \ {f} /\ UNCHANGED <<step, exitCode>>
     ELSE exitCode' = 2 /\ step' = "done" /\ UNCHANGED toRead
  /\ UNCHANGED <<world, onlyChanges, seen, measured, errors, hunks>>

Violations == {e.head : e \in {e \in DOMAIN hunks : hunks[e] /\ measured[e.head] \in Violating}}

CheckThresholds ==
  /\ step = "directives" /\ toRead = {}
  /\ step' = "line ends" /\ toRead' = Violations
  /\ UNCHANGED <<world, onlyChanges, seen, measured, errors, hunks, exitCode>>

(* Variant: an error is covered when its file was measured. *)
IsCoveredIfMeasured(f) == ~onlyChanges \/ f \in DOMAIN measured

(* Whether an error is about a file the check covers, by the start of its text. *)
IsCovered(f) == ~onlyChanges \/ \E e \in ChangedFiles : <<e.head, f>> \in ErrorPrefixes

CoveredErrors == {f \in errors : IsCovered(f)}

Exit ==
  /\ step = "line ends" /\ toRead = {}
  /\ step' = "done"
  /\ exitCode' = IF CoveredErrors # {} THEN 2 ELSE IF Violations # {} THEN 1 ELSE 0
  /\ UNCHANGED <<world, onlyChanges, seen, toRead, measured, errors, hunks>>

(* A git command or the native addon fails, at any step. *)
Fail ==
  /\ step \in {"list", "scan", "changes", "hunks"}
  /\ step' = "done" /\ exitCode' = 2
  /\ UNCHANGED <<world, onlyChanges, seen, toRead, measured, errors, hunks>>

Next ==
  \/ \E f \in Files : Edit(f) \/ Measure(f) \/ ReadAgain(f)
  \/ \E command \in UNION {Commands[s] : s \in DOMAIN Commands} : GitAnswers(command)
  \/ \E e \in [status : {"added", "modified"}, head : Files] : AttachHunks(e)
  \/ StartScan \/ EndScan \/ StartHunks \/ EndHunks \/ CheckThresholds \/ Exit \/ Fail
Spec == Init /\ [][Next]_vars

-----------------------------------------------------------------------------
(* What the run had to check, of what the developer left alone meanwhile. *)
Due ==
  {f \in Present \ touched :
     /\ f \in tracked \/ f \notin Ignored
     /\ onlyChanges => f \notin tracked \/ work[f] # base[f]}

(* An exit code tells the state of every file that stayed as it was while   *)
(* the run read the repository, whatever happened to the others: 0 says     *)
(* that all of them were measured and violate nothing, 1 that all were      *)
(* measured (runCheckCommand's exit codes).                                 *)
ExitCodeIsOfEveryFile ==
  /\ exitCode \in {0, 1} => Due \subseteq DOMAIN measured
  /\ exitCode = 0 => \A f \in Due : work[f] \notin Violating
=============================================================================
