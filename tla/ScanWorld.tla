------------------------------ MODULE ScanWorld ------------------------------
(***************************************************************************)
(* What one scan of src/src/scan.ts finds on the disk and in the addon:    *)
(* the data every decision of the scan reads and no step of it changes.    *)
(* Scan (the concurrent code) and SequentialScan (what it promises) share  *)
(* these definitions, so the two differ only in when things happen.        *)
(***************************************************************************)
EXTENDS Naturals, Sequences, SequencesExt

CONSTANTS Paths,   \* the absolute paths of one file system
          NoPath   \* "undefined": no path

ASSUME NoPathAssumption == NoPath \notin Paths

Modes      == {"single-file", "directory"}
Exclusions == {"absent", "loaded", "broken"}
Fates      == {"unreadable", "measured", "partial", "failing"}

(***************************************************************************)
(* candidates : the files the walk (or the caller) listed, in order        *)
(* realOf     : realpath; NoPath when it fails                             *)
(* exclusion  : loadExclusion is not given, succeeds or throws             *)
(* excluded   : the paths isExcludedPath is true of                        *)
(* generated  : the paths isGeneratedCode is true of, for the content read *)
(*              through them                                               *)
(* fate       : by real path: readFile fails; the file is measured; only   *)
(*              the cross-file half of the measurement fails; both fail    *)
(* addon      : whether a usable native addon can be loaded                *)
(***************************************************************************)
WorldType ==
  [mode : Modes, candidates : Seq(Paths), realOf : [Paths -> Paths \cup {NoPath}],
   exclusion : Exclusions, excluded : SUBSET Paths, generated : SUBSET Paths,
   fate : [Paths -> Fates], addon : BOOLEAN]

-----------------------------------------------------------------------------
(* The candidates that reach a real file, by their place in the discovery  *)
(* order: all of them, those no rule excludes, and those of them whose     *)
(* readable content their own attributes do not judge generated.           *)
Aliases(w, real) == {i \in 1..Len(w.candidates) : w.realOf[w.candidates[i]] = real}

Measurable(w, real) == {i \in Aliases(w, real) : w.candidates[i] \notin w.excluded}

Plain(w, real) ==
  {i \in Measurable(w, real) : w.fate[real] # "unreadable" /\ w.candidates[i] \notin w.generated}

FirstOf(w, positions) == IF positions = {} THEN NoPath ELSE w.candidates[Min(positions)]

(* Variant: the first alias found decides alone. *)
ChooseFirstAlias(w, real) ==
  LET first == FirstOf(w, Aliases(w, real))
  IN  IF w.exclusion = "loaded" /\ (first \in w.excluded \/ real \in w.excluded)
        THEN NoPath ELSE first

(* The path a real file is measured through; NoPath when it is excluded.   *)
(* With one measurable alias the last two choices are the same, and the    *)
(* code does not read the file to tell them apart.                         *)
ChooseMeasuredPath(w, real) ==
  LET measurable == Measurable(w, real)
      plain      == Plain(w, real)
  IN  IF w.exclusion # "loaded" THEN FirstOf(w, Aliases(w, real))
      ELSE IF real \in w.excluded THEN NoPath
      ELSE IF \E i \in measurable : w.candidates[i] = real THEN real
      ELSE IF plain # {} THEN FirstOf(w, plain)
      ELSE FirstOf(w, measurable)

(* Either the scanned path or the real one can judge the content generated. *)
JudgedGenerated(w, path, real) ==
  /\ w.mode = "directory"
  /\ w.exclusion = "loaded"
  /\ path \in w.generated \/ real \in w.generated

(***************************************************************************)
(* A candidate whose realpath fails, or whose file is reported through     *)
(* `path`, contributes one entry to the report.                            *)
(***************************************************************************)
Kinds == {"file", "warned", "generated", "error", "fatal"}
Entries == [path : Paths, kind : Kinds]

(* What asking the addon for both halves at once, then for one, comes to. *)
MeasuredKind(w, real) ==
  IF ~w.addon THEN "fatal"
  ELSE IF w.fate[real] = "measured" THEN "file"
  ELSE IF w.fate[real] = "partial"
    THEN (IF w.mode = "directory" THEN "warned" ELSE "file")
  ELSE "error"

=============================================================================
