--------------------------- MODULE SequentialScan ---------------------------
(***************************************************************************)
(* What a scan promises, whatever the order its measurements finish in:    *)
(* the report of measuring one real file at a time, in discovery order,    *)
(* and stopping at the first fatal failure.  Which alias of a real file is *)
(* reported is left open as far as the code's comments leave it open; what *)
(* is reported of it does not depend on the order of the aliases.          *)
(***************************************************************************)
EXTENDS ScanWorld, FiniteSets

CONSTANT Worlds

VARIABLES world, report, status
vars == <<world, report, status>>

Positions(w) == 1..Len(w.candidates)
RealAt(w, i) == w.realOf[w.candidates[i]]

(* The number of members up to n, and the k-th of them. *)
CountTo(S, n) == Cardinality({i \in S : i <= n})
Nth(S, k) == CHOOSE i \in S : CountTo(S, i) = k

(* The candidates that do not resolve: reported before anything measured. *)
Unresolved(w) == {i \in Positions(w) : RealAt(w, i) = NoPath}

KeptAliases(w, real) ==
  {path \in ToSet(w.candidates) :
     /\ w.realOf[path] = real
     /\ w.exclusion = "loaded" => path \notin w.excluded}

IsMeasured(w, real) ==
  /\ KeptAliases(w, real) # {}
  /\ w.exclusion = "loaded" => real \notin w.excluded

(* The real files, each where its first alias was found, and the measured ones. *)
FirstAliases(w) ==
  {i \in Positions(w) : RealAt(w, i) # NoPath /\ \A j \in 1..(i - 1) : RealAt(w, j) # RealAt(w, i)}
RealFiles(w) == {i \in FirstAliases(w) : IsMeasured(w, RealAt(w, i))}

(* The real path when it was listed itself; otherwise an alias whose own   *)
(* attributes do not judge the content generated, if there is one.         *)
MayBeReportedAs(w, real, path) ==
  LET kept  == KeptAliases(w, real)
      plain == {p \in kept : p \notin w.generated}
  IN  /\ path \in kept
      /\ w.exclusion = "loaded" /\ real \in kept => path = real
      /\ (w.exclusion = "loaded" /\ real \notin kept /\ plain # {} /\ w.fate[real] # "unreadable")
            => path \in plain

KindOf(w, real) ==
  LET kept == KeptAliases(w, real)
      isGenerated ==
        /\ w.exclusion = "loaded"
        /\ \/ real \in w.generated
           \/ real \notin kept /\ kept \subseteq w.generated
  IN  CASE w.fate[real] = "unreadable"                   -> "error"
        [] w.fate[real] # "unreadable" /\ isGenerated    -> "generated"
        [] w.fate[real] # "unreadable" /\ ~isGenerated   -> MeasuredKind(w, real)

-----------------------------------------------------------------------------
Init ==
  /\ world \in Worlds
  /\ report = <<>>
  /\ status = "scanning"

(* The entries that may come next if nothing ended the scan before them. *)
NextEntries(w, k) ==
  LET n    == Cardinality(Unresolved(w))
      real == RealAt(w, Nth(RealFiles(w), k - n))
  IN  IF k <= n
        THEN {[path |-> w.candidates[Nth(Unresolved(w), k)], kind |-> "error"]}
        ELSE {[path |-> path, kind |-> KindOf(w, real)] :
                path \in {p \in KeptAliases(w, real) : MayBeReportedAs(w, real, p)}}

Remaining(w, n) == Cardinality(Unresolved(w)) + Cardinality(RealFiles(w)) - n

Measure ==
  /\ status = "scanning"
  /\ world.exclusion # "broken"
  /\ Remaining(world, Len(report)) > 0
  /\ \E entry \in NextEntries(world, Len(report) + 1) :
       /\ report' = Append(report, entry)
       /\ status' = IF entry.kind = "fatal" THEN "done" ELSE "scanning"
  /\ UNCHANGED world

Finish ==
  /\ status = "scanning"
  /\ world.exclusion # "broken"
  /\ Remaining(world, Len(report)) = 0
  /\ status' = "done"
  /\ UNCHANGED <<world, report>>

Throw ==
  /\ status = "scanning"
  /\ world.exclusion = "broken"
  /\ status' = "thrown"
  /\ UNCHANGED <<world, report>>

Next == Measure \/ Finish \/ Throw

Safety == Init /\ [][Next]_vars
Spec   == Safety /\ WF_vars(Next)
=============================================================================
