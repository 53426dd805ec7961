----------------------------- MODULE Statements -----------------------------
(***************************************************************************)
(* Token streams as src/src/duplication.ts sees them: containers (braced   *)
(* blocks) of sibling statements.  A statement is its shape, what is left  *)
(* of it once identifiers are anonymized, and the identifier it uses.  A   *)
(* brace or statement is one token.                                        *)
(***************************************************************************)
EXTENDS Integers, Sequences, FiniteSetsExt

CONSTANTS MinTokens,   \* options.minTokens
          MaxWindow    \* maxSequenceStatementCount

(* A container: its file, the index of its first token, its statements. *)
RunStart(k)    == k.at + 1
RunEnd(k)      == k.at + 1 + Len(k.statements)
BlockEnd(k)    == k.at + 2 + Len(k.statements)

(* A window: the container, its first statement and how many. *)
Window(k, start, length) == [container |-> k, start |-> start, length |-> length]

WindowStatements(containers, w) ==
  SubSeq(containers[w.container].statements, w.start, w.start + w.length - 1)

(* minSequenceStatementCount is 2.  The rows of windowKeysByStart. *)
IsWindow(containers, w) ==
  /\ w.length \in 2..MaxWindow
  /\ w.length >= MinTokens
  /\ w.start >= 1
  /\ w.start + w.length - 1 <= Len(containers[w.container].statements)

Windows(containers) ==
  {w \in {Window(k, s, n) : k \in DOMAIN containers, n \in 2..MaxWindow,
                            s \in 1..Max({1} \cup {Len(containers[k].statements) : k \in DOMAIN containers})} :
     IsWindow(containers, w)}

(* Identifiers are numbered by their first occurrence in the range, so      *)
(* that renaming them consistently keeps the fingerprint.                  *)
Naming(statements) ==
  [i \in DOMAIN statements |->
     Min({j \in DOMAIN statements : statements[j].name = statements[i].name})]

(* statementHashes: each statement fingerprinted by itself. *)
Shapes(statements) == [i \in DOMAIN statements |-> statements[i].shape]

(* fingerprintKey with its prefix: "b" for a block, "s" for a run. *)
Fingerprint(kind, statements) == <<kind, Shapes(statements), Naming(statements)>>

(* A constant preamble or table: all statements of one shape. *)
HasDistinctStatements(containers, w) ==
  Cardinality({s.shape : s \in {WindowStatements(containers, w)[i] : i \in 1..w.length}}) >= 2

(* repeats, of the windows with one key: two occurrences can coexist, or    *)
(* lie in two files where asked.                                           *)
Repeats(containers, multiple, occurrences, length) ==
  LET starts == {v.start : v \in occurrences}
  IN  /\ Cardinality(occurrences) >= 2
      /\ IF multiple
         THEN \E u, v \in occurrences : containers[u.container].file # containers[v.container].file
         ELSE \/ \E u, v \in occurrences : u.container # v.container
              \/ Max(starts) - Min(starts) >= length

(* occurrencesByWindowKey, and the windows whose key repeats. *)
RepeatedWindows(containers, multiple) ==
  LET keyed == {[window |-> w, key |-> Shapes(WindowStatements(containers, w))] : w \in Windows(containers)}
      occurrences(key) == {x.window : x \in {y \in keyed : y.key = key}}
  IN  {x.window : x \in {y \in keyed :
         Repeats(containers, multiple, occurrences(y.key), y.window.length)}}

-----------------------------------------------------------------------------
(* The candidates handed to the selection: the blocks and full runs each   *)
(* file's addon call collects (collect_cross_file_file_data,               *)
(* collect_block_candidates of src/native/src/duplication.rs) and the      *)
(* windows that repeat (SequenceWindows).  A source index is the index of  *)
(* the token that starts there.                                            *)

(* toCandidate; pos is the candidate's place in the list. *)
Candidate(text, file, start, end, pos) ==
  [text |-> text, file |-> file, start |-> start, end |-> end, size |-> end - start, pos |-> pos]

Block(containers, k) ==
  LET c == containers[k]
  IN  Candidate(Fingerprint("b", c.statements), c.file, c.at, BlockEnd(c), 100 * c.file + k)

FullRun(containers, k) ==
  LET c == containers[k]
  IN  Candidate(Fingerprint("s", c.statements), c.file, RunStart(c), RunEnd(c), 100 * c.file + 50 + k)

(* The window one statement longer to the right, and to the left. *)
Extended(w) == {Window(w.container, w.start, w.length + 1),
                Window(w.container, w.start - 1, w.length + 1)}

Covers(v, w) ==
  v.container = w.container /\ v.start <= w.start /\ w.start + w.length <= v.start + v.length

(* The turn of the worklist that emits w: how many statements shorter it is *)
(* than the shortest window over it that no repeated one extends.           *)
TurnOf(repeats, w) ==
  Min({v.length - w.length : v \in {v \in repeats : Covers(v, w) /\ Extended(v) \cap repeats = {}}})

(* A turn goes through the containers, and through each from its start. *)
WindowCandidate(containers, repeats, w) ==
  LET c == containers[w.container]
      place == 1000 * w.container + 20 * w.start + w.length
  IN  Candidate(Fingerprint("s", WindowStatements(containers, w)), c.file,
                RunStart(c) + w.start - 1, RunStart(c) + w.start - 1 + w.length,
                100000 * (1 + TurnOf(repeats, w)) + place)

BigEnough(cs) == {c \in cs : c.size >= MinTokens}

Blocks(containers)   == BigEnough({Block(containers, k) : k \in DOMAIN containers})
FullRuns(containers) == BigEnough({FullRun(containers, k) : k \in DOMAIN containers})

(* collectWindowCandidates; without a second file there is nothing to match. *)
WindowCandidates(containers, multiple) ==
  LET repeats == RepeatedWindows(containers, multiple)
  IN  {WindowCandidate(containers, repeats, w) :
         w \in {v \in repeats : HasDistinctStatements(containers, v)}}

(* The candidates of the cross-file and of the within-file detector. *)
CrossFileCandidates(containers) ==
  Blocks(containers) \cup FullRuns(containers) \cup WindowCandidates(containers, TRUE)

WithinFileCandidates(containers) ==
  Blocks(containers) \cup WindowCandidates(containers, FALSE)
=============================================================================
