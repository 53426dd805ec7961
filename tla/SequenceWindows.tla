--------------------------- MODULE SequenceWindows ---------------------------
(***************************************************************************)
(* collectSequenceWindowCandidates of src/src/duplication.ts and its port  *)
(* in src/native/src/duplication.rs: which runs of sibling statements      *)
(* become candidates.  It starts from the windows whose extensions do not  *)
(* repeat, and every emitted window exposes its two largest sub-windows.   *)
(***************************************************************************)
EXTENDS Statements

CONSTANT Texts   \* the token streams, with requireMultipleContexts

(* A statement by the hash of its fingerprint and of its identifier, and a  *)
(* container with its file and first token.                                *)
Statement == [shape : Nat, name : Nat]
Container == [file : Nat, at : Nat, statements : Seq(Statement)]

ASSUME TextsAssumption ==
  /\ MinTokens \in Nat /\ MaxWindow \in Nat
  /\ \A t \in Texts : t \in [containers : Seq(Container), multiple : BOOLEAN]

VARIABLES
  text,      \* containers and requireMultipleContexts; never changes
  repeated,  \* the windows that occur more than once
  frontier,  \* frontier
  visited,   \* visited
  emitted    \* the candidates

windowVars == <<text, repeated, frontier, visited, emitted>>

Qualifies(w) == w \in repeated /\ HasDistinctStatements(text.containers, w)

(* A larger candidate covers w. *)
Dominated(w) == Extended(w) \cap repeated # {}

(* Variant: the sub-window without the first statement is forgotten. *)
SubWindowsLeft(w) == {Window(w.container, w.start, w.length - 1)}

SubWindows(w) == {Window(w.container, w.start, w.length - 1),
                  Window(w.container, w.start + 1, w.length - 1)}

WindowInit ==
  /\ text \in Texts
  /\ repeated = RepeatedWindows(text.containers, text.multiple)
  /\ frontier = {w \in repeated : Qualifies(w) /\ ~Dominated(w)}
  /\ visited = frontier
  /\ emitted = {}

(* One turn of the worklist. *)
EmitFrontier ==
  /\ frontier # {}
  /\ emitted' = emitted \cup frontier
  /\ frontier' = {v \in UNION {SubWindows(w) : w \in frontier} : v \notin visited /\ Qualifies(v)}
  /\ visited' = visited \cup frontier'
  /\ UNCHANGED <<text, repeated>>

WindowNext == EmitFrontier
WindowSpec == WindowInit /\ [][WindowNext]_windowVars

-----------------------------------------------------------------------------
(* Two occurrences of equal statements that can both be reported: in two    *)
(* files where asked, otherwise without overlapping.                       *)
Coexist(u, v) ==
  /\ Shapes(WindowStatements(text.containers, u)) = Shapes(WindowStatements(text.containers, v))
  /\ IF text.multiple
     THEN text.containers[u.container].file # text.containers[v.container].file
     ELSE u.container # v.container \/ u.start + u.length <= v.start

(* However the worklist is seeded and pruned, in the end it emitted every   *)
(* window of a text that occurs twice in a way that both occurrences can    *)
(* be reported, unless its statements all have one shape, and no other      *)
(* window: neither the extension of some copies nor the pruning of visited  *)
(* windows hides what other copies share.                                  *)
EmitsTheRepeatedWindows ==
  frontier = {} =>
    emitted = {w \in Windows(text.containers) :
                 /\ HasDistinctStatements(text.containers, w)
                 /\ \E u, v \in Windows(text.containers) :
                      /\ Coexist(u, v)
                      /\ Shapes(WindowStatements(text.containers, u)) =
                           Shapes(WindowStatements(text.containers, w))}

(* No window becomes a candidate again in a later turn, although a long and *)
(* a short window may both lead to it, in different turns: its group would  *)
(* count a copy it does not have.                                          *)
EmittedOnce == frontier \cap emitted = {}
=============================================================================
