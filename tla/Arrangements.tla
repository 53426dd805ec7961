---------------------------- MODULE Arrangements ----------------------------
(***************************************************************************)
(* Finite sets as sequences in a given order.  SetToSortSeq of             *)
(* SequencesExt is the same, but searches all arrangements.                *)
(***************************************************************************)
EXTENDS Integers, FiniteSets

(* before is a strict total order on S. *)
Arranged(S, before(_, _)) ==
  [k \in 1..Cardinality(S) |-> CHOOSE x \in S : Cardinality({y \in S : before(y, x)}) = k - 1]

Ascending(S) == Arranged(S, <)
=============================================================================
