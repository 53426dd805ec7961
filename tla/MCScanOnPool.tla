---------------------------- MODULE MCScanOnPool ----------------------------
(***************************************************************************)
(* Three files on a pool of two threads, any of which the OS may refuse:   *)
(* one file measures, one panics in the addon, one is rejected by it.      *)
(***************************************************************************)
EXTENDS ScanOnPool, TLC

CONSTANTS good, panics, rejected

MCWorlds ==
  {[mode |-> "directory", candidates |-> <<good, panics, rejected>>,
    realOf |-> [p \in Paths |-> p], exclusion |-> "loaded", excluded |-> excluded,
    generated |-> generated,
    fate |-> good :> "measured" @@ panics :> "partial" @@ rejected :> fate, addon |-> addon] :
     excluded \in {{}, {panics}}, generated \in {{}, {good}},
     fate \in {"failing", "unreadable"}, addon \in BOOLEAN}
=============================================================================
