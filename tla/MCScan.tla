------------------------------- MODULE MCScan -------------------------------
(***************************************************************************)
(* Scans of distinct files: every mix of readable, broken and unmeasurable *)
(* ones, with and without an addon, one of them perhaps gone by the time   *)
(* it is resolved; scans of one real file, "a", listed under its own path, *)
(* under two links to it or any mix of them in any order, with every       *)
(* assignment of exclusions and generated-code judgements to the three     *)
(* paths; and the scan of a single-file target.                            *)
(***************************************************************************)
EXTENDS Scan

CONSTANTS a, b, c, gone

ListedFiles == {<<a, b, c>>, <<a, gone, b, c>>, <<gone>>}
ListedAliases == UNION {SetToSeqs(S) : S \in (SUBSET {a, b, c}) \ {{}}}

OwnPaths == [p \in Paths |-> IF p = gone THEN NoPath ELSE p]
AllToA   == [p \in Paths |-> IF p = gone THEN NoPath ELSE a]

DistinctFiles ==
  {[mode |-> "directory", candidates |-> files, realOf |-> OwnPaths,
    exclusion |-> "loaded", excluded |-> {}, generated |-> generated,
    fate |-> fate @@ (gone :> "unreadable"), addon |-> addon] :
     files \in ListedFiles, generated \in {{}, {b}},
     fate \in [{a, b, c} -> Fates], addon \in BOOLEAN}

AliasedFile(mode, files, exclusion, excluded, generated, fate, addon) ==
  [mode |-> mode, candidates |-> files, realOf |-> AllToA, exclusion |-> exclusion,
   excluded |-> excluded, generated |-> generated,
   fate |-> [p \in Paths |-> fate], addon |-> addon]

Aliased ==
  {AliasedFile("directory", files, "loaded", excluded, generated, fate, TRUE) :
     files \in ListedAliases, excluded \in SUBSET {a, b, c}, generated \in SUBSET {a, b, c},
     fate \in {"measured", "unreadable"}}

WithoutExclusion ==
  {AliasedFile("directory", files, exclusion, {a}, {b}, "measured", TRUE) :
     files \in ListedAliases, exclusion \in {"absent", "broken"}}

SingleFile ==
  {AliasedFile("single-file", <<a>>, "absent", {}, generated, fate, addon) :
     generated \in {{}, {a}}, fate \in Fates, addon \in BOOLEAN}

MCWorlds == DistinctFiles \cup Aliased \cup WithoutExclusion \cup SingleFile
=============================================================================
