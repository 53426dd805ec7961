----------------------------- MODULE WalkedScan -----------------------------
(***************************************************************************)
(* The walk (DirectoryWalk) followed by the choice measureCandidates makes *)
(* among the paths it found (ScanWorld), under the exclusions the config   *)
(* file and the git attributes put on single paths.                        *)
(***************************************************************************)
EXTENDS DirectoryWalk

CONSTANTS WalkPaths,    \* the paths a walk can collect or resolve to
          AliasRules    \* pairs of excluded and generated-judged paths

VARIABLE exclusion   \* the exclusion loaded after the walk

Chooser == INSTANCE ScanWorld WITH Paths <- WalkPaths

walkedVars == <<vars, exclusion>>

(* The measuring scan's input, as measureCandidates receives it. *)
RealOf(path) ==
  LET i == CHOOSE k \in 1..Len(candidates) : candidates[k].path = path
  IN  IF \E k \in 1..Len(candidates) : candidates[k].path = path
        THEN RealFileOf(candidates[i])
        ELSE NoPath

CollectedWorld ==
  [mode |-> "directory",
   candidates |-> [i \in 1..Len(candidates) |-> candidates[i].path],
   realOf |-> [p \in WalkPaths |-> RealOf(p)],
   exclusion |-> "loaded", excluded |-> exclusion.excluded,
   generated |-> exclusion.generated,
   fate |-> [p \in WalkPaths |-> "measured"], addon |-> TRUE]

WalkedInit == Init /\ exclusion \in AliasRules
WalkedNext == Next /\ UNCHANGED exclusion
WalkedSpec == WalkedInit /\ [][WalkedNext]_walkedVars

-----------------------------------------------------------------------------
(* The walk reaches the file by its own path: no directory on it is        *)
(* skipped or unreadable.                                                  *)
ReachedDirectly(file) ==
  LET path == fs.realPath[file]
  IN  \A dir \in Dirs : IsPrefix(fs.realPath[dir], path) =>
        dir \notin fs.unreadable /\ (dir # Root => BaseName(dir) \notin Skipped)

(* scan.ts:230, "Every path reaching the same real file [...] so one alias *)
(* cannot decide alone": a source the walk can reach by its own path, with *)
(* no rule against that path, is measured, whatever the rules say of the   *)
(* links that lead to it.                                                  *)
OneAliasCannotDecideAlone ==
  pc = "done" /\ faults = 0 =>
    \A file \in Sources :
      LET real   == fs.realPath[file]
          chosen == Chooser!ChooseMeasuredPath(CollectedWorld, real)
      IN  /\ WithinRoot(file)
          /\ ReachedDirectly(file)
          /\ real \notin exclusion.excluded \cup exclusion.generated
          => /\ chosen # NoPath
             /\ ~Chooser!JudgedGenerated(CollectedWorld, chosen, real)
=============================================================================
