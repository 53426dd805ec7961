--------------------------- MODULE DirectoryWalk ----------------------------
(***************************************************************************)
(* The walk that finds a directory scan's candidates: scanDirectory,       *)
(* scanSymbolicLink, collectScannableFile and resolveWithinRoot of         *)
(* src/src/scan.ts.  The recursion is a stack of directories with the      *)
(* entries each has left; a path is the sequence of names it was reached   *)
(* by, below the scan root, so one directory can have many paths.          *)
(***************************************************************************)
EXTENDS Integers, Sequences, FiniteSets, SequencesExt

CONSTANTS
  Names,         \* entry names
  Skipped,       \* names of ignored and, unless asked for, test directories
  Dirs, Files,   \* the directories and regular files of the disk
  Sources,       \* the files getLanguage finds a language for
  Outside,       \* directories and files that are not below the scan root
  Root,          \* the scan root
  NoNode, NoPath,
  FileSystems,   \* the disks the walk may meet
  MaxFaults      \* operations that may fail for no lasting reason

Nodes == Dirs \cup Files

(***************************************************************************)
(* entries    : by directory, its entries in name order; the target of a   *)
(*              link is NoNode when it dangles; a link to neither a        *)
(*              directory nor a file counts as special                     *)
(* realPath   : by node, its canonical path                                *)
(* unreadable : directories readdir fails on                               *)
(***************************************************************************)
EntryKinds == {"directory", "file", "link", "special"}
Entry      == [name : Names, kind : EntryKinds, target : Nodes \cup {NoNode}]
FileSystemType ==
  [entries : [Dirs -> Seq(Entry)], realPath : [Nodes -> Seq(Names)], unreadable : SUBSET Dirs]

ASSUME WalkAssumption ==
  /\ Skipped \subseteq Names /\ Sources \subseteq Files /\ Outside \subseteq Nodes
  /\ Root \in Dirs \ Outside /\ NoNode \notin Nodes /\ MaxFaults \in Nat
  /\ FileSystems \subseteq FileSystemType
  /\ \A fs \in FileSystems : fs.realPath[Root] = <<>>

(* An entry that is no link is the child it names, of the kind it shows,   *)
(* and below a directory of the tree there is nothing but the tree.        *)
IsChild(disk, dir, e) ==
  /\ disk.realPath[e.target] = Append(disk.realPath[dir], e.name)
  /\ dir \notin Outside => e.target \notin Outside

IsDisk(disk) ==
  \A dir \in Dirs : \A i \in 1..Len(disk.entries[dir]) :
    LET e == disk.entries[dir][i]
    IN  /\ e.kind = "directory" => e.target \in Dirs /\ IsChild(disk, dir, e)
        /\ e.kind = "file" => e.target \in Files /\ IsChild(disk, dir, e)
        /\ e.kind = "special" => e.target = NoNode

ASSUME DiskAssumption ==
  /\ Dirs \cap Files = {} /\ NoPath \notin Seq(Names)
  /\ \A disk \in FileSystems : IsDisk(disk)

VARIABLES
  fs,          \* the disk; never changes
  pc,          \* before the walk, walking, or done
  stack,       \* the directories being enumerated, innermost last
  visited,     \* visitedDirectories
  candidates,  \* context.candidates, with the file each path reaches
  errors,      \* the paths recordError reported
  faults       \* transient failures so far

vars == <<fs, pc, stack, visited, candidates, errors, faults>>

Top      == stack[Len(stack)]
Current  == Head(Top.rest)
EntryPath == Append(Top.path, Current.name)
(* The stack once the current entry is dealt with. *)
Advanced == [stack EXCEPT ![Len(stack)].rest = Tail(@)]

(* Variant: links are followed wherever they lead. *)
WithinRootAlways(node) == TRUE

WithinRoot(node) == node \notin Outside
BaseName(node)   == IF fs.realPath[node] = <<>> THEN NoPath ELSE Last(fs.realPath[node])

(* An operation of the file system fails: the scan records it and goes on. *)
Transient ==
  /\ faults < MaxFaults
  /\ faults' = faults + 1

RecordError(path) == errors' = Append(errors, path)

-----------------------------------------------------------------------------
Init ==
  /\ fs \in FileSystems
  /\ pc = "start"
  /\ stack = <<>>
  /\ visited = {}
  /\ candidates = <<>>
  /\ errors = <<>>
  /\ faults = 0

(* scanDirectory(path) up to its loop, over the frames below it. *)
ScanDirectory(path, dir, frames) ==
  \/ /\ Transient                                 \* realpath fails
     /\ RecordError(path)
     /\ stack' = frames
     /\ UNCHANGED visited
  \/ /\ ~WithinRoot(dir) \/ dir \in visited
     /\ stack' = frames
     /\ UNCHANGED <<visited, errors, faults>>
  \/ /\ WithinRoot(dir)
     /\ dir \notin visited
     /\ visited' = visited \cup {dir}
     /\ \/ /\ \/ dir \in fs.unreadable /\ UNCHANGED faults
              \/ Transient                        \* readdir fails
           /\ RecordError(path)
           /\ stack' = frames
        \/ /\ dir \notin fs.unreadable
           /\ stack' = Append(frames, [path |-> path, dir |-> dir, rest |-> fs.entries[dir]])
           /\ UNCHANGED <<errors, faults>>

StartWalk ==
  /\ pc = "start"
  /\ pc' = "walking"
  /\ ScanDirectory(<<>>, Root, <<>>)
  /\ UNCHANGED <<fs, candidates>>

(* collectScannableFile *)
Collect(file, realFile) ==
  candidates' =
    IF file \in Sources
      THEN Append(candidates, [path |-> EntryPath, file |-> file, realFile |-> realFile])
      ELSE candidates

Walking(entryKind) ==
  /\ pc = "walking"
  /\ stack # <<>>
  /\ Top.rest # <<>>
  /\ Current.kind = entryKind

VisitDirectory ==
  /\ Walking("directory")
  /\ IF Current.name \in Skipped
       THEN stack' = Advanced /\ UNCHANGED <<visited, errors, faults>>
       ELSE ScanDirectory(EntryPath, Current.target, Advanced)
  /\ UNCHANGED <<fs, pc, candidates>>

(* Under a linked directory the real path differs from the path. *)
RealFileHere ==
  IF fs.realPath[Top.dir] = Top.path THEN NoPath
  ELSE Append(fs.realPath[Top.dir], Current.name)

VisitFile ==
  /\ Walking("file")
  /\ Collect(Current.target, RealFileHere)
  /\ stack' = Advanced
  /\ UNCHANGED <<fs, pc, visited, errors, faults>>

(* Variant: opening a FIFO blocks the walk. *)
VisitSpecialBlocked == FALSE /\ UNCHANGED vars

VisitSpecial ==
  /\ Walking("special")
  /\ stack' = Advanced
  /\ UNCHANGED <<fs, pc, visited, candidates, errors, faults>>

(* scanSymbolicLink *)
LinkFails ==
  /\ Walking("link")
  /\ \/ Current.target = NoNode /\ UNCHANGED faults     \* realpath fails
     \/ Transient                                       \* so does stat
  /\ RecordError(EntryPath)
  /\ stack' = Advanced
  /\ UNCHANGED <<fs, pc, visited, candidates>>

LinkEscapes ==
  /\ Walking("link")
  /\ Current.target # NoNode
  /\ ~WithinRoot(Current.target)
  /\ stack' = Advanced
  /\ UNCHANGED <<fs, pc, visited, candidates, errors, faults>>

(* Variant: only the name of the link is looked at. *)
SkippedLinkByName == Current.name \in Skipped

SkippedLink == Current.name \in Skipped \/ BaseName(Current.target) \in Skipped

LinkToDirectory ==
  /\ Walking("link")
  /\ Current.target \in Dirs
  /\ WithinRoot(Current.target)
  /\ IF SkippedLink
       THEN stack' = Advanced /\ UNCHANGED <<visited, errors, faults>>
       ELSE ScanDirectory(EntryPath, Current.target, Advanced)
  /\ UNCHANGED <<fs, pc, candidates>>

LinkToFile ==
  /\ Walking("link")
  /\ Current.target \in Files
  /\ WithinRoot(Current.target)
  /\ Collect(Current.target, fs.realPath[Current.target])
  /\ stack' = Advanced
  /\ UNCHANGED <<fs, pc, visited, errors, faults>>

LeaveDirectory ==
  /\ pc = "walking"
  /\ stack # <<>>
  /\ Top.rest = <<>>
  /\ stack' = Front(stack)
  /\ UNCHANGED <<fs, pc, visited, candidates, errors, faults>>

EndWalk ==
  /\ pc = "walking"
  /\ stack = <<>>
  /\ pc' = "done"
  /\ UNCHANGED <<fs, stack, visited, candidates, errors, faults>>

Next ==
  \/ StartWalk
  \/ VisitDirectory
  \/ VisitFile
  \/ VisitSpecial
  \/ LinkFails
  \/ LinkEscapes
  \/ LinkToDirectory
  \/ LinkToFile
  \/ LeaveDirectory
  \/ EndWalk

(* Every file system operation answers. *)
Spec == Init /\ [][Next]_vars /\ WF_vars(Next)

-----------------------------------------------------------------------------
(* The real path a candidate is grouped, excluded and measured by, the one *)
(* the walk derived or, without one, the path itself, is the canonical     *)
(* path of the file: a wrong one would exclude by the wrong rules or       *)
(* measure the file twice.                                                 *)
RealFileOf(c) == IF c.realFile = NoPath THEN c.path ELSE c.realFile

RealFilesAreReal ==
  \A i \in 1..Len(candidates) :
    RealFileOf(candidates[i]) = fs.realPath[candidates[i].file]

(* Nothing outside the root is enumerated or measured, whatever links to   *)
(* it, and no directory entered under a skipped name.                      *)
StaysInside ==
  /\ visited \cap Outside = {}
  /\ \A i \in 1..Len(candidates) :
       /\ candidates[i].file \notin Outside
       /\ \A k \in 1..(Len(candidates[i].path) - 1) : candidates[i].path[k] \notin Skipped

(* Whatever a link says, a candidate is a file of the tree and known by    *)
(* its one real path.                                                      *)
CandidatesAreSound == StaysInside /\ RealFilesAreReal

(* The directories entries of `dir` lead to. *)
Follows(dir, child) ==
  /\ dir \notin fs.unreadable
  /\ WithinRoot(child)
  /\ \E i \in 1..Len(fs.entries[dir]) :
       LET e == fs.entries[dir][i]
       IN  /\ e.target = child
           /\ e.name \notin Skipped
           /\ e.kind = "link" => BaseName(child) \notin Skipped

ClosedUnderFollows(S) ==
  Root \in S /\ \A dir \in S : \A child \in Dirs : Follows(dir, child) => child \in S

(* A walk that recorded no transient failure enumerated exactly the        *)
(* directories reachable from the root, each once, in whatever order the   *)
(* names of the links put them, and collected every source in them.        *)
WalkIsComplete ==
  pc = "done" /\ faults = 0 =>
    /\ ClosedUnderFollows(visited)
    /\ \A S \in SUBSET Dirs : ClosedUnderFollows(S) => visited \subseteq S
    /\ \A dir \in visited \ fs.unreadable : \A i \in 1..Len(fs.entries[dir]) :
         LET e == fs.entries[dir][i]
         IN  e.target \in Sources /\ WithinRoot(e.target) =>
               \E k \in 1..Len(candidates) : candidates[k].file = e.target

(* Links may form cycles; the walk ends all the same. *)
WalkEnds == <>(pc = "done")
=============================================================================
