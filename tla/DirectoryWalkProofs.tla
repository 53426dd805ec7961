------------------------ MODULE DirectoryWalkProofs -------------------------
(***************************************************************************)
(* Proofs about the walk, for every disk, with its links and its failures: *)
(* what it collects is inside the root and known by its real path, and a   *)
(* walk nothing failed in has missed no directory and no source.           *)
(***************************************************************************)
EXTENDS DirectoryWalk, SequenceTheorems, TLAPS

Frame     == [path : Seq(Names), dir : Dirs, rest : Seq(Entry)]
Candidate == [path : Seq(Names), file : Files, realFile : Seq(Names) \cup {NoPath}]

TypeOK ==
  /\ fs \in FileSystems
  /\ pc \in {"start", "walking", "done"}
  /\ stack \in Seq(Frame)
  /\ visited \in SUBSET Dirs
  /\ candidates \in Seq(Candidate)
  /\ faults \in Nat

(* Before and after the walk no directory is open, and the root is entered *)
(* unless its own canonicalisation failed.                                 *)
PhasesAreRight ==
  /\ pc \in {"start", "done"} => stack = <<>>
  /\ pc = "start" => visited = {} /\ candidates = <<>>
  /\ pc # "start" /\ faults = 0 => Root \in visited

(* The entries of `dir` a frame has left are the last ones. *)
IsRestOf(rest, dir) ==
  /\ Len(rest) <= Len(fs.entries[dir])
  /\ \A j \in 1..Len(rest) : rest[j] = fs.entries[dir][Len(fs.entries[dir]) - Len(rest) + j]

(* An open directory was entered, could be read, and was reached by no     *)
(* skipped name.                                                           *)
FrameIsSound(frame) ==
  /\ frame.dir \in visited
  /\ frame.dir \notin fs.unreadable
  /\ \A k \in 1..Len(frame.path) : frame.path[k] \notin Skipped
  /\ IsRestOf(frame.rest, frame.dir)

FramesAreSound == \A i \in 1..Len(stack) : FrameIsSound(stack[i])

(* Every set the walk has to stay in holds what it has visited. *)
VisitedIsReachable ==
  \A S \in SUBSET Dirs : ClosedUnderFollows(S) => visited \subseteq S

(* The entry `e` leads to the directory `child`. *)
Leads(e, child) ==
  /\ WithinRoot(child)
  /\ e.target = child
  /\ e.name \notin Skipped
  /\ e.kind = "link" => BaseName(child) \notin Skipped

(* What an entry leads to is visited or collected. *)
IsCollected(file) == \E k \in 1..Len(candidates) : candidates[k].file = file

Dealt(e) ==
  /\ \A child \in Dirs : Leads(e, child) => child \in visited
  /\ e.target \in Sources /\ WithinRoot(e.target) => IsCollected(e.target)

(* The `j`-th entry of `dir` is still to come in a frame. *)
Pending(dir, j) ==
  \E i \in 1..Len(stack) :
    stack[i].dir = dir /\ j > Len(fs.entries[dir]) - Len(stack[i].rest)

NothingIsForgotten ==
  faults = 0 =>
    \A dir \in visited \ fs.unreadable : \A j \in 1..Len(fs.entries[dir]) :
      Dealt(fs.entries[dir][j]) \/ Pending(dir, j)

WalkInv ==
  /\ TypeOK
  /\ PhasesAreRight
  /\ FramesAreSound
  /\ VisitedIsReachable
  /\ NothingIsForgotten
  /\ StaysInside
  /\ RealFilesAreReal

-----------------------------------------------------------------------------
(* The disk in the state is a disk.                                        *)
LEMMA DiskInState ==
  ASSUME TypeOK
  PROVE  /\ fs.entries \in [Dirs -> Seq(Entry)] /\ fs.realPath \in [Nodes -> Seq(Names)]
         /\ fs.unreadable \in SUBSET Dirs
         /\ fs.realPath[Root] = <<>>
         /\ IsDisk(fs)
  BY WalkAssumption, DiskAssumption DEF TypeOK, FileSystemType

LEMMA InitWalkInv == Init => WalkInv
<1> SUFFICES ASSUME Init PROVE WalkInv
  OBVIOUS
<1>1. TypeOK
  BY DEF Init, TypeOK
<1> QED
  BY <1>1 DEF Init, WalkInv, PhasesAreRight, FramesAreSound, VisitedIsReachable,
     NothingIsForgotten, StaysInside, RealFilesAreReal

(* A frame with fewer entries left, and how far a frame has come.          *)
LEMMA FrameWithRest ==
  ASSUME NEW frame \in Frame, NEW rest \in Seq(Entry)
  PROVE  /\ [frame EXCEPT !.rest = rest] =
              [path |-> frame.path, dir |-> frame.dir, rest |-> rest]
         /\ [path |-> frame.path, dir |-> frame.dir, rest |-> rest] \in Frame
BY DEF Frame

LEMMA TailOfRest ==
  ASSUME NEW S, NEW rest \in Seq(S), rest # <<>>, NEW n \in Nat
  PROVE  /\ Head(rest) = rest[1] /\ Head(rest) \in S
         /\ Tail(rest) \in Seq(S) /\ Len(rest) \in Nat \ {0}
         /\ Len(Tail(rest)) \in Nat /\ Len(Tail(rest)) = Len(rest) - 1
         /\ \A j \in 1..Len(Tail(rest)) :
              /\ Tail(rest)[j] = rest[j + 1] /\ j + 1 \in 1..Len(rest)
              /\ n - Len(rest) + (j + 1) = n - Len(Tail(rest)) + j
<1>1. /\ Head(rest) = rest[1] /\ Head(rest) \in S
      /\ Tail(rest) \in Seq(S) /\ Len(rest) \in Nat \ {0}
  OBVIOUS
<1>2. Len(Tail(rest)) \in Nat /\ Len(Tail(rest)) = Len(rest) - 1
  BY <1>1
<1>3. ASSUME NEW j \in 1..Len(Tail(rest))
      PROVE  /\ Tail(rest)[j] = rest[j + 1] /\ j + 1 \in 1..Len(rest)
             /\ n - Len(rest) + (j + 1) = n - Len(Tail(rest)) + j
  BY <1>1, <1>2
<1> QED  BY <1>1, <1>2, <1>3

(* The stack once an entry is dealt with. *)
LEMMA AdvancedStack ==
  ASSUME TypeOK, stack # <<>>, Top.rest # <<>>
  PROVE  /\ Top \in Frame /\ Current \in Entry /\ EntryPath \in Seq(Names)
         /\ Top.rest \in Seq(Entry) /\ Top.path \in Seq(Names) /\ Top.dir \in Dirs
         /\ Advanced \in Seq(Frame) /\ Len(Advanced) = Len(stack) /\ Len(stack) \in Nat \ {0}
         /\ \A i \in 1..Len(stack) : i # Len(stack) => Advanced[i] = stack[i]
         /\ Advanced[Len(stack)].path = Top.path
         /\ Advanced[Len(stack)].dir = Top.dir
         /\ Advanced[Len(stack)].rest = Tail(Top.rest)
<1>1. Len(stack) \in Nat \ {0} /\ Top \in Frame
  BY DEF TypeOK, Top
<1>2. Top.rest \in Seq(Entry) /\ Top.path \in Seq(Names) /\ Top.dir \in Dirs
  BY <1>1 DEF Frame
<1>3. Current \in Entry /\ Tail(Top.rest) \in Seq(Entry)
  BY <1>2, TailOfRest DEF Current
<1>4. EntryPath \in Seq(Names)
  BY <1>2, <1>3 DEF EntryPath, Entry
<1> DEFINE frame == [path |-> Top.path, dir |-> Top.dir, rest |-> Tail(Top.rest)]
<1>5. [Top EXCEPT !.rest = Tail(Top.rest)] = frame /\ frame \in Frame
  BY <1>1, <1>3, FrameWithRest
<1>6. Advanced = [stack EXCEPT ![Len(stack)] = frame]
  BY <1>5 DEF Advanced, Top
<1> HIDE DEF frame
<1>7. /\ Advanced \in Seq(Frame) /\ Len(Advanced) = Len(stack)
      /\ \A i \in 1..Len(stack) : Advanced[i] = IF i = Len(stack) THEN frame ELSE stack[i]
  BY <1>1, <1>5, <1>6 DEF TypeOK
<1>8. frame.path = Top.path /\ frame.dir = Top.dir /\ frame.rest = Tail(Top.rest)
  BY DEF frame
<1> QED
  BY <1>1, <1>2, <1>3, <1>4, <1>7, <1>8

(* The entry at hand is the first one its directory has left. *)
Reached == Len(fs.entries[Top.dir]) - Len(Top.rest) + 1

LEMMA CurrentEntry ==
  ASSUME TypeOK, FramesAreSound, stack # <<>>, Top.rest # <<>>
  PROVE  /\ Top.dir \in visited /\ Top.dir \notin fs.unreadable
         /\ Reached \in 1..Len(fs.entries[Top.dir])
         /\ fs.entries[Top.dir][Reached] = Current
         /\ IsRestOf(Tail(Top.rest), Top.dir)
         /\ \A k \in 1..Len(Top.path) : Top.path[k] \notin Skipped
<1>1. FrameIsSound(Top)
  BY AdvancedStack DEF FramesAreSound, Top
<1> DEFINE all == fs.entries[Top.dir]  rest == Top.rest
<1>2. rest \in Seq(Entry) /\ rest # <<>> /\ all \in Seq(Entry) /\ Len(all) \in Nat
  BY AdvancedStack, DiskInState
<1>3. Len(rest) <= Len(all) /\ \A j \in 1..Len(rest) : rest[j] = all[Len(all) - Len(rest) + j]
  BY <1>1 DEF FrameIsSound, IsRestOf
<1>4. Current = Head(rest) /\ Reached = Len(all) - Len(rest) + 1
  BY DEF Current, Reached
<1>5. IsRestOf(Tail(rest), Top.dir) <=>
        /\ Len(Tail(rest)) <= Len(all)
        /\ \A j \in 1..Len(Tail(rest)) : Tail(rest)[j] = all[Len(all) - Len(Tail(rest)) + j]
  BY DEF IsRestOf
<1> HIDE DEF all, rest
<1>6. Reached \in 1..Len(all) /\ all[Reached] = Current
  BY <1>2, <1>3, <1>4, TailOfRest
<1>7. IsRestOf(Tail(rest), Top.dir)
  <2>1. \A j \in 1..Len(Tail(rest)) : Tail(rest)[j] = all[Len(all) - Len(Tail(rest)) + j]
    BY <1>2, <1>3, TailOfRest
  <2>2. Len(Tail(rest)) <= Len(all)
    BY <1>2, <1>3, TailOfRest
  <2> QED  BY <1>5, <2>1, <2>2
<1> QED
  BY <1>1, <1>6, <1>7 DEF FrameIsSound, all, rest

-----------------------------------------------------------------------------
(* A step that deals with the current entry, whatever it visits, collects  *)
(* or opens for it.                                                        *)
DealsWith(e) ==
  /\ stack # <<>> /\ Top.rest # <<>> /\ e = Current
  /\ UNCHANGED fs
  /\ visited \subseteq visited'
  /\ faults' = 0 => faults = 0 /\ Dealt(e)'
  /\ \A file \in Files : IsCollected(file) => IsCollected(file)'
  /\ Len(stack) <= Len(stack')
  /\ \A i \in 1..Len(stack) : stack'[i] = Advanced[i]
  /\ \A i \in 1..Len(stack)' : i > Len(stack) => FrameIsSound(stack[i])'
  /\ \A dir \in visited' \ visited :
       \/ dir \in fs.unreadable
       \/ faults' # 0
       \/ \E i \in 1..Len(stack)' : stack'[i].dir = dir /\ stack'[i].rest = fs.entries[dir]

LEMMA FramesStaySound ==
  ASSUME TypeOK, TypeOK', FramesAreSound, NEW e, DealsWith(e)
  PROVE  FramesAreSound'
<1> SUFFICES ASSUME NEW i \in 1..Len(stack)' PROVE FrameIsSound(stack[i])'
  BY DEF FramesAreSound
<1> USE DEF DealsWith
<1>1. Len(stack) \in Nat /\ Len(stack)' \in Nat
  BY DEF TypeOK
<1>2. CASE i > Len(stack)
  BY <1>2
<1>3. CASE i < Len(stack)
  <2>1. stack'[i] = stack[i] /\ FrameIsSound(stack[i])
    BY <1>1, <1>3, AdvancedStack DEF FramesAreSound
  <2> QED  BY <2>1 DEF FrameIsSound, IsRestOf
<1>4. CASE i = Len(stack)
  <2>1. stack'[i] = Advanced[i]
    BY <1>1, <1>4
  <2>2. stack'[i].path = Top.path /\ stack'[i].dir = Top.dir /\ stack'[i].rest = Tail(Top.rest)
    BY <1>4, <2>1, AdvancedStack
  <2> QED  BY <2>2, CurrentEntry DEF FrameIsSound, IsRestOf
<1> QED  BY <1>1, <1>2, <1>3, <1>4

LEMMA DealtStaysDealt ==
  ASSUME NEW e, NEW f, DealsWith(f), Dealt(e)
  PROVE  Dealt(e)'
BY WalkAssumption DEF DealsWith, Dealt, Leads, BaseName

LEMMA NothingGetsForgotten ==
  ASSUME TypeOK, TypeOK', FramesAreSound, NothingIsForgotten, NEW e, DealsWith(e)
  PROVE  NothingIsForgotten'
<1> SUFFICES ASSUME faults' = 0, NEW dir \in visited' \ fs.unreadable,
                    NEW j \in 1..Len(fs.entries[dir])
             PROVE  Dealt(fs.entries[dir][j])' \/ Pending(dir, j)'
  BY DEF NothingIsForgotten, DealsWith
<1>1. Len(stack) \in Nat /\ Len(stack') \in Nat
  BY DEF TypeOK
<1>2. fs' = fs /\ faults = 0 /\ Dealt(e)'
  BY DEF DealsWith
<1>3. dir \in Dirs /\ fs.entries[dir] \in Seq(Entry) /\ Len(fs.entries[dir]) \in Nat
  BY DiskInState DEF TypeOK
<1>4. CASE dir \notin visited
  <2>1. PICK i \in 1..Len(stack') : stack'[i].dir = dir /\ stack'[i].rest = fs.entries[dir]
    BY <1>4 DEF DealsWith
  <2>2. j > Len(fs.entries[dir]) - Len(stack'[i].rest)
    BY <1>3, <2>1
  <2> QED  BY <1>2, <2>1, <2>2 DEF Pending
<1>5. CASE dir \in visited
  <2>1. CASE Dealt(fs.entries[dir][j])
    BY <1>2, <2>1, DealtStaysDealt
  <2>2. CASE Pending(dir, j)
    <3>1. PICK i \in 1..Len(stack) :
            stack[i].dir = dir /\ j > Len(fs.entries[dir]) - Len(stack[i].rest)
      BY <2>2 DEF Pending
    <3>2. i \in 1..Len(stack') /\ stack'[i] = Advanced[i]
      BY <1>1 DEF DealsWith
    <3>3. CASE i # Len(stack)
      BY <1>2, <3>1, <3>2, <3>3, AdvancedStack DEF Pending, DealsWith
    <3>4. CASE i = Len(stack)
      <4>1. Top.dir = dir /\ j > Len(fs.entries[dir]) - Len(Top.rest)
        BY <3>1, <3>4 DEF Top
      <4>2. stack'[i].dir = dir /\ stack'[i].rest = Tail(Top.rest)
        BY <3>2, <3>4, <4>1, AdvancedStack DEF DealsWith
      <4>3. CASE j = Reached
        BY <1>2, <4>1, <4>3, CurrentEntry DEF DealsWith
      <4>4. CASE j # Reached
        <5> DEFINE rest == Top.rest  n == Len(fs.entries[dir])
        <5>1. rest \in Seq(Entry) /\ rest # <<>> /\ n \in Nat
          BY <1>3, AdvancedStack DEF DealsWith
        <5>2. j \in 1..n /\ j > n - Len(rest) /\ j # n - Len(rest) + 1
          BY <4>1, <4>4 DEF Reached
        <5> HIDE DEF rest, n
        <5>3. j > n - Len(Tail(rest))
          BY <5>1, <5>2, TailOfRest
        <5> QED  BY <1>2, <3>2, <4>2, <5>3 DEF Pending, rest, n
      <4> QED  BY <4>3, <4>4
    <3> QED  BY <3>3, <3>4
  <2> QED  BY <1>2, <1>5, <2>1, <2>2 DEF NothingIsForgotten
<1> QED  BY <1>4, <1>5

-----------------------------------------------------------------------------
(* The cases of scanDirectory. *)
LEMMA ScanDirectoryCases ==
  ASSUME NEW path, NEW dir, NEW frames, faults \in Nat, ScanDirectory(path, dir, frames)
  PROVE  /\ faults' \in Nat /\ (faults' = 0 => faults = 0)
         /\ \/ /\ stack' = frames /\ visited' = visited
               /\ faults' = 0 => ~WithinRoot(dir) \/ dir \in visited
            \/ /\ WithinRoot(dir) /\ visited' = visited \cup {dir}
               /\ stack' = frames
               /\ faults' = 0 => dir \in fs.unreadable
            \/ /\ WithinRoot(dir) /\ visited' = visited \cup {dir}
               /\ stack' = Append(frames, [path |-> path, dir |-> dir, rest |-> fs.entries[dir]])
               /\ dir \notin fs.unreadable
BY WalkAssumption DEF ScanDirectory, Transient

(* A directory an entry of an open directory leads to is reachable. *)
LEMMA LeadsIsFollows ==
  ASSUME TypeOK, FramesAreSound, VisitedIsReachable, stack # <<>>, Top.rest # <<>>,
         NEW child \in Dirs, Leads(Current, child), NEW S \in SUBSET Dirs, ClosedUnderFollows(S)
  PROVE  child \in S
<1>1. Follows(Top.dir, child)
  BY CurrentEntry DEF Follows, Leads
<1>2. Top.dir \in S
  BY CurrentEntry DEF VisitedIsReachable
<1> QED  BY <1>1, <1>2 DEF ClosedUnderFollows

(* The current entry is a child, if it is a directory or a file. *)
LEMMA CurrentIsChild ==
  ASSUME TypeOK, FramesAreSound, stack # <<>>, Top.rest # <<>>
  PROVE  /\ Current.kind = "directory" => Current.target \in Dirs /\ IsChild(fs, Top.dir, Current)
         /\ Current.kind = "file" => Current.target \in Files /\ IsChild(fs, Top.dir, Current)
         /\ Current.kind = "special" => Current.target = NoNode
         /\ Top.dir \in Dirs
<1>1. Top.dir \in Dirs /\ Reached \in 1..Len(fs.entries[Top.dir])
  BY AdvancedStack, CurrentEntry
<1>2. fs.entries[Top.dir][Reached] = Current
  BY CurrentEntry
<1> QED  BY <1>1, <1>2, DiskInState DEF IsDisk

LEMMA ScanKeepsWalkInv ==
  ASSUME WalkInv, pc = "walking", stack # <<>>, Top.rest # <<>>,
         Current.target \in Dirs, Current.name \notin Skipped,
         Current.kind = "link" => BaseName(Current.target) \notin Skipped,
         ScanDirectory(EntryPath, Current.target, Advanced),
         UNCHANGED <<fs, pc, candidates>>
  PROVE  WalkInv'
<1> USE DEF WalkInv
<1> DEFINE dir == Current.target
           frame == [path |-> EntryPath, dir |-> dir, rest |-> fs.entries[dir]]
<1>1. /\ faults \in Nat /\ faults' \in Nat /\ (faults' = 0 => faults = 0)
      /\ \/ /\ stack' = Advanced /\ visited' = visited
            /\ faults' = 0 => ~WithinRoot(dir) \/ dir \in visited
         \/ /\ WithinRoot(dir) /\ visited' = visited \cup {dir}
            /\ stack' = Advanced
            /\ faults' = 0 => dir \in fs.unreadable
         \/ /\ WithinRoot(dir) /\ visited' = visited \cup {dir}
            /\ stack' = Append(Advanced, frame)
            /\ dir \notin fs.unreadable
  BY ScanDirectoryCases DEF TypeOK
<1>2. frame \in Frame /\ frame.path = EntryPath /\ frame.dir = dir /\ frame.rest = fs.entries[dir]
  <2>1. fs.entries[dir] \in Seq(Entry)
    BY DiskInState
  <2> QED  BY <2>1, AdvancedStack DEF Frame
<1>3. visited' \in SUBSET Dirs /\ visited \subseteq visited'
  BY <1>1 DEF TypeOK
<1> HIDE DEF frame
<1>4. Advanced \in Seq(Frame) /\ Len(Advanced) = Len(stack) /\ Len(stack) \in Nat \ {0}
  BY AdvancedStack
<1>5. \/ stack' = Advanced
      \/ stack' = Append(Advanced, frame) /\ dir \in visited' /\ dir \notin fs.unreadable
  BY <1>1
<1>6. TypeOK'
  BY <1>1, <1>2, <1>3, <1>4, <1>5 DEF TypeOK
<1>8. ASSUME NEW e, e = Current PROVE DealsWith(e)
  <2>1. /\ Len(stack) <= Len(stack')
        /\ \A i \in 1..Len(stack) : stack'[i] = Advanced[i]
        /\ \A i \in 1..Len(stack)' : i > Len(stack) => stack'[i] = frame
    BY <1>2, <1>4, <1>5
  <2>2. \A i \in 1..Len(stack)' : i > Len(stack) => FrameIsSound(stack[i])'
    <3> SUFFICES ASSUME NEW i \in 1..Len(stack)', i > Len(stack) PROVE FrameIsSound(stack[i])'
      OBVIOUS
    <3>1. stack'[i] = frame /\ dir \in visited' /\ dir \notin fs.unreadable
      BY <1>4, <1>5, <2>1
    <3>2. \A k \in 1..Len(EntryPath) : EntryPath[k] \notin Skipped
      BY AdvancedStack, CurrentEntry DEF EntryPath, Entry
    <3>3. IsRestOf(fs.entries[dir], dir)
      <4>1. fs.entries[dir] \in Seq(Entry)
        BY DiskInState
      <4>2. \A j \in 1..Len(fs.entries[dir]) : Len(fs.entries[dir]) - Len(fs.entries[dir]) + j = j
        BY <4>1
      <4> QED  BY <4>1, <4>2 DEF IsRestOf
    <3> QED  BY <1>2, <3>1, <3>2, <3>3 DEF FrameIsSound, IsRestOf
  <2>3. faults' = 0 => Dealt(e)'
    <3>1. Current.target \notin Sources
      BY WalkAssumption, DiskAssumption
    <3>2. faults' = 0 /\ WithinRoot(dir) => dir \in visited'
      BY <1>1
    <3> QED  BY <1>8, <3>1, <3>2 DEF Dealt, Leads
  <2>4. \A d \in visited' \ visited :
          \/ d \in fs.unreadable
          \/ faults' # 0
          \/ \E i \in 1..Len(stack)' : stack'[i].dir = d /\ stack'[i].rest = fs.entries[d]
    <3> SUFFICES ASSUME NEW d \in visited' \ visited, d \notin fs.unreadable, faults' = 0
                 PROVE \E i \in 1..Len(stack)' : stack'[i].dir = d /\ stack'[i].rest = fs.entries[d]
      OBVIOUS
    <3>1. d = dir /\ stack' = Append(Advanced, frame)
      BY <1>1
    <3>2. Len(stack)' \in 1..Len(stack)' /\ stack'[Len(stack)'] = frame
      BY <1>2, <1>4, <3>1
    <3> QED  BY <1>2, <3>1, <3>2
  <2> QED
    BY <1>1, <1>3, <1>8, <2>1, <2>2, <2>3, <2>4 DEF DealsWith, IsCollected
<1>9. FramesAreSound' /\ NothingIsForgotten'
  BY <1>6, <1>8, FramesStaySound, NothingGetsForgotten
<1>10. VisitedIsReachable'
  <2> SUFFICES ASSUME NEW S \in SUBSET Dirs, ClosedUnderFollows(S)' PROVE visited' \subseteq S
    BY DEF VisitedIsReachable
  <2>1. ClosedUnderFollows(S)
    BY DEF ClosedUnderFollows, Follows, BaseName
  <2>2. WithinRoot(dir) => dir \in S
    BY <2>1, LeadsIsFollows DEF Leads
  <2> QED  BY <2>1, <2>2, <1>1 DEF VisitedIsReachable
<1>11. StaysInside' /\ RealFilesAreReal'
  BY <1>1 DEF StaysInside, RealFilesAreReal, RealFileOf, WithinRoot
<1>12. PhasesAreRight'
  BY <1>1, <1>3 DEF PhasesAreRight
<1> QED  BY <1>6, <1>9, <1>10, <1>11, <1>12

-----------------------------------------------------------------------------
(* A step that opens no directory, whether it collects the entry or not.   *)
Collects(c) ==
  /\ candidates' = Append(candidates, c)
  /\ c \in Candidate /\ c.path = EntryPath /\ c.file = Current.target
  /\ c.file \notin Outside
  /\ RealFileOf(c) = fs.realPath[c.file]

LEMMA CollectedStay ==
  ASSUME TypeOK, NEW c, Collects(c)
  PROVE  /\ candidates' \in Seq(Candidate)
         /\ IsCollected(c.file)'
         /\ \A file \in Files : IsCollected(file) => IsCollected(file)'
         /\ Len(candidates') = Len(candidates) + 1 /\ Len(candidates) \in Nat
         /\ candidates'[Len(candidates')] = c
         /\ \A k \in 1..Len(candidates) : candidates'[k] = candidates[k]
<1>1. /\ candidates' \in Seq(Candidate)
      /\ Len(candidates') = Len(candidates) + 1 /\ Len(candidates) \in Nat
      /\ candidates'[Len(candidates')] = c
      /\ \A k \in 1..Len(candidates) : candidates'[k] = candidates[k]
  BY DEF TypeOK, Collects
<1>2. Len(candidates') \in 1..Len(candidates') /\ 1..Len(candidates) \subseteq 1..Len(candidates')
  BY <1>1
<1>3. IsCollected(c.file)'
  BY <1>1, <1>2 DEF IsCollected
<1>4. \A file \in Files : IsCollected(file) => IsCollected(file)'
  BY <1>1, <1>2 DEF IsCollected
<1> QED  BY <1>1, <1>3, <1>4

LEMMA PassKeepsWalkInv ==
  ASSUME WalkInv, pc = "walking", stack # <<>>, Top.rest # <<>>,
         stack' = Advanced, UNCHANGED <<fs, pc, visited>>,
         faults' \in Nat, faults' = 0 => faults = 0,
         UNCHANGED candidates \/ \E c : Collects(c),
         NEW e, e = Current, faults' = 0 => Dealt(e)'
  PROVE  WalkInv'
<1> USE DEF WalkInv
<1>1. /\ candidates' \in Seq(Candidate)
      /\ \A file \in Files : IsCollected(file) => IsCollected(file)'
  BY CollectedStay DEF TypeOK, IsCollected
<1>2. TypeOK'
  BY <1>1, AdvancedStack DEF TypeOK
<1>3. DealsWith(e)
  BY <1>1, AdvancedStack DEF DealsWith
<1>4. FramesAreSound' /\ NothingIsForgotten'
  BY <1>2, <1>3, FramesStaySound, NothingGetsForgotten
<1>5. VisitedIsReachable'
  BY DEF VisitedIsReachable, ClosedUnderFollows, Follows, BaseName
<1>6. StaysInside' /\ RealFilesAreReal'
  <2>1. CASE UNCHANGED candidates
    BY <2>1 DEF StaysInside, RealFilesAreReal, RealFileOf
  <2>2. CASE \E c : Collects(c)
    <3>1. PICK c : Collects(c)
      BY <2>2
    <3>2. \A k \in 1..(Len(c.path) - 1) : c.path[k] \notin Skipped
      BY <3>1, AdvancedStack, CurrentEntry DEF Collects, EntryPath, Entry
    <3>3. \A k \in 1..Len(candidates') :
            candidates'[k] = c \/ (k \in 1..Len(candidates) /\ candidates'[k] = candidates[k])
      BY <3>1, CollectedStay
    <3>4. StaysInside'
      BY <3>1, <3>2, <3>3 DEF Collects, StaysInside
    <3>5. RealFilesAreReal'
      BY <3>1, <3>3 DEF Collects, RealFilesAreReal, RealFileOf
    <3> QED  BY <3>4, <3>5
  <2> QED  BY <2>1, <2>2
<1>7. PhasesAreRight'
  BY DEF PhasesAreRight
<1> QED  BY <1>2, <1>4, <1>5, <1>6, <1>7

(* An entry with nothing to visit or to collect is dealt with at once.     *)
LEMMA NothingToDo ==
  ASSUME TypeOK, NEW e, e = Current, UNCHANGED <<fs, visited>>,
         ~WithinRoot(e.target) \/ e.target \notin Dirs \cup Sources \/
         (e.target \notin Sources /\ (e.name \in Skipped \/ (e.kind = "link" /\ SkippedLink)))
  PROVE  Dealt(e)'
BY DEF Dealt, Leads, SkippedLink, BaseName

LEMMA CollectKeepsWalkInv ==
  ASSUME WalkInv, pc = "walking", stack # <<>>, Top.rest # <<>>,
         Current.target \in Files \ Outside, NEW realFile \in Seq(Names) \cup {NoPath},
         (IF realFile = NoPath THEN EntryPath ELSE realFile) = fs.realPath[Current.target],
         Collect(Current.target, realFile), stack' = Advanced,
         UNCHANGED <<fs, pc, visited, errors, faults>>
  PROVE  WalkInv'
<1> PICK c : c = [path |-> EntryPath, file |-> Current.target, realFile |-> realFile]
  OBVIOUS
<1>1. /\ c \in Candidate /\ c.path = EntryPath /\ c.file = Current.target
      /\ RealFileOf(c) = fs.realPath[c.file]
  BY AdvancedStack DEF Candidate, RealFileOf, WalkInv
<1>2. candidates' = IF Current.target \in Sources THEN Append(candidates, c) ELSE candidates
  BY DEF Collect
<1>3. UNCHANGED candidates \/ Collects(c)
  BY <1>1, <1>2 DEF Collects
<1>4. TypeOK /\ faults \in Nat /\ Current.target \notin Dirs
  BY DiskAssumption DEF WalkInv, TypeOK
<1>5. ASSUME NEW e, e = Current PROVE Dealt(e)'
  <2>1. CASE Current.target \in Sources
    <3>1. Collects(c)
      BY <1>1, <1>2, <2>1 DEF Collects
    <3>2. IsCollected(e.target)'
      <4>1. IsCollected(c.file)'
        BY <1>4, <3>1, CollectedStay
      <4>2. c.file = e.target
        BY <1>1, <1>5
      <4> QED  BY <4>1, <4>2
    <3> QED  BY <1>4, <1>5, <3>2 DEF Dealt, Leads
  <2>2. CASE Current.target \notin Sources
    BY <1>4, <1>5, <2>2, NothingToDo
  <2> QED  BY <2>1, <2>2
<1> QED
  <2>1. UNCHANGED candidates \/ \E d : Collects(d)
    BY <1>3
  <2> QED  BY <1>4, <1>5, <2>1, PassKeepsWalkInv

-----------------------------------------------------------------------------
(* The steps of the walk.                                                  *)

LEMMA OneFrame ==
  ASSUME NEW S, NEW frame \in S
  PROVE  /\ <<frame>> \in Seq(S) /\ Len(<<frame>>) = 1 /\ <<frame>>[1] = frame
         /\ Append(<<>>, frame) = <<frame>>
OBVIOUS

LEMMA WithoutLast ==
  ASSUME NEW S, NEW s \in Seq(S), s # <<>>
  PROVE  /\ Front(s) \in Seq(S) /\ Len(s) \in Nat \ {0} /\ Len(Front(s)) = Len(s) - 1
         /\ \A i \in 1..Len(Front(s)) : Front(s)[i] = s[i] /\ i \in 1..Len(s)
<1>1. Front(s) = SubSeq(s, 1, Len(s) - 1) /\ Len(s) \in Nat \ {0}
  BY DEF Front
<1>2. /\ SubSeq(s, 1, Len(s) - 1) \in Seq(S) /\ Len(SubSeq(s, 1, Len(s) - 1)) = Len(s) - 1
      /\ \A i \in 1..(Len(s) - 1) : SubSeq(s, 1, Len(s) - 1)[i] = s[i]
  <2> DEFINE n == Len(s) - 1
  <2>1. 1 \in Int /\ n \in Nat /\ \A i \in 1..n : s[i] \in S
    BY <1>1
  <2> HIDE DEF n
  <2>2. /\ SubSeq(s, 1, n) \in Seq(S)
        /\ Len(SubSeq(s, 1, n)) = IF 1 <= n THEN n - 1 + 1 ELSE 0
        /\ \A i \in 1..(n - 1 + 1) : SubSeq(s, 1, n)[i] = s[1 + i - 1]
    BY <2>1, SubSeqProperties
  <2>3. /\ Len(SubSeq(s, 1, n)) = n
        /\ \A i \in 1..n : SubSeq(s, 1, n)[i] = s[i]
    BY <2>1, <2>2
  <2> QED  BY <2>2, <2>3 DEF n
<1> QED  BY <1>1, <1>2

LEMMA StartKeepsWalkInv ==
  ASSUME WalkInv, StartWalk
  PROVE  WalkInv'
<1> USE DEF WalkInv
<1> DEFINE frame == [path |-> <<>>, dir |-> Root, rest |-> fs.entries[Root]]
<1>1. /\ pc = "start" /\ pc' = "walking" /\ UNCHANGED <<fs, candidates>>
      /\ visited = {} /\ candidates = <<>> /\ Root \in Dirs \ Outside
  BY WalkAssumption DEF StartWalk, PhasesAreRight
<1>2. /\ faults' \in Nat /\ (faults' = 0 => faults = 0)
      /\ \/ stack' = <<>> /\ visited' = {} /\ faults' # 0
         \/ stack' = <<>> /\ visited' = {Root} /\ (faults' = 0 => Root \in fs.unreadable)
         \/ stack' = <<frame>> /\ visited' = {Root} /\ Root \notin fs.unreadable
  <2>1. ScanDirectory(<<>>, Root, <<>>) /\ faults \in Nat
    BY DEF StartWalk, TypeOK
  <2>2. /\ faults' \in Nat /\ (faults' = 0 => faults = 0)
        /\ \/ /\ stack' = <<>> /\ visited' = visited
              /\ faults' = 0 => ~WithinRoot(Root) \/ Root \in visited
           \/ /\ WithinRoot(Root) /\ visited' = visited \cup {Root}
              /\ stack' = <<>>
              /\ faults' = 0 => Root \in fs.unreadable
           \/ /\ WithinRoot(Root) /\ visited' = visited \cup {Root}
              /\ stack' = Append(<<>>, frame)
              /\ Root \notin fs.unreadable
    BY <2>1, ScanDirectoryCases
  <2> HIDE DEF frame
  <2>3. Append(<<>>, frame) = <<frame>>
    OBVIOUS
  <2> QED  BY <1>1, <2>2, <2>3 DEF WithinRoot
<1>3. /\ frame \in Frame /\ frame.path = <<>> /\ frame.dir = Root
      /\ frame.rest = fs.entries[Root] /\ fs.entries[Root] \in Seq(Entry)
  <2>1. fs.entries[Root] \in Seq(Entry)
    BY <1>1, DiskInState
  <2> QED  BY <1>1, <2>1 DEF Frame
<1> HIDE DEF frame
<1>4. TypeOK'
  <2>1. <<frame>> \in Seq(Frame) /\ <<>> \in Seq(Frame)
    BY <1>3, OneFrame
  <2> QED  BY <1>1, <1>2, <2>1 DEF TypeOK
<1>5. PhasesAreRight'
  BY <1>1, <1>2 DEF PhasesAreRight
<1>6. FramesAreSound'
  <2> SUFFICES ASSUME NEW i \in 1..Len(stack)' PROVE FrameIsSound(stack[i])'
    BY DEF FramesAreSound
  <2>1. stack' = <<frame>> /\ visited' = {Root} /\ Root \notin fs.unreadable
    BY <1>2
  <2>3. stack'[i] = frame
    BY <1>3, <2>1, OneFrame
  <2>4. \A k \in 1..Len(frame.path) : frame.path[k] \notin Skipped
    <3>1. Len(<<>>) = 0 /\ 1..0 = {}
      OBVIOUS
    <3> QED  BY <1>3, <3>1
  <2>2. IsRestOf(fs.entries[Root], Root)
    <3>1. \A j \in 1..Len(fs.entries[Root]) : Len(fs.entries[Root]) - Len(fs.entries[Root]) + j = j
      BY <1>3
    <3> QED  BY <1>3, <3>1 DEF IsRestOf
  <2>5. /\ stack'[i].dir = Root /\ stack'[i].rest = fs.entries[Root]
        /\ \A k \in 1..Len(stack'[i].path) : stack'[i].path[k] \notin Skipped
    BY <1>3, <2>3, <2>4
  <2>6. IsRestOf(stack[i].rest, stack[i].dir)'
    BY <1>1, <2>2, <2>5 DEF IsRestOf
  <2> QED  BY <1>1, <2>1, <2>5, <2>6 DEF FrameIsSound
<1>7. VisitedIsReachable'
  BY <1>2 DEF VisitedIsReachable, ClosedUnderFollows
<1>8. NothingIsForgotten'
  <2> SUFFICES ASSUME faults' = 0, NEW dir \in visited' \ fs.unreadable,
                      NEW j \in 1..Len(fs.entries[dir])
               PROVE  Pending(dir, j)'
    BY <1>1 DEF NothingIsForgotten
  <2>1. dir = Root /\ stack' = <<frame>>
    BY <1>2
  <2>2. j > Len(fs.entries[Root]) - Len(frame.rest)
    BY <1>3, <2>1
  <2>3. 1 \in 1..Len(stack') /\ stack'[1] = frame
    BY <1>3, <2>1, OneFrame
  <2> QED  BY <1>1, <1>3, <2>1, <2>2, <2>3 DEF Pending
<1>9. StaysInside' /\ RealFilesAreReal'
  BY <1>1, <1>2 DEF StaysInside, RealFilesAreReal
<1> QED  BY <1>4, <1>5, <1>6, <1>7, <1>8, <1>9

LEMMA DirectoryKeepsWalkInv ==
  ASSUME WalkInv, VisitDirectory
  PROVE  WalkInv'
<1>1. /\ pc = "walking" /\ stack # <<>> /\ Top.rest # <<>> /\ Current.kind = "directory"
      /\ UNCHANGED <<fs, pc, candidates>> /\ TypeOK /\ FramesAreSound
  BY DEF VisitDirectory, Walking, WalkInv
<1>2. Current.target \in Dirs
  BY <1>1, CurrentIsChild
<1>3. CASE Current.name \in Skipped
  <2>1. stack' = Advanced /\ UNCHANGED <<visited, faults>> /\ faults \in Nat
    BY <1>1, <1>3 DEF VisitDirectory, TypeOK
  <2>2. PICK e : e = Current
    OBVIOUS
  <2>3. Dealt(e)'
    BY <1>1, <1>2, <1>3, <2>1, <2>2, NothingToDo, WalkAssumption, DiskAssumption
  <2> QED  BY <1>1, <2>1, <2>2, <2>3, PassKeepsWalkInv
<1>4. CASE Current.name \notin Skipped
  BY <1>1, <1>2, <1>4, ScanKeepsWalkInv DEF VisitDirectory
<1> QED  BY <1>3, <1>4

(* The real path of a file met in a directory, with or without links.      *)
LEMMA FileKeepsWalkInv ==
  ASSUME WalkInv, VisitFile
  PROVE  WalkInv'
<1>1. /\ pc = "walking" /\ stack # <<>> /\ Top.rest # <<>> /\ Current.kind = "file"
      /\ stack' = Advanced /\ Collect(Current.target, RealFileHere)
      /\ UNCHANGED <<fs, pc, visited, errors, faults>> /\ TypeOK /\ FramesAreSound
  BY DEF VisitFile, Walking, WalkInv
<1>2. Current.target \in Files /\ IsChild(fs, Top.dir, Current) /\ Top.dir \in Dirs
  BY <1>1, CurrentIsChild
<1>3. Top.dir \notin Outside
  BY <1>1, CurrentEntry DEF WalkInv, StaysInside
<1>4. /\ fs.realPath[Top.dir] \in Seq(Names) /\ Current.name \in Names
      /\ fs.realPath[Current.target] = Append(fs.realPath[Top.dir], Current.name)
  BY <1>1, <1>2, DiskInState, AdvancedStack DEF IsChild, Nodes, Entry
<1>5. Append(fs.realPath[Top.dir], Current.name) \in Seq(Names)
  BY <1>4
<1>6. /\ RealFileHere \in Seq(Names) \cup {NoPath}
      /\ (IF RealFileHere = NoPath THEN EntryPath ELSE RealFileHere) = fs.realPath[Current.target]
  BY <1>4, <1>5, DiskAssumption DEF RealFileHere, EntryPath
<1> QED  BY <1>1, <1>2, <1>3, <1>6, CollectKeepsWalkInv DEF IsChild

LEMMA LinkToFileKeepsWalkInv ==
  ASSUME WalkInv, LinkToFile
  PROVE  WalkInv'
<1>1. /\ pc = "walking" /\ stack # <<>> /\ Top.rest # <<>>
      /\ Current.target \in Files \ Outside
      /\ stack' = Advanced /\ Collect(Current.target, fs.realPath[Current.target])
      /\ UNCHANGED <<fs, pc, visited, errors, faults>> /\ TypeOK
  BY DEF LinkToFile, Walking, WalkInv, WithinRoot
<1>2. fs.realPath[Current.target] \in Seq(Names)
  BY <1>1, DiskInState DEF Nodes
<1> QED  BY <1>1, <1>2, DiskAssumption, CollectKeepsWalkInv

LEMMA LinkToDirectoryKeepsWalkInv ==
  ASSUME WalkInv, LinkToDirectory
  PROVE  WalkInv'
<1>1. /\ pc = "walking" /\ stack # <<>> /\ Top.rest # <<>> /\ Current.kind = "link"
      /\ Current.target \in Dirs
      /\ UNCHANGED <<fs, pc, candidates>> /\ TypeOK
  BY DEF LinkToDirectory, Walking, WalkInv
<1>2. CASE SkippedLink
  <2>1. stack' = Advanced /\ UNCHANGED <<visited, faults>> /\ faults \in Nat
    BY <1>1, <1>2 DEF LinkToDirectory, TypeOK
  <2>2. PICK e : e = Current
    OBVIOUS
  <2>3. Dealt(e)'
    BY <1>1, <1>2, <2>1, <2>2, NothingToDo, WalkAssumption, DiskAssumption
  <2> QED  BY <1>1, <2>1, <2>2, <2>3, PassKeepsWalkInv
<1>3. CASE ~SkippedLink
  <2>1. Current.name \notin Skipped /\ BaseName(Current.target) \notin Skipped
    BY <1>3 DEF SkippedLink
  <2> QED  BY <1>1, <1>3, <2>1, ScanKeepsWalkInv DEF LinkToDirectory
<1> QED  BY <1>2, <1>3

LEMMA OtherEntriesKeepWalkInv ==
  ASSUME WalkInv, VisitSpecial \/ LinkFails \/ LinkEscapes
  PROVE  WalkInv'
<1>1. /\ pc = "walking" /\ stack # <<>> /\ Top.rest # <<>> /\ stack' = Advanced
      /\ UNCHANGED <<fs, pc, visited, candidates>> /\ TypeOK /\ FramesAreSound
      /\ faults \in Nat /\ faults' \in Nat /\ (faults' = 0 => faults = 0)
  BY DEF VisitSpecial, LinkFails, LinkEscapes, Walking, WalkInv, TypeOK, Transient
<1>2. PICK e : e = Current
  OBVIOUS
<1>3. faults' = 0 => ~WithinRoot(e.target) \/ e.target \notin Dirs \cup Sources
  <2>1. CASE VisitSpecial
    <3>1. e.target = NoNode
      BY <1>1, <1>2, <2>1, CurrentIsChild DEF VisitSpecial, Walking
    <3> QED  BY <3>1, WalkAssumption DEF Nodes
  <2>2. CASE LinkFails
    BY <1>1, <1>2, <2>2, WalkAssumption DEF LinkFails, Transient, Nodes
  <2>3. CASE LinkEscapes
    BY <1>2, <2>3 DEF LinkEscapes
  <2> QED  BY <2>1, <2>2, <2>3
<1>4. faults' = 0 => Dealt(e)'
  BY <1>1, <1>2, <1>3, NothingToDo
<1> QED  BY <1>1, <1>2, <1>4, PassKeepsWalkInv

LEMMA LeaveKeepsWalkInv ==
  ASSUME WalkInv, LeaveDirectory
  PROVE  WalkInv'
<1> USE DEF WalkInv, LeaveDirectory
<1>1. /\ stack' \in Seq(Frame) /\ Len(stack) \in Nat \ {0} /\ Len(stack') = Len(stack) - 1
      /\ \A i \in 1..Len(stack') : stack'[i] = stack[i] /\ i \in 1..Len(stack)
  BY WithoutLast DEF TypeOK
<1>2. TypeOK'
  BY <1>1 DEF TypeOK
<1>3. FramesAreSound'
  <2> SUFFICES ASSUME NEW i \in 1..Len(stack') PROVE FrameIsSound(stack[i])'
    BY DEF FramesAreSound
  <2>1. stack'[i] = stack[i] /\ FrameIsSound(stack[i])
    BY <1>1 DEF FramesAreSound
  <2> QED  BY <2>1 DEF FrameIsSound, IsRestOf
<1>4. NothingIsForgotten'
  <2> SUFFICES ASSUME faults = 0, NEW dir \in visited \ fs.unreadable,
                      NEW j \in 1..Len(fs.entries[dir]), Pending(dir, j)
               PROVE  Pending(dir, j)'
    BY DEF NothingIsForgotten, Dealt, Leads, BaseName, IsCollected
  <2>1. PICK i \in 1..Len(stack) :
          stack[i].dir = dir /\ j > Len(fs.entries[dir]) - Len(stack[i].rest)
    BY DEF Pending
  <2>2. Len(fs.entries[dir]) \in Nat
    BY DiskInState DEF TypeOK
  <2>3. i # Len(stack)
    <3>1. Len(Top.rest) = 0
      OBVIOUS
    <3>2. i = Len(stack) => j > Len(fs.entries[dir]) - 0
      BY <2>1, <3>1 DEF Top
    <3> QED  BY <2>2, <3>2
  <2>4. i \in 1..Len(stack') /\ stack'[i] = stack[i]
    BY <1>1, <2>3
  <2> QED  BY <2>1, <2>4 DEF Pending
<1>5. PhasesAreRight' /\ VisitedIsReachable' /\ StaysInside' /\ RealFilesAreReal'
  BY DEF PhasesAreRight, VisitedIsReachable, ClosedUnderFollows, Follows, BaseName,
     StaysInside, RealFilesAreReal, RealFileOf
<1> QED  BY <1>2, <1>3, <1>4, <1>5

LEMMA OutsideStepsKeepWalkInv ==
  ASSUME WalkInv, EndWalk \/ UNCHANGED vars
  PROVE  WalkInv'
<1>1. /\ UNCHANGED <<fs, stack, visited, candidates, faults>>
      /\ UNCHANGED pc \/ (pc = "walking" /\ pc' = "done" /\ stack = <<>>)
  BY DEF EndWalk, vars
<1>2. TypeOK' /\ PhasesAreRight'
  BY <1>1 DEF WalkInv, TypeOK, PhasesAreRight
<1>3. FramesAreSound' /\ VisitedIsReachable'
  BY <1>1 DEF WalkInv, FramesAreSound, FrameIsSound, IsRestOf, VisitedIsReachable,
     ClosedUnderFollows, Follows, BaseName
<1>4. NothingIsForgotten'
  <2>1. \A e : Dealt(e) => Dealt(e)'
    BY <1>1 DEF Dealt, Leads, BaseName, IsCollected
  <2>2. \A dir, j : Pending(dir, j) => Pending(dir, j)'
    BY <1>1 DEF Pending
  <2> QED  BY <1>1, <2>1, <2>2 DEF WalkInv, NothingIsForgotten
<1>5. StaysInside' /\ RealFilesAreReal'
  BY <1>1 DEF WalkInv, StaysInside, RealFilesAreReal, RealFileOf
<1> QED  BY <1>2, <1>3, <1>4, <1>5 DEF WalkInv

-----------------------------------------------------------------------------
LEMMA WalkInvHolds == Spec => []WalkInv
<1>1. WalkInv /\ [Next]_vars => WalkInv'
  BY StartKeepsWalkInv, DirectoryKeepsWalkInv, FileKeepsWalkInv, LinkToFileKeepsWalkInv,
     LinkToDirectoryKeepsWalkInv, OtherEntriesKeepWalkInv, LeaveKeepsWalkInv,
     OutsideStepsKeepWalkInv DEF Next
<1> QED  BY InitWalkInv, <1>1, PTL DEF Spec

(* scanDirectory, scanSymbolicLink and collectScannableFile hand the scan  *)
(* only files of the tree, none reached by a skipped name, each with the   *)
(* one real path it has, wherever links lead.                              *)
THEOREM WalkCollectsSoundly == Spec => []CandidatesAreSound
<1>1. WalkInv => CandidatesAreSound
  BY DEF WalkInv, CandidatesAreSound
<1> QED  BY <1>1, WalkInvHolds, PTL

(* A walk of scanDirectory in which nothing failed for a passing reason    *)
(* has entered exactly the directories reachable from the root, whatever   *)
(* cycles the links form, and collected every source in them.              *)
THEOREM WalkMissesNothing == Spec => []WalkIsComplete
<1>1. WalkInv => WalkIsComplete
  <2> SUFFICES ASSUME WalkInv, pc = "done", faults = 0
               PROVE  /\ ClosedUnderFollows(visited)
                      /\ \A S \in SUBSET Dirs : ClosedUnderFollows(S) => visited \subseteq S
                      /\ \A dir \in visited \ fs.unreadable : \A i \in 1..Len(fs.entries[dir]) :
                           Dealt(fs.entries[dir][i])
    BY DEF WalkIsComplete, Dealt, IsCollected
  <2>1. \A dir \in visited \ fs.unreadable : \A i \in 1..Len(fs.entries[dir]) :
          Dealt(fs.entries[dir][i])
    <3>1. \A dir, j : ~Pending(dir, j)
      <4>1. Len(stack) = 0
        BY DEF WalkInv, PhasesAreRight
      <4> QED  BY <4>1 DEF Pending
    <3> QED  BY <3>1 DEF WalkInv, NothingIsForgotten
  <2>2. ClosedUnderFollows(visited)
    <3> SUFFICES ASSUME NEW dir \in visited, NEW child \in Dirs, Follows(dir, child)
                 PROVE  child \in visited
      BY DEF ClosedUnderFollows, WalkInv, PhasesAreRight
    <3>1. PICK i \in 1..Len(fs.entries[dir]) : Leads(fs.entries[dir][i], child)
      BY DEF Follows, Leads
    <3>2. dir \notin fs.unreadable
      BY DEF Follows
    <3> QED  BY <2>1, <3>1, <3>2 DEF Dealt
  <2> QED  BY <2>1, <2>2 DEF WalkInv, VisitedIsReachable
<1> QED  BY <1>1, WalkInvHolds, PTL

=============================================================================
