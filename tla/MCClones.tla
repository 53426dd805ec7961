------------------------------ MODULE MCClones ------------------------------
(***************************************************************************)
(* The search for exact and gapped clones in two parts, each on inputs of  *)
(* its own while the other has nothing to do.                              *)
(*   - The windows of all texts of eight statements of up to three shapes, *)
(*     up to a renaming of the shapes, in one, two or three containers of  *)
(*     one, two or three files, and of texts of ten statements of two      *)
(*     shapes, long enough for a window to be reached from windows of      *)
(*     different lengths.                                                  *)
(*   - The groups of all texts of eight statements of up to three shapes   *)
(*     in a few layouts: clones that enclose, straddle and block each      *)
(*     other.  And of texts made of two fragments and edited statements    *)
(*     between them, in one to four files: clones with gaps.               *)
(***************************************************************************)
EXTENDS SequenceWindows, CloneGroups

(* Containers of the given files and words, as many tokens apart as braces take. *)
Before(words, k) == FoldLeft(LAMBDA sum, w : sum + Len(w) + 2, 0, SubSeq(words, 1, k - 1))

Containers(files, words) ==
  [k \in DOMAIN words |->
     [file |-> files[k],
      at   |-> Before(words, k) - Before(words, Min({j \in DOMAIN files : files[j] = files[k]})),
      statements |-> [i \in DOMAIN words[k] |-> [shape |-> words[k][i], name |-> 1]]]]

FileLengths(files, words) ==
  [f \in 1..Max(ToSet(files)) |->
     FoldLeft(LAMBDA sum, k : sum + IF files[k] = f THEN Len(words[k]) + 2 ELSE 0, 0,
              [k \in DOMAIN words |-> k])]

Input(detector, cap, files, words) ==
  [rule |-> detector, rerunCap |-> cap, lengths |-> FileLengths(files, words),
   candidates |-> IF detector = "files" THEN CrossFileCandidates(Containers(files, words))
                  ELSE WithinFileCandidates(Containers(files, words))]

-----------------------------------------------------------------------------
ShortTexts(n, shapes) ==
  {w \in [1..n -> 1..shapes] : \A i \in 1..n : w[i] <= 1 + Max({0} \cup {w[j] : j \in 1..(i - 1)})}

Cut(word, at) ==
  [k \in 1..Len(at) |-> SubSeq(word, at[k], IF k = Len(at) THEN Len(word) ELSE at[k + 1] - 1)]

(* The real cap and one that is soon reached. *)
TangledClones(texts) ==
  {Input("files", 1, <<1, 2, 3>>, Cut(w, <<1, 4, 7>>)) : w \in texts}
  \cup {Input("files", 20, <<1, 2>>, Cut(w, <<1, 5>>)) : w \in texts}
  \cup {Input("copies", 1, <<1, 1>>, Cut(w, <<1, 5>>)) : w \in texts}
  \cup {[in EXCEPT !.rerunCap = cap] :
         in \in {Input("copies", 20, <<1>>, <<w>>) : w \in texts}, cap \in {1, 20}}

(* Shapes 1 and 2, 3 and 4, 5 and 6 make the fragments; an edit is of a shape of its own. *)
Fragment(item, edit) ==
  CASE item = "P" -> <<1, 2>> [] item = "Q" -> <<3, 4>> [] item = "R" -> <<5, 6>>
    [] item = "edit" -> <<edit>>

Edited(items, f) ==
  FlattenSeq([i \in DOMAIN items |-> Fragment(items[i], 20 * f + i)])

Items(n, items) == UNION {[1..k -> items] : k \in 1..n}

Files(texts) == [f \in DOMAIN texts |-> Edited(texts[f], f)]

EditedClones(items) ==
  {Input("files", 20, <<1, 2, 3>>, Files(<<a, b, c>>)) :
     a, b \in [1..3 -> items], c \in {<<"P">>, <<"edit">>}}
  \cup {Input("files", 20, <<1, 2, 3, 4>>, Files(<<a, b, a, b>>)) : a \in Items(2, items), b \in Items(2, items)}
  \cup {Input("copies", 20, <<1>>, Files(<<a>>)) : a \in [1..5 -> items]}

(* The copies of P and Q are in one file, others of P within larger clones. *)
Edits(n) == [i \in 1..n |-> "edit"]

NestedClones(gaps) ==
  {Input("files", 20, <<1, 2, 3, 4>>,
         Files(<<<<"P">> \o Edits(g) \o <<"Q">> \o Edits(h) \o <<"P">> \o Edits(i) \o <<"Q">>,
                 <<"P", "R">>, <<"P", "R">>, <<"Q">>>>)) : g \in gaps, h \in gaps, i \in gaps}

(* A clone whose beginning and whose end have more copies than itself. *)
Parts(item) == CASE item = "abc" -> <<1, 2, 3>> [] item = "ab" -> <<1, 2>> [] item = "bc" -> <<2, 3>>

OverlappingParts(texts) ==
  {[in EXCEPT !.rerunCap = cap] :
     in \in {Input("copies", 20, <<1>>, <<FlattenSeq([i \in DOMAIN t |-> Parts(t[i])])>>) : t \in texts},
     cap \in {0, 20}}

(* Seven parts, two of them the whole, three its end, two its beginning. *)
SevenParts ==
  {t \in [1..7 -> {"abc", "ab", "bc"}] :
     /\ Cardinality({i \in 1..7 : t[i] = "abc"}) = 2
     /\ Cardinality({i \in 1..7 : t[i] = "bc"}) = 3}

MCInputs ==
  TangledClones(ShortTexts(8, 3))
  \cup EditedClones({"P", "Q", "edit"}) \cup NestedClones(0..2) \cup OverlappingParts(SevenParts)

-----------------------------------------------------------------------------
(* The file of each container and its first statement. *)
Layouts == {[files |-> <<1>>, at |-> <<1>>], [files |-> <<1, 1>>, at |-> <<1, 5>>],
            [files |-> <<1, 2>>, at |-> <<1, 6>>], [files |-> <<1, 1, 2>>, at |-> <<1, 4, 6>>],
            [files |-> <<1, 2, 3>>, at |-> <<1, 4, 7>>]}

MCTexts ==
  {[containers |-> Containers(layout.files, Cut(w, layout.at)), multiple |-> multiple] :
     layout \in Layouts, w \in ShortTexts(8, 3), multiple \in BOOLEAN}
  \cup {[containers |-> Containers(<<1>>, <<w>>), multiple |-> FALSE] : w \in ShortTexts(10, 2)}

-----------------------------------------------------------------------------
NoWindows ==
  /\ text = [containers |-> <<>>, multiple |-> FALSE]
  /\ repeated = {} /\ frontier = {} /\ visited = {} /\ emitted = {}

NoCandidates ==
  /\ step = "selected" /\ merging = "merged" /\ rule = "copies" /\ rerunCap = 0 /\ rerun = 0
  /\ duplicates = {} /\ ranking = <<>> /\ rest = {} /\ leftOver = {} /\ kept = {} /\ nested = {}
  /\ order = <<>> /\ blockers = {} /\ shed = {}
  /\ groups = <<>> /\ spanFiles = FALSE /\ lengths = <<>>

ClonesInit == (WindowInit /\ NoCandidates) \/ (NoWindows /\ CloneInit)

ClonesNext ==
  \/ WindowNext /\ UNCHANGED cloneVars
  \/ CloneNext /\ UNCHANGED windowVars

ClonesSpec ==
  ClonesInit /\ [][ClonesNext]_<<windowVars, cloneVars>> /\ WF_cloneVars(SelectGroups)
=============================================================================
