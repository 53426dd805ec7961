------------------------------ MODULE NearMiss ------------------------------
(***************************************************************************)
(* Whether two blocks of a file are copies with edits (near_miss.rs): as a *)
(* whole, as a whole with their statements reordered, or in cores that     *)
(* n-grams unique to each block anchor.  A token is a positive symbol, or  *)
(* the negated number of an identifier of its file.                        *)
(***************************************************************************)
EXTENDS Lcs

CONSTANTS
  Pairs,                 \* pairs of blocks compared, records of symbols and statements
  Population,            \* the other blocks of the file
  TokenKey,              \* the content key of each symbol
  ContentSymbols,        \* the names and literal values among the symbols
  HashBits,              \* 32 in the addon
  NgramSize, MinTokens, MinSimilarityPercent, MaxAnchorGapTokens

VARIABLES
  left, right,  \* the compared blocks
  step,         \* what comes next
  verdict,      \* how they matched
  compared      \* per match, the two sequences whose common tokens are marked, by side

vars == <<left, right, step, verdict, compared>>

MinContentSimilarityPercent == 50
MaxContentWeight == 3
MinAnchorCoveragePercent == 50
MinReorderStatementCount == 2
BlindIdentifier == -1

Slice(s, start, end) == SubSeq(s, start + 1, end)
IsIdentifier(symbol) == symbol < 0

SeqLess(s, t) ==
  LET differ == {i \in 1..Min({Len(s), Len(t)}) : s[i] # t[i]}
  IN IF differ = {} THEN Len(s) < Len(t) ELSE s[Min(differ)] < t[Min(differ)]

-----------------------------------------------------------------------------
(* Identifiers are numbered by their first occurrence in the range. *)
Anonymized(symbols) ==
  LET upToFirst(i) == 1..Min(Positions(symbols, symbols[i]))
  IN [i \in DOMAIN symbols |->
        IF ~IsIdentifier(symbols[i]) THEN symbols[i]
        ELSE -Cardinality({s \in {symbols[j] : j \in upToFirst(i)} : IsIdentifier(s)})]

(* What a range reads like wherever it lies. *)
Written(symbols) ==
  LET numbered == Anonymized(symbols)
  IN [i \in DOMAIN numbered |->
        IF IsIdentifier(numbered[i]) THEN numbered[i] ELSE TokenKey[numbered[i]]]

(* Hashes wrap; different n-grams may share one. *)
NgramHash(ngram) ==
  FoldLeft(LAMBDA hash, s : (hash * 31 + IF IsIdentifier(s) THEN BlindIdentifier ELSE TokenKey[s])
                            % 2^HashBits, 5381, ngram)
HashAt(symbols, offset) == NgramHash(Slice(symbols, offset, offset + NgramSize))
NgramOffsets(symbols) == 0..(Len(symbols) - NgramSize)
UniqueNgrams(symbols) ==
  {o \in NgramOffsets(symbols) :
     \A p \in NgramOffsets(symbols) \ {o} : HashAt(symbols, p) # HashAt(symbols, o)}

(* The block's statements and what stands between them. *)
Units(block) ==
  LET bounds == Ascending({0, Len(block.symbols)} \cup UNION {{s[1], s[2]} : s \in ToSet(block.statements)})
  IN {<<bounds[i], bounds[i + 1]>> : i \in 1..(Len(bounds) - 1)}

Canonical(block) ==
  LET text(unit) == Slice(block.symbols, unit[1], unit[2])
      before(u, v) == \/ SeqLess(Written(text(u)), Written(text(v)))
                      \/ Written(text(u)) = Written(text(v)) /\ u[1] < v[1]
      units == Arranged(Units(block), before)
  IN FlattenSeq([i \in DOMAIN units |-> Anonymized(text(units[i]))])

IsReorderable(block) == Len(block.statements) >= MinReorderStatementCount

-----------------------------------------------------------------------------
Log2(n) == Max({k \in 0..n : 2^k <= n})

AllBlocks == <<left, right>> \o Population
Weight(symbol) ==
  LET frequency == Cardinality({i \in DOMAIN AllBlocks : symbol \in ToSet(AllBlocks[i].symbols)})
  IN Min({MaxContentWeight, 1 + Log2((Len(AllBlocks) + 1) \div frequency)})

Count(symbols, symbol) == Cardinality(Positions(symbols, symbol))
Content(symbols) == ToSet(symbols) \cap ContentSymbols
ContentTotal(symbols) == MapThenSumSet(LAMBDA s : Weight(s) * Count(symbols, s), Content(symbols))

(* More than half of the larger side's weighted names and values. *)
ShareContent(s, t) ==
  LET overlap == MapThenSumSet(LAMBDA c : Weight(c) * Min({Count(s, c), Count(t, c)}),
                               Content(s) \cap Content(t))
  IN overlap * 100 > MinContentSimilarityPercent * Max({ContentTotal(s), ContentTotal(t)})

Required(s, t) == MinSimilarityPercent * Max({Len(s), Len(t)})
Similar(s, t) == LcsLength(s, t) * 100 >= Required(s, t)
MayBeSimilar(s, t) == Min({Len(s), Len(t)}) * 100 >= Required(s, t)

-----------------------------------------------------------------------------
(* Pairs of offsets of an n-gram unique in both blocks, next to another such pair on its *)
(* diagonal: one shared n-gram alone may be a coincidence.                               *)
RunAnchors(l, r) ==
  LET anchors == {a \in UniqueNgrams(l) \X UniqueNgrams(r) : HashAt(l, a[1]) = HashAt(r, a[2])}
      beside(a, k) == <<a[1] + k, a[2] + k>> \in anchors
  IN {a \in anchors : beside(a, -1) \/ beside(a, 1)}

(* Variant: an anchor may follow one that starts at the same offset or later in the right block. *)
ExtendedByAnyTail(sorting, anchors, i) ==
  LET p == Len(sorting.tails)
  IN [tails |-> Append(sorting.tails, i),
      before |-> Append(sorting.before, IF p = 0 THEN 0 ELSE sorting.tails[p])]

(* Patience sorting: the tail of the longest chain of each length, and what each anchor follows. *)
Extended(sorting, anchors, i) ==
  LET p == Cardinality({t \in DOMAIN sorting.tails : anchors[sorting.tails[t]][2] < anchors[i][2]})
  IN [tails |-> IF p = Len(sorting.tails) THEN Append(sorting.tails, i)
                ELSE ReplaceAt(sorting.tails, p + 1, i),
      before |-> Append(sorting.before, IF p = 0 THEN 0 ELSE sorting.tails[p])]

LongestChain(anchors) ==
  LET sorting == FoldLeftDomain(LAMBDA acc, i : Extended(acc, anchors, i),
                                [tails |-> <<>>, before |-> <<>>], anchors)
      back[i \in 0..Len(anchors)] ==
        IF i = 0 THEN <<>> ELSE Append(back[sorting.before[i]], anchors[i])
  IN IF anchors = <<>> THEN <<>> ELSE back[Last(sorting.tails)]

Chain(l, r) == LongestChain(Arranged(RunAnchors(l, r), LAMBDA a, c : a[1] < c[1]))

(* Anchors far apart in either block delimit cores of their own. *)
Segments(chain) ==
  LET far(i) == \E side \in {1, 2} :
                  chain[i][side] > chain[i - 1][side] + NgramSize + MaxAnchorGapTokens
      starts == Ascending({i \in DOMAIN chain : i = 1 \/ far(i)})
  IN [k \in DOMAIN starts |->
        SubSeq(chain, starts[k], IF k = Len(starts) THEN Len(chain) ELSE starts[k + 1] - 1)]

AnchoredTokens(segment) ==
  FoldLeftDomain(LAMBDA sum, i : sum + IF i = 1 THEN NgramSize
                                       ELSE Min({NgramSize, segment[i][1] - segment[i - 1][1]}),
                 0, segment)

CoreSide(segment, side) == <<segment[1][side], Last(segment)[side] + NgramSize>>
Core(segment) == [left |-> CoreSide(segment, 1), right |-> CoreSide(segment, 2)]
CoreText(symbols, range) == Slice(symbols, range[1], range[2])

(* A core is a copy with edits in its own right. *)
IsCore(l, r, segment) ==
  LET s == CoreText(l, CoreSide(segment, 1))
      t == CoreText(r, CoreSide(segment, 2))
      shorter == Min({Len(s), Len(t)})
  IN /\ shorter >= MinTokens /\ MayBeSimilar(s, t)
     /\ AnchoredTokens(segment) * 100 >= MinAnchorCoveragePercent * shorter
     /\ ShareContent(s, t)
     /\ Similar(Anonymized(s), Anonymized(t))

Cores(segments) == [k \in DOMAIN segments |-> Core(segments[k])]
LocalCores(l, r) ==
  Cores(SelectSeq(Segments(Chain(l, r)), LAMBDA segment : IsCore(l, r, segment)))

-----------------------------------------------------------------------------
Whole(reordered) == [how |-> "whole", reordered |-> reordered]
Local(cores) == [how |-> "local", cores |-> cores]
NoMatch == [how |-> "none"]
Mirrored(cores) == [k \in DOMAIN cores |-> [left |-> cores[k].right, right |-> cores[k].left]]

(* Variant: cores are looked for from the block that comes first in the file. *)
FirstBlockFirst(l, r) == TRUE

(* Of equally long chains the one found depends on the side it is looked for from, so that *)
(* side is the one that reads lower.                                                       *)
TakesLeftFirst(l, r) == ~SeqLess(Written(r), Written(l))

Match(l, r) ==
  LET candidate == /\ MayBeSimilar(l.symbols, r.symbols)
                   /\ ShareContent(l.symbols, r.symbols)
      cores == IF TakesLeftFirst(l.symbols, r.symbols) THEN LocalCores(l.symbols, r.symbols)
               ELSE Mirrored(LocalCores(r.symbols, l.symbols))
  IN CASE candidate /\ Similar(Anonymized(l.symbols), Anonymized(r.symbols)) -> Whole(FALSE)
       [] /\ candidate /\ ~Similar(Anonymized(l.symbols), Anonymized(r.symbols))
          /\ IsReorderable(l) /\ IsReorderable(r)
          /\ Similar(Canonical(l), Canonical(r)) -> Whole(TRUE)
       [] OTHER -> IF cores = <<>> THEN NoMatch ELSE Local(cores)

(* Variant: the tokens of reordered blocks are marked in the order they are written. *)
ComparedAsWritten(block, matched) == Anonymized(block.symbols)

(* What a match of whole blocks compared. *)
ComparedText(block, matched) ==
  IF matched.reordered THEN Canonical(block) ELSE Anonymized(block.symbols)

(* The sequences whose common tokens are marked, the side that reads lower first. *)
Ordered(s, t, leftText, rightText) ==
  [first |-> IF SeqLess(Written(rightText), Written(leftText)) THEN t ELSE s,
   second |-> IF SeqLess(Written(rightText), Written(leftText)) THEN s ELSE t]

Alignments(l, r, matched) ==
  CASE matched.how = "none" -> <<>>
    [] matched.how = "whole" ->
         <<Ordered(ComparedText(l, matched), ComparedText(r, matched), l.symbols, r.symbols)>>
    [] matched.how = "local" ->
         [k \in DOMAIN matched.cores |->
            LET s == CoreText(l.symbols, matched.cores[k].left)
                t == CoreText(r.symbols, matched.cores[k].right)
            IN Ordered(Anonymized(s), Anonymized(t), s, t)]

Init ==
  /\ \E pair \in Pairs : left = pair[1] /\ right = pair[2]
  /\ step = "verify" /\ verdict = NoMatch /\ compared = <<>>

Verify ==
  /\ step = "verify"
  /\ verdict' = Match(left, right)
  /\ step' = "align"
  /\ UNCHANGED <<left, right, compared>>

Align ==
  /\ step = "align"
  /\ compared' = Alignments(left, right, verdict)
  /\ step' = "done"
  /\ UNCHANGED <<left, right, verdict>>

Finished == step = "done" /\ UNCHANGED vars
Next == Verify \/ Align \/ Finished
Spec == Init /\ [][Next]_vars

-----------------------------------------------------------------------------
(* The verdict and the tokens it marks do not depend on which block comes first in the    *)
(* file: the same pair in the other order gives the same match, its sides swapped          *)
(* (verify, match_locally, align).                                                         *)
VerdictIsSymmetric ==
  step = "done" =>
    LET back == Match(right, left)
    IN /\ back = IF verdict.how = "local" THEN Local(Mirrored(verdict.cores)) ELSE verdict
       /\ Alignments(right, left, back) = compared

(* The anchors a local match is built on are a longest chain increasing in both blocks    *)
(* (longest_increasing_chain).                                                             *)
ChainIsLongest ==
  step = "verify" =>
    LET chain == Chain(left.symbols, right.symbols)
        anchors == RunAnchors(left.symbols, right.symbols)
        increasing(set) == \A a, c \in set : a # c => (a[1] < c[1] /\ a[2] < c[2]) \/ (c[1] < a[1] /\ c[2] < a[2])
    IN /\ ToSet(chain) \subseteq anchors /\ increasing(ToSet(chain))
       /\ Len(chain) < Cardinality(anchors) =>
            \A set \in SUBSET anchors : increasing(set) => Cardinality(set) <= Len(chain)

(* The tokens marked for a match bear it out: what is aligned is what was found similar,  *)
(* so the marked tokens reach the required share of the longer side, and every core is     *)
(* long enough to be reported (verify, match_locally, align, compared).                    *)
MarkedTokensBearTheMatchOut ==
  step = "done" =>
    /\ (compared = <<>>) = (verdict = NoMatch)
    /\ \A k \in DOMAIN compared :
         LET s == compared[k].first
             t == compared[k].second
         IN /\ CommonLength(s, t) * 100 >= MinSimilarityPercent * Max({Len(s), Len(t)})
            /\ verdict.how = "local" => Len(s) >= MinTokens /\ Len(t) >= MinTokens
=============================================================================
