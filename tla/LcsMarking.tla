----------------------------- MODULE LcsMarking -----------------------------
(***************************************************************************)
(* Which tokens of two sequences a longest common subsequence pairs        *)
(* (near_miss.rs mark_lcs): divide and conquer over the bit-parallel       *)
(* recurrence, which yields lengths but no pairing.                        *)
(***************************************************************************)
EXTENDS Lcs

CONSTANT Sequences  \* the sequences compared, sequences of symbols

VARIABLES
  a, b,       \* the compared sequences
  todo,       \* the pairs of ranges still to mark, the next one first
  aMatched,   \* the positions marked so far
  bMatched

markingVars == <<a, b, todo, aMatched, bMatched>>

(* Half a pair of ranges, as the last position before it and its last position. *)
Part(aStart, aEnd, bStart, bEnd) ==
  [aStart |-> aStart, aEnd |-> aEnd, bStart |-> bStart, bEnd |-> bEnd]
InA(part) == SubSeq(a, part.aStart + 1, part.aEnd)
InB(part) == SubSeq(b, part.bStart + 1, part.bEnd)
Shorter(part) == Min({part.aEnd - part.aStart, part.bEnd - part.bStart})

MarkingInit ==
  /\ a \in Sequences /\ b \in Sequences
  /\ todo = <<Part(0, Len(a), 0, Len(b))>>
  /\ aMatched = {} /\ bMatched = {}

(* How many symbols both begin with, and how many both end with after those. *)
CommonPrefixLength(part) ==
  Max({k \in 0..Shorter(part) : \A i \in 1..k : a[part.aStart + i] = b[part.bStart + i]})
CommonSuffixLength(part, prefix) ==
  Max({k \in 0..(Shorter(part) - prefix) :
         \A i \in 0..(k - 1) : a[part.aEnd - i] = b[part.bEnd - i]})

(* Some longest common subsequence pairs a common prefix and a common suffix. *)
Stripped(part) ==
  LET prefix == CommonPrefixLength(part)
      suffix == CommonSuffixLength(part, prefix)
  IN Part(part.aStart + prefix, part.aEnd - suffix, part.bStart + prefix, part.bEnd - suffix)

(* Variant: b is split in its middle, like a. *)
SplitInTheMiddle(head, tail, inB) == Len(inB) \div 2

(* Where to split b for the two halves of a, the first of the best splits. *)
BestSplit(head, tail, inB) ==
  LET forward == PrefixLengths(head, inB)
      backward == PrefixLengths(Reverse(tail), Reverse(inB))
      shared(split) == forward[split] + backward[Len(inB) - split]
      best == Max({shared(split) : split \in 0..Len(inB)})
  IN Min({split \in 0..Len(inB) : shared(split) = best})

Mark(part, rest, pairedA, pairedB, parts) ==
  /\ aMatched' = aMatched \cup ((part.aStart + 1)..rest.aStart) \cup ((rest.aEnd + 1)..part.aEnd) \cup pairedA
  /\ bMatched' = bMatched \cup ((part.bStart + 1)..rest.bStart) \cup ((rest.bEnd + 1)..part.bEnd) \cup pairedB
  /\ todo' = parts \o Tail(todo)
  /\ UNCHANGED <<a, b>>

(* Nothing is left of one side, or one symbol of a, which pairs with its first occurrence. *)
MarkLast ==
  /\ todo # <<>>
  /\ LET rest == Stripped(Head(todo))
         partners == {i \in (rest.bStart + 1)..rest.bEnd : b[i] = a[rest.aEnd]}
     IN \/ /\ Shorter(rest) = 0
           /\ Mark(Head(todo), rest, {}, {}, <<>>)
        \/ /\ Shorter(rest) > 0 /\ rest.aEnd - rest.aStart = 1
           /\ Mark(Head(todo), rest, IF partners = {} THEN {} ELSE {rest.aEnd},
                   IF partners = {} THEN {} ELSE {Min(partners)}, <<>>)

Split ==
  /\ todo # <<>>
  /\ LET rest == Stripped(Head(todo))
         middle == rest.aStart + (rest.aEnd - rest.aStart) \div 2
         split == rest.bStart + BestSplit(SubSeq(a, rest.aStart + 1, middle),
                                          SubSeq(a, middle + 1, rest.aEnd), InB(rest))
     IN /\ Shorter(rest) > 0 /\ rest.aEnd - rest.aStart > 1
        /\ Mark(Head(todo), rest, {}, {},
                <<Part(rest.aStart, middle, rest.bStart, split),
                  Part(middle, rest.aEnd, split, rest.bEnd)>>)

Marked == todo = <<>> /\ UNCHANGED markingVars
MarkingNext == MarkLast \/ Split \/ Marked
MarkingSpec == MarkingInit /\ [][MarkingNext]_markingVars

-----------------------------------------------------------------------------
Selected(s, positions) == LET at == Ascending(positions) IN [i \in DOMAIN at |-> s[at[i]]]

(* The recurrence counts what the definition defines for the whole of b and every prefix *)
(* of a, however its carries and borrows cross the words (lcs_growth_bits, lcs_length;    *)
(* the JavaScript port relies on the same recurrence with 32-bit words).                  *)
GrowthBitsCountCommonSymbols ==
  todo = <<Part(0, Len(a), 0, Len(b))>> =>
    LET bits == GrowthBits(a, b)
    IN \A end \in 0..Len(a) :
         Cardinality({i \in 1..end : HasBit(bits, i)}) = CommonLength(SubSeq(a, 1, end), b)

(* At every moment the marked tokens of the two sides read the same, and together with    *)
(* what the remaining parts can still pair they make a longest common subsequence: no     *)
(* choice of a prefix, a suffix, a single pair or a split gives any of it away            *)
(* (mark_lcs_into).                                                                       *)
MarkingKeepsTheLongest ==
  /\ Selected(a, aMatched) = Selected(b, bMatched)
  /\ Cardinality(aMatched)
       + FoldLeft(LAMBDA sum, part : sum + CommonLength(InA(part), InB(part)), 0, todo)
     = CommonLength(a, b)
=============================================================================
