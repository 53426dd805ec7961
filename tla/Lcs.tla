-------------------------------- MODULE Lcs --------------------------------
(***************************************************************************)
(* Longest common subsequences by the bit-parallel recurrence of Allison   *)
(* and Dix, over machine words (near_miss.rs), against their definition.   *)
(***************************************************************************)
EXTENDS Integers, Bitwise, FiniteSetsExt, SequencesExt, Arrangements

CONSTANT WordBits  \* 64 in the addon, 32 in its JavaScript port

ASSUME WordAssumption == WordBits \in Nat \ {0}

Words(length) == (length + WordBits - 1) \div WordBits
WordValue == 2^WordBits

(* The words of a bit vector; position i of a sequence has bit i - 1. *)
BitVector(bits, length) ==
  [w \in 1..Words(length) |->
     MapThenSumSet(LAMBDA i : 2^(i - 1 - (w - 1) * WordBits),
                   bits \cap ((w - 1) * WordBits + 1)..(w * WordBits))]
HasBit(v, i) == (v[(i - 1) \div WordBits + 1] \div 2^((i - 1) % WordBits)) % 2 = 1
Zeros(length) == BitVector({}, length)

Positions(a, symbol) == {i \in DOMAIN a : a[i] = symbol}

(* Variant: a borrow stays in its word. *)
NextWordWithoutBorrow(row, previous, matches) ==
  LET x == matches | previous
      shifted == ((2 * previous) % WordValue) + row.carry
      partial == (x - shifted) % WordValue
      difference == partial
  IN [words |-> Append(row.words, x - (x & difference)),
      carry |-> previous \div 2^(WordBits - 1), borrow |-> 0]

(* One word of a row: the shift carries into the next word and the subtraction borrows from it. *)
NextWord(row, previous, matches) ==
  LET x == matches | previous
      shifted == ((2 * previous) % WordValue) + row.carry
      partial == (x - shifted) % WordValue
      difference == (partial - row.borrow) % WordValue
  IN [words |-> Append(row.words, x - (x & difference)),
      carry |-> previous \div 2^(WordBits - 1),
      borrow |-> IF x < shifted \/ partial < row.borrow THEN 1 ELSE 0]

NextRow(a, v, symbol) ==
  LET matches == BitVector(Positions(a, symbol), Len(a))
  IN FoldLeftDomain(LAMBDA row, w : NextWord(row, v[w], matches[w]),
                    [words |-> <<>>, carry |-> 1, borrow |-> 0], v).words

(* One bit per position of a, set where the prefix ending there shares one symbol more. *)
GrowthBits(a, symbols) ==
  FoldLeft(LAMBDA v, symbol : NextRow(a, v, symbol), Zeros(Len(a)), symbols)

LcsLength(a, b) ==
  LET bits == GrowthBits(a, b) IN Cardinality({i \in DOMAIN a : HasBit(bits, i)})

(* The length for every prefix of b, by the length of the prefix. *)
PrefixLengths(a, b) ==
  LET bits == GrowthBits(b, a)
  IN [end \in 0..Len(b) |-> Cardinality({i \in 1..end : HasBit(bits, i)})]

-----------------------------------------------------------------------------
(* What the recurrence must compute: the longest sequence that is a subsequence of both. *)
CommonLength(a, b) ==
  LET common[i \in 0..Len(a), j \in 0..Len(b)] ==
        IF i = 0 \/ j = 0 THEN 0
        ELSE IF a[i] = b[j] THEN common[i - 1, j - 1] + 1
        ELSE Max({common[i - 1, j], common[i, j - 1]})
  IN common[Len(a), Len(b)]
=============================================================================
