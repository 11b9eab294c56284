-------------------------------- MODULE Bits --------------------------------
(***************************************************************************)
(* The bit manipulation of bits.h, for words of WordBits bits (64 in the   *)
(* code) and bytes of ByteBits (8).  What the code does with one line per  *)
(* width is a loop over the distances here; its masks are the ones below.  *)
(***************************************************************************)
EXTENDS Integers, Sequences, SequencesExt, FiniteSets, Bitwise

CONSTANTS WordBits, ByteBits

\* The number of bytes of a word is a power of two.
ASSUME WordAssumption ==
    /\ WordBits \in Nat /\ ByteBits \in Nat \ {0}
    /\ \E k \in 1 .. WordBits : WordBits = 2 ^ k
    /\ \E k \in 1 .. WordBits : WordBits = ByteBits * 2 ^ k

Word == 2 ^ WordBits
Shl(v, c) == (v * 2 ^ c) % Word
Shr(v, c) == v \div 2 ^ c
Ones == Word - 1

\* The distances WordBits / 2, ..., 2, 1.
Halves == [i \in 1 .. (CHOOSE k \in 1 .. WordBits : WordBits = 2 ^ k) |-> WordBits \div 2 ^ i]
Distances == ToSet(Halves)

\* The bits j of a word with P(j).
Mask(P(_)) ==
    FoldLeft(LAMBDA m, j : m + IF P(j) THEN 2 ^ j ELSE 0, 0, [j \in 1 .. WordBits |-> j - 1])

ByteOf(v, i) == Shr(v, i * ByteBits) % 2 ^ ByteBits
Bytes == WordBits \div ByteBits

sm_fold(v) == FoldLeft(LAMBDA x, i : x ^^ ByteOf(v, i - 1), 0, [i \in 1 .. Bytes |-> i])

Rotl(n, c, bits) ==
    LET k == c % bits IN ((n * 2 ^ k) % 2 ^ bits) | (n \div 2 ^ ((bits - k) % bits))

Rotr(n, c, bits) ==
    LET k == c % bits IN (n \div 2 ^ k) | ((n * 2 ^ ((bits - k) % bits)) % 2 ^ bits)

\* 0x..FFFF0000, 0x..FF00, ..., 0x..2222
Blocks == [s \in Distances |-> Mask(LAMBDA j : (j \div s) % 4 = 1)]

sm_shuffle(v) ==
    FoldLeft(LAMBDA x, s : LET t == (x ^^ Shr(x, s)) & Blocks[s] IN (x ^^ t) ^^ Shl(t, s),
             v, Tail(Halves))

\* 0x3333.., 0x0F0F.., ...: the lower half of every 4 s bits
Halved == [s \in Distances |-> Mask(LAMBDA j : (j \div (2 * s)) % 2 = 0)]

\* Every other bit, moved together.
Together(v) ==
    FoldLeft(LAMBDA x, s : (x | Shr(x, s)) & Halved[s],
             v & Mask(LAMBDA j : j % 2 = 0), Reverse(Tail(Halves)))

sm_unzip(v) == Together(v) | Shl(Together(Shr(v, 1)), WordBits \div 2)

\* The colour codes take the lower or the upper half of every 2 s bits.
Lower == [s \in Distances |-> Mask(LAMBDA j : (j \div s) % 2 = 0)]
Upper == [s \in Distances |-> Ones - Lower[s]]

sm_yellow(v) == FoldLeft(LAMBDA x, s : x ^^ Shl(x & Lower[s], s), v, Halves)
sm_blue(v) == FoldLeft(LAMBDA x, s : x ^^ Shr(x & Upper[s], s), v, Halves)

sm_green(v) ==
    FoldLeft(LAMBDA x, s : LET t == x & Upper[s]
                               u == x ^^ t
                           IN  (u ^^ Shr(t, s)) ^^ Shl(u, s),
             v, Halves)

sm_red(v) ==
    FoldLeft(LAMBDA x, s : LET t == x & Lower[s]
                               u == x ^^ t
                           IN  (u ^^ Shl(t, s)) ^^ Shr(u, s),
             v, Halves)

sm_inv_rev_gray(v) == FoldLeft(LAMBDA x, s : x ^^ Shl(x, s), v, Reverse(Halves))

sm_is_bit_set(v, i) == Shr(v, i) % 2 = 1

sm_swap(v) ==
    FoldLeft(LAMBDA x, i : x | Shl(ByteOf(v, i - 1), (Bytes - i) * ByteBits), 0, [i \in 1 .. Bytes |-> i])

sm_next_even(v) == ((v | 1) + 1) % Word
sm_prev_even(v) == ((v - 1) % Word) & (Ones - 1)
sm_next_odd(v) == ((v + 1) % Word) | 1
sm_prev_odd(v) == ((v & (Ones - 1)) - 1) % Word
sm_average(x, y) == (x & y) + Shr(x ^^ y, 1)

\* floor(v * n / 2^32), of words half as wide.
sm_reduce(v, n) == (v * n) \div 2 ^ (WordBits \div 2)

\* Bits are counted two by two, four by four and so on.
Pairs(v) ==
    FoldLeft(LAMBDA x, s : (x & Lower[s]) + (Shr(x, s) & Lower[s]), v, Reverse(Halves))

sm_bit_count(v) == Pairs(v)
sm_bit_blocks(v) == (v & 1) + Pairs(v ^^ Shr(v, 1)) \div 2

(***************************************************************************)
(* What the comments of bits.h promise of a word and of one more.          *)
(***************************************************************************)
BitAt(v, j) == Shr(v, j) % 2
CountBits(v) == FoldLeft(LAMBDA n, j : n + BitAt(v, j - 1), 0, [j \in 1 .. WordBits |-> j])

\* The j-th bit goes where a perfect shuffle takes it.
Shuffled(v) ==
    FoldLeft(LAMBDA x, j : x + BitAt(v, j) * 2 ^ (IF j < WordBits \div 2 THEN 2 * j ELSE 2 * j - WordBits + 1),
             0, [j \in 1 .. WordBits |-> j - 1])

BitsAsPromised(v, w) ==
    /\ sm_shuffle(v) = Shuffled(v) /\ sm_unzip(sm_shuffle(v)) = v
    /\ sm_yellow(sm_yellow(v)) = v /\ sm_blue(sm_blue(v)) = v
    /\ sm_red(sm_green(v)) = v /\ sm_green(sm_red(v)) = v
    /\ sm_inv_rev_gray(v ^^ Shl(v, 1)) = v
    /\ sm_swap(sm_swap(v)) = v
    /\ \A c \in 0 .. WordBits :
        Rotr(Rotl(v, c, WordBits), c, WordBits) = v /\ CountBits(Rotl(v, c, WordBits)) = CountBits(v)
    /\ sm_bit_count(v) = CountBits(v)
    /\ sm_bit_blocks(v) =
        Cardinality({j \in 0 .. (WordBits - 1) :
                        BitAt(v, j) = 1 /\ (j = WordBits - 1 \/ BitAt(v, j + 1) = 0)})
    /\ sm_average(v, w) = (v + w) \div 2
    /\ LET h == 2 ^ (WordBits \div 2) IN w % h > 0 => sm_reduce(v % h, w % h) < w % h
    /\ LET odd == v % 2
       IN  /\ sm_next_even(v) = (v + 2 - odd) % Word /\ sm_prev_even(v) = (v - 2 + odd) % Word
           /\ sm_next_odd(v) = (v + 1 + odd) % Word /\ sm_prev_odd(v) = (v - 1 - odd) % Word
=============================================================================
