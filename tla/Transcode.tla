----------------------------- MODULE Transcode -----------------------------
(***************************************************************************)
(* The transformations of data under a key (transcode.c): one pass, the    *)
(* pass that decodes under one key while it encodes the source under       *)
(* another, a byte per step, and the transcoding by another generator.     *)
(*                                                                         *)
(* Words are WordBits wide; the shifts are scaled to that, the multipliers *)
(* are constants.  The vectors are cleared at the end of the code's        *)
(* functions; nothing reads them again.                                    *)
(***************************************************************************)
EXTENDS Bits

CONSTANTS
    Cells,              \* the words of a generator's state: 16
    CA, CB, CC, CD      \* its odd multipliers

ASSUME TranscodeAssumption == Cells \in Nat \ {0} /\ {CA, CB, CC, CD} \subseteq 0 .. Ones

VARIABLES
    origin,      \* the source as it was given
    key1, key2,
    from, to,    \* the source, and what was decoded
    v1, v2,      \* the states of the two generators
    p1, p2,      \* where they stand
    cross        \* "running" or "done"

crossVars == <<origin, key1, key2, from, to, v1, v2, p1, p2, cross>>

Scale(n) == (n * WordBits) \div 64

Mixed(key) ==
    LET a == ((key ^^ Shr(key, Scale(30))) * CB) % Word
        b == ((a ^^ Shr(a, Scale(27))) * CC) % Word
    IN  b ^^ Shr(b, Scale(31))

Seeded(key) == [i \in 0 .. (Cells - 1) |-> Mixed((key + (i + 1) * CA) % Word)]

Step(p) == (p + 1) % Cells

Drawn(v, p) ==
    LET s0 == v[p]
        x == sm_shuffle(v[Step(p)])
        s1 == x ^^ Shl(x, Scale(31))
    IN  [v EXCEPT ![Step(p)] = (s1 ^^ s0) ^^ (Shr(s1, Scale(11)) ^^ Shr(s0, Scale(30)))]

Key(v, p) == sm_fold((v[p] * CD) % Word)

RECURSIVE PassFrom(_, _, _, _)
PassFrom(data, i, v, p) ==
    IF i > Len(data) THEN data
    ELSE LET w == Drawn(v, p)
         IN  PassFrom([data EXCEPT ![i] = @ ^^ Key(w, Step(p))], i + 1, w, Step(p))

sm_xor_pass(data, key) == PassFrom(data, 1, Seeded(key), 0)

CrossInit(Data, Keys1, Keys2) ==
    /\ origin \in Data /\ key1 \in Keys1 /\ key2 \in Keys2
    /\ from = origin /\ to = <<>>
    /\ v1 = Seeded(key1) /\ v2 = Seeded(key2) /\ p1 = 0 /\ p2 = 0
    /\ cross = "running"

\* A mutant: the source is put under the new key as it stands.
RecodeEncoded(plain, byte, k) == byte ^^ k
Recode(plain, byte, k) == plain ^^ k

CrossByte ==
    LET i == Len(to) + 1
        w1 == Drawn(v1, p1)
        w2 == Drawn(v2, p2)
        plain == from[i] ^^ Key(w1, Step(p1))
    IN  /\ cross = "running" /\ i <= Len(from)
        /\ v1' = w1 /\ v2' = w2 /\ p1' = Step(p1) /\ p2' = Step(p2)
        /\ to' = Append(to, plain)
        /\ from' = [from EXCEPT ![i] = Recode(plain, @, Key(w2, Step(p2)))]
        /\ UNCHANGED <<origin, key1, key2, cross>>

CrossEnds ==
    /\ cross = "running" /\ Len(to) = Len(from)
    /\ cross' = "done"
    /\ UNCHANGED <<origin, key1, key2, from, to, v1, v2, p1, p2>>

CrossNext == CrossByte \/ CrossEnds

(***************************************************************************)
(* sm_transcode, over the words q the generator of the caller draws.       *)
(***************************************************************************)
Index(q) == ByteOf(q, 0) % Bytes
Direction(q) == sm_is_bit_set(sm_yellow(q), (sm_shuffle(q) % 2 ^ ByteBits) % WordBits)
Count(q) == ByteOf(q, Bytes \div 2) % ByteBits

Turn(b, q, left) == IF left THEN Rotl(b, Count(q), ByteBits) ELSE Rotr(b, Count(q), ByteBits)

\* A mutant: it turns the way the encoder did.
DecodeOneForth(b, q) == Turn(b, q, Direction(q)) ^^ ByteOf(q, Index(q))

EncodeOne(b, q) == Turn(b ^^ ByteOf(q, Index(q)), q, Direction(q))
DecodeOne(b, q) == Turn(b, q, ~Direction(q)) ^^ ByteOf(q, Index(q))

(***************************************************************************)
(* Properties.                                                             *)
(***************************************************************************)
\* At every byte of the cross pass, what was decoded is what a pass under
\* the first key gives, the source up to there is that under the second key,
\* and the rest is as it was: two copies of the generator that must never
\* run apart (sm_xor_cross 66-137, sm_xor_pass 22-56).
CrossIsTwoPasses ==
    LET n == Len(to)
    IN  /\ to = SubSeq(sm_xor_pass(origin, key1), 1, n)
        /\ SubSeq(from, 1, n) = SubSeq(sm_xor_pass(sm_xor_pass(origin, key1), key2), 1, n)
        /\ SubSeq(from, n + 1, Len(from)) = SubSeq(origin, n + 1, Len(origin))

\* Decoding undoes encoding, byte by byte, whatever the generator draws
\* (sm_transcode 171-204).
TranscodeInverts ==
    cross = "done" => \A b \in 0 .. (2 ^ ByteBits - 1) : DecodeOne(EncodeOne(b, key1), key1) = b

\* The transforms bits.h calls invertible are, and the counts count (bits.h).
BitsPromise == cross = "done" => BitsAsPromised(key1, key2)

\* What is turned, shuffled and encoded can be turned back.
TransformsInvert == TranscodeInverts /\ BitsPromise
=============================================================================
