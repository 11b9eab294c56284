------------------------------- MODULE Codec -------------------------------
(***************************************************************************)
(* The compressor and decompressor (precursors/cmp.c).  The compressor is  *)
(* a machine that takes one turn of its loop per step; the decompressor    *)
(* and the computation of its size are recursive operators.                *)
(*                                                                         *)
(* A byte of input is one of Base values.  A cell of output is a byte that *)
(* was written as what it stands for: the head of a run of literals, a     *)
(* literal, the head of a reference with the high part of its offset, an   *)
(* additional length, or the low part of an offset.  Indices are from 0.   *)
(***************************************************************************)
EXTENDS Integers, Sequences, SequencesExt

CONSTANTS
    Base,      \* values of a byte; the hash table has Base^2 places
    RunMax,    \* literals under one head: 0x20
    LongLen,   \* the length that needs a byte more: 7
    MatchMax,  \* the longest match: 0x108
    Window,    \* offsets are below it: 0x2000
    SrcLen     \* the longest input

ASSUME CodecAssumption == Base \in Nat \ {0} /\ 2 < LongLen /\ LongLen < MatchMax

VARIABLES
    src,      \* the input
    room,     \* *dlen: the room for output
    ip, op,   \* where the next byte is read and the next cell written
    lt,       \* literals written since their head was left open
    ht,       \* where a trigram was seen last, or -1
    out,      \* the cells written
    at        \* "loop", "tail", and then "done" (0) or "no room" (1)

codecVars == <<src, room, ip, op, lt, ht, out, at>>

ie == Len(src)
Byte(i) == src[i + 1]
Bit(b) == IF b THEN 1 ELSE 0

Place(i) ==
    ((Byte(i) * Base + Byte(i + 1)) - (Byte(i + 1) * Base + Byte(i + 2))) % (Base * Base)

LitHead(n) == [kind |-> "run", n |-> n]
Literal(b) == [kind |-> "literal", n |-> b]
RefHead(n) == [kind |-> "reference", n |-> n]
More(n) == [kind |-> "more", n |-> n]
Offset(n) == [kind |-> "offset", n |-> n]

\* cells written from place i on, over what was there
Write(o, i, cells) ==
    [j \in DOMAIN o \cup (i .. (i + Len(cells) - 1)) |->
        IF j \in i .. (i + Len(cells) - 1) THEN cells[j - i + 1] ELSE o[j]]

CodecInit(S, R) ==
    /\ src \in S /\ room \in R
    /\ ip = 0 /\ op = 1 /\ lt = 0
    /\ ht = [h \in 0 .. (Base * Base - 1) |-> -1]
    /\ out = <<>>
    /\ at = "loop"

\* A mutant: the hash is trusted for all but the first byte.
MatchesOne(rf) ==
    /\ rf < ip /\ ip - rf - 1 < Window /\ ip + 4 < ie /\ rf > 0
    /\ \A k \in {0} : Byte(rf + k) = Byte(ip + k)

\* The place seen last starts with the same three bytes, not too far back.
Matches(rf) ==
    /\ rf < ip /\ ip - rf - 1 < Window /\ ip + 4 < ie /\ rf > 0
    /\ \A k \in 0 .. 2 : Byte(rf + k) = Byte(ip + k)

\* How far the match goes.
Longest == IF ie - ip - 2 > MatchMax THEN MatchMax ELSE ie - ip - 2

MatchLength(rf) ==
    CHOOSE n \in 3 .. (IF Longest < 3 THEN 3 ELSE Longest) :
        /\ \A k \in 3 .. (n - 1) : Byte(rf + k) = Byte(ip + k)
        /\ n < Longest => Byte(rf + n) # Byte(ip + n)

\* The head of the open run is written; without literals it is written over.
CloseRun(o, where, n) == Write(o, where - n - 1, <<LitHead(n - 1)>>)

Reference(of, n) ==
    IF n < LongLen THEN <<RefHead(n), Offset(of)>>
    ELSE <<RefHead(LongLen), More(n - LongLen), Offset(of)>>

ReferenceFits == op - Bit(lt = 0) + 3 + 1 < room

InLoop == at = "loop" /\ ip + 2 < ie

Match ==
    LET h == Place(ip)
        n == MatchLength(ht[h]) - 2
        ref == Reference(ip - ht[h] - 1, n)
        closed == CloseRun(out, op, lt)
        from == op - Bit(lt = 0)
        next == ip + n + 1
    IN  /\ InLoop /\ Matches(ht[h])
        /\ ReferenceFits
        /\ out' = Write(closed, from, ref)
        /\ op' = from + Len(ref) + 1
        /\ lt' = 0
        /\ ip' = next + 1
        /\ at' = IF next + 3 >= ie THEN "tail" ELSE "loop"
        /\ ht' = IF next + 3 >= ie THEN [ht EXCEPT ![h] = ip]
                 ELSE [ht EXCEPT ![h] = ip, ![Place(next)] = next]
        /\ UNCHANGED <<src, room>>

MatchTooLong ==
    /\ InLoop /\ Matches(ht[Place(ip)]) /\ ~ReferenceFits
    /\ at' = "no room" /\ ht' = [ht EXCEPT ![Place(ip)] = ip]
    /\ UNCHANGED <<src, room, ip, op, lt, out>>

\* One literal, closing a full run and leaving room for the next head.
PutLiteral ==
    LET o == Write(out, op, <<Literal(Byte(ip))>>)
        full == lt + 1 = RunMax
    IN  /\ out' = IF full THEN CloseRun(o, op + 1, lt + 1) ELSE o
        /\ op' = op + 1 + Bit(full)
        /\ lt' = IF full THEN 0 ELSE lt + 1
        /\ ip' = ip + 1

TakeLiteral ==
    /\ InLoop /\ ~Matches(ht[Place(ip)])
    /\ op < room
    /\ PutLiteral
    /\ ht' = [ht EXCEPT ![Place(ip)] = ip]
    /\ UNCHANGED <<src, room, at>>

LiteralTooLong ==
    /\ InLoop /\ ~Matches(ht[Place(ip)]) /\ op >= room
    /\ at' = "no room" /\ ht' = [ht EXCEPT ![Place(ip)] = ip]
    /\ UNCHANGED <<src, room, ip, op, lt, out>>

\* A mutant: room for two of what is left.
TailFitsTwo == op + 2 <= room
TailFits == op + 3 <= room

LeaveLoop ==
    /\ at = "loop" /\ ip + 2 >= ie
    /\ at' = "tail"
    /\ UNCHANGED <<src, room, ip, op, lt, ht, out>>

\* The bytes that are left, at most two or three, and the last head.
RECURSIVE Rest(_, _, _, _)
Rest(o, p, n, i) ==
    IF i >= ie
    THEN [out |-> CloseRun(o, p, n), len |-> p - Bit(n = 0)]
    ELSE LET o2 == Write(o, p, <<Literal(Byte(i))>>)
         IN  IF n + 1 = RunMax THEN Rest(CloseRun(o2, p + 1, n + 1), p + 2, 0, i + 1)
             ELSE Rest(o2, p + 1, n + 1, i + 1)

FinishCompress ==
    /\ at = "tail"
    /\ IF TailFits
       THEN LET r == Rest(out, op, lt, ip)
            IN  /\ out' = r.out /\ op' = r.len /\ at' = "done" /\ ip' = ie /\ lt' = 0
       ELSE at' = "no room" /\ UNCHANGED <<out, op, ip, lt>>
    /\ UNCHANGED <<src, room, ht>>

CodecNext ==
    \/ Match \/ MatchTooLong \/ TakeLiteral \/ LiteralTooLong
    \/ LeaveLoop \/ FinishCompress

(***************************************************************************)
(* The decompressor, over a function from 0 .. n - 1 to cells.             *)
(***************************************************************************)
RECURSIVE CompressSize(_, _, _, _)
\* What the cells from i to n decompress to, or -1 where they end too soon.
CompressSize(z, n, i, total) ==
    IF i >= n THEN total
    ELSE IF z[i].kind = "run"
    THEN IF i + 1 + z[i].n + 1 > n THEN -1
         ELSE CompressSize(z, n, i + z[i].n + 2, total + z[i].n + 1)
    ELSE LET long == z[i].n = LongLen
             length == z[i].n + (IF long THEN z[i + 1].n ELSE 0) + 2
             off == i + 1 + Bit(long)
         IN  IF off >= n THEN -1 ELSE CompressSize(z, n, off + 1, total + length)

Back(d, distance) == Append(d, d[Len(d) - distance])

CopyBack(d, distance, n) == FoldLeft(LAMBDA x, k : Back(x, distance), d, [k \in 1 .. n |-> k])

Full(d) == [rc |-> 0, len |-> Len(d), dst |-> d]

\* No room: the size that was needed is computed and returned, from the cell
\* i that the caller has stepped back to.
Guess(z, n, i, d) ==
    LET left == CompressSize(z, n, i, 0)
    IN  [rc |-> IF left < 0 THEN 2 ELSE 0, len |-> left + Len(d), dst |-> d]

RECURSIVE Decompress(_, _, _, _, _)
Decompress(z, n, i, d, space) ==
    IF i >= n THEN Full(d)
    ELSE IF z[i].kind = "run"
    THEN LET ct == z[i].n + 1
             ip1 == i + 1
         IN  IF Len(d) + ct > space THEN Guess(z, n, ip1 - 1, d)
             ELSE Decompress(z, n, i + 1 + ct,
                             d \o [k \in 1 .. ct |-> z[i + k].n], space)
    ELSE LET long == z[i].n = LongLen
             ln == z[i].n + (IF long THEN z[i + 1].n ELSE 0) + 2
             off == i + 1 + Bit(long)
             back == IF ln >= LongLen + 2 THEN 2 ELSE 1
         IN  IF Len(d) + ln > space THEN Guess(z, n, off - back, d)
             ELSE Decompress(z, n, off + 1, CopyBack(d, z[off].n, ln), space)

(***************************************************************************)
(* Properties.                                                             *)
(***************************************************************************)
\* What was compressed comes out again (sec_compress 51-176, sec_decompress
\* 179-260), whatever room there was.
RoundTrip == at = "done" => Decompress(out, op, 0, <<>>, Len(src)) = Full(src)

\* The compressor writes nothing outside the room it was given, the head of
\* a run that stays open included (sec_compress 102, 142, 156).
WritesInside == DOMAIN out \subseteq 0 .. (room - 1)

\* Into too little room nothing false is decompressed: what was written is
\* the beginning of the input, and the length returned is the one needed.
ShortRoomReported ==
    at = "done" => \A space \in 0 .. (Len(src) - 1) :
        LET r == Decompress(out, op, 0, <<>>, space)
        IN  r.rc = 0 /\ r.len = Len(src) /\ Len(r.dst) <= space /\ IsPrefix(r.dst, src)

\* Into enough room and into too little, decompression tells the truth.
Decompresses == RoundTrip /\ ShortRoomReported
=============================================================================
