----------------------------- MODULE HeapProofs -----------------------------
(***************************************************************************)
(* What a sound space is, and what writing, joining, binning and disposing *)
(* of chunks of module Heap leave of one; and that it stays sound when its *)
(* first segment is given memory at its end or gives some up there.        *)
(***************************************************************************)
EXTENDS Heap, TLAPS, FiniteSetTheorems, SequenceTheorems, WellFoundedInduction

----------------------------------------------------------------------------
(* The chunks of the segments. *)

Header == [size : Nat \ {0}, cin : BOOLEAN, pin : BOOLEAN, foot : Nat]

Heads(C) ==
  /\ C = [a \in DOMAIN C |-> C[a]]
  /\ DOMAIN C \subseteq Nat \ {0}
  /\ \A a \in DOMAIN C : C[a] \in Header

\* The chunks that are not mappings of their own, and those nobody uses.
InHeap(C) == {a \in DOMAIN C : C[a].cin \/ C[a].pin}
Idle_(C) == {a \in DOMAIN C : ~C[a].cin /\ C[a].pin}

Apart(C) == \A a, b \in DOMAIN C : a < b => a + C[a].size <= b

\* The last chunk of segment i: the top of the first, the record of another.
LastOf(S, i, top) == IF i = 1 THEN top ELSE S[i].rec
Records_(S) == {S[i].rec : i \in 2 .. Len(S)}

Segment == [base : Nat \ {0}, size : Nat \ {0}, external : BOOLEAN, rec : Nat]

Segments(S) ==
  /\ S \in Seq(Segment) /\ Len(S) >= 1
  /\ \A i, j \in DOMAIN S : i # j => End(S[i]) <= S[j].base \/ End(S[j]) <= S[i].base

\* What chunk a, in use or not, says of the chunk n behind it, and it of a.
Tells(C, a, n, state) ==
  /\ C[n].pin = C[a].cin
  /\ ~C[a].cin => C[n].cin /\ C[n].foot = C[a].size
  /\ C[a].cin /\ a # state => C[n].foot = Stamp

Ends(C, S, top, state) ==
  /\ top \in InHeap(C) /\ ~C[top].cin /\ Holds(S[1], top)
  /\ top + C[top].size = End(S[1]) - TopFoot
  /\ \A i \in 2 .. Len(S) :
      /\ S[i].rec \in InHeap(C) /\ Holds(S[i], S[i].rec) /\ S[i].rec # state
      /\ C[S[i].rec].cin /\ C[S[i].rec].size = SegmentChunk
      /\ S[i].rec + TopFoot <= End(S[i])
  /\ state \in InHeap(C) /\ C[state].cin

Linked(C, S, top, state) ==
  \A i \in DOMAIN S : \A a \in InHeap(C) : Holds(S[i], a) =>
      /\ a <= LastOf(S, i, top)
      /\ a # LastOf(S, i, top) =>
          /\ C[a].size >= MinChunk
          /\ a + C[a].size \in InHeap(C) /\ Holds(S[i], a + C[a].size)
          /\ Tells(C, a, a + C[a].size, state)
      /\ a # S[i].base => \E b \in InHeap(C) : b + C[b].size = a /\ Holds(S[i], b)

\* The segments hold chunks that follow one another from base to last.
Shape(C, S, top, state) ==
  /\ Heads(C) /\ Apart(C) /\ Segments(S)
  /\ \A i \in DOMAIN S : S[i].base \in InHeap(C) /\ C[S[i].base].pin
  /\ \A a \in DOMAIN C : (\E i \in DOMAIN S : Holds(S[i], a)) <=> a \in InHeap(C)
  /\ Ends(C, S, top, state)
  /\ Linked(C, S, top, state)

----------------------------------------------------------------------------
(* A sound space.  L is the set of the blocks handed out, U of the free    *)
(* chunks an operation has taken out of the bins and not yet used.         *)

Binned_(small, tree) == tree \cup UNION {Range(small[n]) : n \in SmallSizes}

\* Whatever is in use is somebody's.
Owned(C, S, state, L) ==
  /\ L \cup {state} \cup Records_(S) = {a \in DOMAIN C : C[a].cin \/ ~C[a].pin}
  /\ state \notin L
  /\ L \cap Records_(S) = {}

\* Whatever is free is kept in one place, that of its size.
Placed(C, small, tree, dv, top, U) ==
  /\ Idle_(C) = {top} \cup Binned_(small, tree) \cup ({dv} \ {0}) \cup U
  /\ top # dv /\ {top, dv} \cap (Binned_(small, tree) \cup U) = {}
  /\ U \cap Binned_(small, tree) = {}
  /\ small \in [SmallSizes -> Seq(Nat)]
  /\ \A n \in SmallSizes :
      /\ \A i, j \in DOMAIN small[n] : small[n][i] = small[n][j] => i = j
      /\ \A a \in Range(small[n]) : C[a].size = n
  /\ \A a \in tree : C[a].size >= SmallLimit

Sizes(C, dv, dvsize, top, topsize) ==
  /\ dv \in Nat /\ dvsize = IF dv = 0 THEN 0 ELSE C[dv].size
  /\ topsize = C[top].size

Maps(C) == {a \in DOMAIN C : ~C[a].cin /\ ~C[a].pin}
MapBase(C, a) == a - C[a].foot
MapLength(C, a) == C[a].size + C[a].foot + MapFootPad

Whole(n) == \E k \in Nat \ {0} : n = k * Granule

\* The system has lent the granules of the segments and the mappings, each once.
Lent(C, S, backed, footprint) ==
  /\ backed \subseteq Space /\ footprint = Granule * Cardinality(backed)
  /\ \A i \in DOMAIN S :
      /\ Whole(S[i].base) /\ Whole(S[i].size)
      /\ GranulesOf(S[i].base, S[i].size) \subseteq backed
  /\ \A i, j \in DOMAIN S : i # j =>
        GranulesOf(S[i].base, S[i].size) \cap GranulesOf(S[j].base, S[j].size) = {}
  /\ \A a \in Maps(C) :
      /\ Whole(MapBase(C, a)) /\ Whole(MapLength(C, a))
      /\ GranulesOf(MapBase(C, a), MapLength(C, a)) \subseteq backed
      /\ \A i \in DOMAIN S :
          GranulesOf(MapBase(C, a), MapLength(C, a)) \cap GranulesOf(S[i].base, S[i].size) = {}
  /\ \A a, b \in Maps(C) : a # b =>
        GranulesOf(MapBase(C, a), MapLength(C, a))
            \cap GranulesOf(MapBase(C, b), MapLength(C, b)) = {}

HeapFields == {"chunk", "small", "tree", "dv", "dvsize", "top", "topsize", "segs", "state",
               "backed", "footprint", "limit", "least", "trimcheck", "checks", "mmapon"}

IsHeap(h) == h = [f \in HeapFields |-> h[f]]

Settings(h) ==
  /\ h.limit \in Nat /\ h.least \in Nat /\ h.trimcheck \in Nat /\ h.mmapon \in BOOLEAN
  /\ h.checks \in 1 .. Larger(ReleaseRate, Cardinality(Space))
  /\ \A a \in DOMAIN h.chunk : a >= h.least
  /\ \A i \in DOMAIN h.segs : h.segs[i].base >= h.least

Sound(h, L, U) ==
  /\ IsHeap(h)
  /\ Shape(h.chunk, h.segs, h.top, h.state)
  /\ Owned(h.chunk, h.segs, h.state, L)
  /\ Placed(h.chunk, h.small, h.tree, h.dv, h.top, U)
  /\ Sizes(h.chunk, h.dv, h.dvsize, h.top, h.topsize)
  /\ Lent(h.chunk, h.segs, h.backed, h.footprint)
  /\ Settings(h)

----------------------------------------------------------------------------
(* Cutting and joining chunks between a chunk p and a chunk e behind it.   *)

\* D differs from C between p and e alone, and in what e says of its predecessor.
Between(C, D, p, e) ==
  /\ \A a \in Nat : a < p \/ a >= e => (a \in DOMAIN D <=> a \in DOMAIN C)
  /\ \A a \in DOMAIN C : a < p \/ a > e => D[a] = C[a]
  /\ p \in DOMAIN D /\ D[p].pin = C[p].pin /\ D[p].foot = C[p].foot

\* The chunks of D between p and e follow one another.
Chained(D, p, e) ==
  /\ \A a \in DOMAIN D : p <= a /\ a < e =>
      /\ a \in InHeap(D) /\ D[a].size >= MinChunk
      /\ a + D[a].size \in DOMAIN D /\ a + D[a].size <= e
      /\ Tells(D, a, a + D[a].size, 0)
      /\ a # p => \E b \in DOMAIN D : p <= b /\ b + D[b].size = a
  /\ \A a, b \in DOMAIN D : p <= a /\ a < b /\ b < e => a + D[a].size <= b
  /\ \E b \in DOMAIN D : p <= b /\ b < e /\ b + D[b].size = e

\* The constants are numbers.
LEMMA Numbers ==
  /\ Granule \in Nat \ {0} /\ SmallLimit \in Nat /\ SegmentChunk \in Nat /\ StateChunk \in Nat
  /\ MinChunk = 2 /\ SmallLimit > 2 /\ SegmentChunk >= 2 /\ StateChunk >= 2
  /\ TopFoot = SegmentChunk + 2 /\ TopFoot \in Nat /\ Granule > StateChunk + TopFoot
  /\ Padding = TopFoot + 1 /\ MapFootPad = 2 /\ Stamp = 0
  /\ TrimThreshold \in Nat /\ MapThreshold \in Nat /\ MapThreshold >= SmallLimit
  /\ ReleaseRate \in Nat \ {0}
BY HeapAssumption DEF MinChunk, TopFoot, Padding, MapFootPad, Stamp

\* The fields of a segment and of a chunk.
LEMMA SegmentFields ==
  ASSUME NEW S, Segments(S), NEW i \in DOMAIN S
  PROVE  /\ S[i].base \in Nat /\ S[i].base > 0 /\ S[i].size \in Nat /\ S[i].size > 0
         /\ S[i].external \in BOOLEAN /\ S[i].rec \in Nat /\ End(S[i]) = S[i].base + S[i].size
         /\ i \in Nat /\ i >= 1 /\ i <= Len(S) /\ 1 \in DOMAIN S /\ Len(S) \in Nat
         /\ DOMAIN S = 1 .. Len(S) /\ S[i] \in Segment
<1>1. S \in Seq(Segment) /\ Len(S) >= 1
  BY DEF Segments
<1>2. Len(S) \in Nat /\ DOMAIN S = 1 .. Len(S) /\ S[i] \in Segment
  BY <1>1
<1> QED
  BY <1>1, <1>2 DEF Segment, End

\* What the head of a chunk records.
LEMMA ChunkFields ==
  ASSUME NEW C, Heads(C), NEW a \in DOMAIN C
  PROVE  /\ a \in Nat /\ a > 0 /\ C[a].size \in Nat /\ C[a].size > 0 /\ C[a].cin \in BOOLEAN
         /\ C[a].pin \in BOOLEAN /\ C[a].foot \in Nat
         /\ C[a] = [size |-> C[a].size, cin |-> C[a].cin, pin |-> C[a].pin, foot |-> C[a].foot]
BY DEF Heads, Header

\* An address lies in one segment.
LEMMA OneSegment ==
  ASSUME NEW S, Segments(S), NEW i \in DOMAIN S, NEW j \in DOMAIN S, NEW a \in Nat,
         Holds(S[i], a), Holds(S[j], a)
  PROVE  i = j
BY SegmentFields, SMTT(30) DEF Segments, Holds, End

\* So does all that lies between two addresses of it.
LEMMA WithinSegment ==
  ASSUME NEW S, Segments(S), NEW i \in DOMAIN S, NEW p \in Nat, NEW e \in Nat, NEW a \in Nat,
         Holds(S[i], p), Holds(S[i], e), p <= a, a <= e
  PROVE  Holds(S[i], a)
BY SegmentFields DEF Holds

\* Chunks may be cut and joined between two chunks of a segment.
LEMMA Splice ==
  ASSUME NEW C, NEW D, NEW S, NEW top, NEW state, Shape(C, S, top, state), Heads(D),
         NEW i \in DOMAIN S, NEW p \in InHeap(C), NEW e \in InHeap(C),
         Holds(S[i], p), Holds(S[i], e), p < e, state < p \/ e <= state,
         Between(C, D, p, e), Chained(D, p, e),
         D[e].size = C[e].size, D[e].cin = C[e].cin
  PROVE  Shape(D, S, top, state)
<1> USE Numbers
<1>1. /\ Heads(C) /\ Apart(C) /\ Segments(S) /\ Ends(C, S, top, state)
      /\ Linked(C, S, top, state)
  BY DEF Shape
<1>2. /\ DOMAIN C \subseteq Nat /\ DOMAIN D \subseteq Nat
      /\ p \in DOMAIN C /\ e \in DOMAIN C /\ p \in Nat /\ e \in Nat /\ e \in DOMAIN D
  BY <1>1, ChunkFields DEF InHeap, Heads, Between
<1>3. state \in Nat /\ top \in Nat
  BY <1>1, <1>2 DEF Ends, InHeap
<1>4. e \in InHeap(D)
  <2>1. PICK b \in DOMAIN D : p <= b /\ b < e /\ b + D[b].size = e
    BY DEF Chained
  <2>2. Tells(D, b, e, 0)
    BY <2>1 DEF Chained
  <2> QED
    BY <1>2, <2>1, <2>2, ChunkFields DEF Tells, InHeap
<1>5. \A a \in Nat : a < p \/ a >= e =>
        /\ (a \in DOMAIN D <=> a \in DOMAIN C) /\ (a \in InHeap(D) <=> a \in InHeap(C))
        /\ a \in DOMAIN C => D[a].size = C[a].size /\ D[a].cin = C[a].cin
        /\ a \in DOMAIN C /\ a # e => D[a] = C[a]
  BY <1>2, <1>4 DEF Between, InHeap
<1>6. \A a \in DOMAIN D : p <= a /\ a < e =>
        /\ a \in InHeap(D) /\ a + D[a].size <= e /\ a + D[a].size \in DOMAIN D
        /\ D[a].size >= MinChunk
  BY DEF Chained
<1>7. \A a \in DOMAIN C : a < p => a + C[a].size <= p
  BY <1>1, <1>2 DEF Apart
<1>8. Apart(D)
  <2> SUFFICES ASSUME NEW a \in DOMAIN D, NEW b \in DOMAIN D, a < b PROVE a + D[a].size <= b
    BY DEF Apart
  <2>1. CASE a < p
    BY <2>1, <1>1, <1>2, <1>5, <1>7, ChunkFields DEF Apart
  <2>2. CASE p <= a /\ a < e /\ b < e
    BY <2>2 DEF Chained
  <2>3. CASE p <= a /\ a < e /\ b >= e
    BY <2>3, <1>2, <1>6, ChunkFields
  <2>4. CASE a >= e
    BY <2>4, <1>1, <1>2, <1>5 DEF Apart
  <2> QED
    BY <1>2, <2>1, <2>2, <2>3, <2>4
<1>9. \A j \in DOMAIN S : \A a \in Nat : p <= a /\ a <= e /\ Holds(S[j], a) => i = j
  BY <1>1, <1>2, WithinSegment, OneSegment
<1>10. e <= LastOf(S, i, top)
  BY <1>1 DEF Linked
<1>11. \A j \in DOMAIN S : LastOf(S, j, top) \in InHeap(C) /\ Holds(S[j], LastOf(S, j, top))
  BY <1>1, SegmentFields DEF Ends, LastOf
<1>12. \A j \in DOMAIN S : LastOf(S, j, top) < p \/ LastOf(S, j, top) >= e
  BY <1>1, <1>2, <1>9, <1>10, <1>11, SegmentFields DEF InHeap
<1>13. \A j \in DOMAIN S : S[j].base \in InHeap(D) /\ D[S[j].base].pin
  <2> SUFFICES ASSUME NEW j \in DOMAIN S PROVE S[j].base \in InHeap(D) /\ D[S[j].base].pin
    OBVIOUS
  <2>1. S[j].base \in InHeap(C) /\ C[S[j].base].pin /\ Holds(S[j], S[j].base)
    BY <1>1, SegmentFields DEF Shape, Holds
  <2>2. S[j].base \in Nat /\ S[i].base <= p
    BY <1>1, SegmentFields DEF Holds
  <2>3. S[j].base <= p \/ S[j].base > e
    BY <1>2, <1>9, <2>1, <2>2
  <2>4. CASE S[j].base = p
    BY <2>1, <2>4, <1>6, <1>2 DEF Between
  <2>5. CASE S[j].base # p
    BY <2>1, <2>2, <2>3, <2>5, <1>2, <1>5 DEF InHeap
  <2> QED
    BY <2>4, <2>5
<1>14. \A a \in DOMAIN D : (\E j \in DOMAIN S : Holds(S[j], a)) <=> a \in InHeap(D)
  <2> SUFFICES ASSUME NEW a \in DOMAIN D
               PROVE  (\E j \in DOMAIN S : Holds(S[j], a)) <=> a \in InHeap(D)
    OBVIOUS
  <2>1. CASE p <= a /\ a < e
    BY <2>1, <1>1, <1>2, <1>6, WithinSegment
  <2>2. CASE a < p \/ a >= e
    BY <2>2, <1>2, <1>5 DEF Shape
  <2> QED
    BY <1>2, <2>1, <2>2
<1>15. Ends(D, S, top, state)
  <2>1. \A j \in 2 .. Len(S) : S[j].rec \in Nat /\ (S[j].rec < p \/ S[j].rec >= e)
    <3> SUFFICES ASSUME NEW j \in 2 .. Len(S)
                 PROVE  S[j].rec \in Nat /\ (S[j].rec < p \/ S[j].rec >= e)
      OBVIOUS
    <3>1. j \in DOMAIN S
      <4>1. DOMAIN S = 1 .. Len(S) /\ Len(S) \in Nat
        BY <1>1, SegmentFields
      <4> QED
        BY ONLY <4>1, j \in 2 .. Len(S)
    <3>2. LastOf(S, j, top) = S[j].rec
      BY DEF LastOf
    <3> QED
      BY <3>1, <3>2, <1>1, <1>12, SegmentFields
  <2>2. top < p \/ top >= e
    BY <1>1, <1>12, SegmentFields DEF LastOf
  <2> QED
    BY <1>1, <1>2, <1>3, <1>5, <2>1, <2>2, SegmentFields DEF Ends, InHeap
<1>16. Linked(D, S, top, state)
  <2> SUFFICES ASSUME NEW j \in DOMAIN S, NEW a \in InHeap(D), Holds(S[j], a)
      PROVE  /\ a <= LastOf(S, j, top)
             /\ a # LastOf(S, j, top) =>
                 /\ D[a].size >= MinChunk
                 /\ a + D[a].size \in InHeap(D) /\ Holds(S[j], a + D[a].size)
                 /\ Tells(D, a, a + D[a].size, state)
             /\ a # S[j].base => \E b \in InHeap(D) : b + D[b].size = a /\ Holds(S[j], b)
    BY DEF Linked
  <2>1. a \in DOMAIN D /\ a \in Nat
    BY <1>2 DEF InHeap
  <2>2. CASE p <= a /\ a < e
    <3>1. j = i
      BY <1>2, <1>9, <2>1, <2>2
    <3>2. a <= LastOf(S, j, top) /\ a # LastOf(S, j, top)
      BY <3>1, <2>2, <1>2, <1>10, <1>11, <1>12, <2>1 DEF InHeap
    <3>3. D[a].size >= MinChunk /\ a + D[a].size <= e /\ a + D[a].size \in DOMAIN D
          /\ D[a].size \in Nat
      BY <1>6, <2>1, <2>2, ChunkFields
    <3>4. a + D[a].size \in InHeap(D)
      BY <3>3, <1>2, <1>4, <1>6, <2>1, <2>2
    <3>5. Holds(S[j], a + D[a].size)
      BY <3>1, <3>3, <2>1, <2>2, <1>1, <1>2, WithinSegment
    <3>6. Tells(D, a, a + D[a].size, state)
      BY <1>2, <2>1, <2>2, ChunkFields DEF Chained, Tells
    <3>7. ASSUME a # S[j].base PROVE \E b \in InHeap(D) : b + D[b].size = a /\ Holds(S[j], b)
      <4>1. CASE a = p
        <5>1. PICK b \in InHeap(C) : b + C[b].size = a /\ Holds(S[j], b)
          BY <1>1, <3>1, <3>7, <4>1 DEF Linked
        <5>2. b < p /\ b \in Nat /\ b \in DOMAIN C
          BY <5>1, <4>1, <1>1, ChunkFields DEF InHeap
        <5> QED
          BY <5>1, <5>2, <1>5
      <4>2. CASE a # p
        <5>1. PICK b \in DOMAIN D : p <= b /\ b + D[b].size = a
          BY <2>1, <2>2, <4>2 DEF Chained
        <5>2. b < e /\ b <= e /\ b \in Nat
          BY <5>1, <2>2, <2>1, <1>2, ChunkFields
        <5>3. b \in InHeap(D)
          BY <5>1, <5>2, <1>6
        <5> QED
          BY <5>1, <5>2, <5>3, <3>1, <1>1, <1>2, WithinSegment
      <4> QED
        BY <4>1, <4>2
    <3> QED
      BY <3>2, <3>3, <3>4, <3>5, <3>6, <3>7
  <2>3. CASE a < p \/ a >= e
    <3>1. a \in InHeap(C) /\ a \in DOMAIN C /\ D[a].size = C[a].size /\ D[a].cin = C[a].cin
      BY <2>1, <2>3, <1>5 DEF InHeap
    <3>2. C[a].size \in Nat /\ C[a].size > 0
      BY <3>1, <1>1, ChunkFields
    <3>3. a <= LastOf(S, j, top)
      BY <3>1, <1>1 DEF Linked
    <3>4. ASSUME a # LastOf(S, j, top)
          PROVE  /\ D[a].size >= MinChunk
                 /\ a + D[a].size \in InHeap(D) /\ Holds(S[j], a + D[a].size)
                 /\ Tells(D, a, a + D[a].size, state)
      <4> DEFINE n == a + C[a].size
      <4>1. /\ C[a].size >= MinChunk /\ n \in InHeap(C) /\ Holds(S[j], n)
            /\ Tells(C, a, n, state)
        BY <3>1, <3>4, <1>1 DEF Linked
      <4>2. n \in Nat /\ n \in DOMAIN C /\ (n <= p \/ n > e)
        BY <4>1, <3>1, <3>2, <2>1, <2>3, <1>2, <1>7 DEF InHeap
      <4> HIDE DEF n
      <4>3. CASE n = p
        <5>1. D[n].pin = C[n].pin /\ D[n].foot = C[n].foot /\ n \in InHeap(D)
          BY <4>3, <1>6, <1>2 DEF Between
        <5>2. ~D[n].pin => D[n].cin
          BY <5>1 DEF InHeap
        <5>3. Tells(D, a, n, state)
          BY <5>1, <5>2, <4>1, <3>1 DEF Tells
        <5> QED
          BY <5>1, <5>3, <4>1, <3>1 DEF n
      <4>4. CASE n # p
        <5>1. D[n] = C[n] /\ n \in InHeap(D)
          BY <4>2, <4>4, <4>1, <1>2, <1>5
        <5>2. Tells(D, a, n, state)
          BY <5>1, <4>1, <3>1 DEF Tells
        <5> QED
          BY <5>1, <5>2, <4>1, <3>1 DEF n
      <4> QED
        BY <4>3, <4>4
    <3>5. ASSUME a # S[j].base PROVE \E b \in InHeap(D) : b + D[b].size = a /\ Holds(S[j], b)
      <4>1. CASE a = e
        <5>1. PICK b \in DOMAIN D : p <= b /\ b < e /\ b + D[b].size = e
          BY DEF Chained
        <5>2. j = i
          BY <4>1, <1>1, <1>2, OneSegment
        <5>3. b \in InHeap(D) /\ b \in Nat /\ b <= e
          BY <5>1, <1>2, <1>6
        <5> QED
          BY <5>1, <5>2, <5>3, <4>1, <1>1, <1>2, WithinSegment
      <4>2. CASE a # e
        <5>1. PICK b \in InHeap(C) : b + C[b].size = a /\ Holds(S[j], b)
          BY <3>1, <3>5, <1>1 DEF Linked
        <5>2. b \in DOMAIN C /\ b \in Nat /\ C[b].size \in Nat /\ C[b].size > 0
          BY <1>1, ChunkFields DEF InHeap
        <5>3. b < p \/ b >= e
          <6>1. b < e => b + C[b].size <= e
            BY <5>2, <1>1, <1>2 DEF Apart
          <6> QED
            BY <5>1, <5>2, <6>1, <4>2, <2>1, <2>3, <1>2
        <5> QED
          BY <5>1, <5>2, <5>3, <1>5
      <4> QED
        BY <4>1, <4>2
    <3> QED
      BY <3>3, <3>4, <3>5
  <2> QED
    BY <1>2, <2>1, <2>2, <2>3
<1> QED
  BY <1>1, <1>8, <1>13, <1>14, <1>15, <1>16 DEF Shape

\* The top ends in front of its segment's foot, and nothing is there.
LEMMA TopIsLast ==
  ASSUME NEW C, NEW S, NEW top, NEW state, Shape(C, S, top, state)
  PROVE  /\ 1 \in DOMAIN S /\ Holds(S[1], top) /\ top \in DOMAIN C /\ top \in Nat
         /\ top + C[top].size = End(S[1]) - TopFoot /\ End(S[1]) - TopFoot \in Nat
         /\ top < End(S[1]) - TopFoot /\ S[1].base <= top
         /\ \A a \in DOMAIN C : a <= top \/ a >= End(S[1])
<1> USE Numbers
<1>1. Heads(C) /\ Segments(S) /\ Ends(C, S, top, state) /\ Linked(C, S, top, state)
  BY DEF Shape
<1>2. /\ 1 \in DOMAIN S /\ Holds(S[1], top) /\ top \in DOMAIN C
      /\ top + C[top].size = End(S[1]) - TopFoot
  BY <1>1 DEF Ends, InHeap, Segments
<1>3. /\ top \in Nat /\ top < End(S[1]) - TopFoot /\ S[1].base <= top
      /\ End(S[1]) - TopFoot \in Nat /\ S[1].base \in Nat /\ S[1].size \in Nat
      /\ End(S[1]) = S[1].base + S[1].size
  BY <1>1, <1>2, ChunkFields, SegmentFields DEF Holds
<1>4. ASSUME NEW a \in DOMAIN C, a > top, a < End(S[1]) PROVE FALSE
  <2>1. a \in Nat /\ Holds(S[1], a)
    BY <1>1, <1>3, <1>4, ChunkFields DEF Holds
  <2>2. a \in InHeap(C)
    BY <1>2, <2>1 DEF Shape
  <2>3. a <= top
    BY <1>1, <1>2, <2>1, <2>2 DEF Linked, LastOf
  <2> QED
    BY <1>3, <1>4, <2>1, <2>3
<1> QED
  BY <1>1, <1>2, <1>3, <1>4, ChunkFields

\* Chunks may be cut and joined between a chunk and the end of the top.
LEMMA SpliceTop ==
  ASSUME NEW C, NEW D, NEW S, NEW top, NEW state, Shape(C, S, top, state), Heads(D),
         NEW p \in InHeap(C), Holds(S[1], p), state < p \/ state >= End(S[1]) - TopFoot,
         NEW q \in DOMAIN D,
         Between(C, D, p, End(S[1]) - TopFoot),
         p = q \/ (p < q /\ Chained(D, p, q)),
         D[q].pin, ~D[q].cin, q + D[q].size = End(S[1]) - TopFoot,
         \A a \in DOMAIN D : a <= q \/ a >= End(S[1]) - TopFoot
  PROVE  Shape(D, S, q, state)
<1> USE Numbers
<1> DEFINE e == End(S[1]) - TopFoot
<1>1. /\ Heads(C) /\ Apart(C) /\ Segments(S) /\ Ends(C, S, top, state)
      /\ Linked(C, S, top, state)
  BY DEF Shape
<1>2. /\ DOMAIN C \subseteq Nat /\ DOMAIN D \subseteq Nat /\ p \in DOMAIN C /\ p \in DOMAIN D
      /\ p \in Nat /\ q \in Nat /\ D[q].size \in Nat /\ D[q].size > 0
  BY <1>1, ChunkFields DEF InHeap, Heads, Between
<1>3. /\ 1 \in DOMAIN S /\ top \in Nat /\ top < e /\ e \in Nat /\ S[1].base <= top
      /\ Holds(S[1], top) /\ e < End(S[1]) /\ End(S[1]) \in Nat /\ S[1].base \in Nat
      /\ \A a \in DOMAIN C : a <= top \/ a >= End(S[1])
  BY <1>1, TopIsLast, SegmentFields
<1>4. p <= top /\ p <= q /\ q < e /\ e \notin DOMAIN C /\ state \in Nat
      /\ q + D[q].size = e /\ \A a \in DOMAIN D : a <= q \/ a >= e
  <2>1. state \in DOMAIN C
    BY <1>1 DEF Ends, InHeap
  <2>2. p <= LastOf(S, 1, top)
    BY <1>1, <1>3 DEF Linked
  <2>3. p <= top
    BY <2>2 DEF LastOf
  <2>4. q + D[q].size = e /\ \A a \in DOMAIN D : a <= q \/ a >= e
    OBVIOUS
  <2>5. q < e
    BY <2>4, <1>2
  <2>6. e \notin DOMAIN C
    BY <1>3
  <2>7. p <= q
    BY <1>2
  <2> QED
    BY <1>2, <2>1, <2>3, <2>4, <2>5, <2>6, <2>7
<1> HIDE DEF e
<1>5. \A a \in Nat : a < p \/ a >= e =>
        /\ (a \in DOMAIN D <=> a \in DOMAIN C) /\ (a \in InHeap(D) <=> a \in InHeap(C))
        /\ a \in DOMAIN C => D[a] = C[a]
  BY <1>2, <1>3, <1>4 DEF Between, InHeap, e
<1>6. \A a \in DOMAIN D : p <= a /\ a < e /\ a # q =>
        /\ a < q /\ a \in InHeap(D) /\ a + D[a].size <= q /\ a + D[a].size \in DOMAIN D
        /\ D[a].size >= MinChunk
  BY <1>2, <1>3, <1>4 DEF Chained
<1>7. q \in InHeap(D)
  BY DEF InHeap
<1>8. \A a \in DOMAIN C : a < p => a + C[a].size <= p
  BY <1>1, <1>2 DEF Apart
<1>9. \A a \in DOMAIN D : p <= a /\ a < e => a \in InHeap(D) /\ a + D[a].size <= e
  BY <1>2, <1>3, <1>4, <1>6, <1>7, ChunkFields
<1>10. Apart(D)
  <2> SUFFICES ASSUME NEW a \in DOMAIN D, NEW b \in DOMAIN D, a < b PROVE a + D[a].size <= b
    BY DEF Apart
  <2>1. CASE a < p
    BY <2>1, <1>1, <1>2, <1>5, <1>8, ChunkFields DEF Apart
  <2>2. CASE p <= a /\ a < e /\ b < e
    <3>1. b <= q /\ a # q /\ p # q
      BY <2>2, <1>2, <1>4
    <3>2. CASE b = q
      BY <2>2, <3>1, <3>2, <1>6
    <3>3. CASE b < q
      BY <2>2, <3>1, <3>3 DEF Chained
    <3> QED
      BY <3>1, <3>2, <3>3, <1>2
  <2>3. CASE p <= a /\ a < e /\ b >= e
    BY <2>3, <1>2, <1>3, <1>9, ChunkFields
  <2>4. CASE a >= e
    BY <2>4, <1>1, <1>2, <1>3, <1>5 DEF Apart
  <2> QED
    BY <1>2, <1>3, <2>1, <2>2, <2>3, <2>4
<1>11. \A a \in Nat : p <= a /\ a <= e => Holds(S[1], a)
  BY <1>1, <1>2, <1>3, SegmentFields DEF Holds, End
<1>12. \A j \in DOMAIN S : \A a \in Nat : p <= a /\ a <= e /\ Holds(S[j], a) => j = 1
  BY <1>1, <1>3, <1>11, OneSegment
<1>13. \A j \in DOMAIN S : S[j].base \in InHeap(D) /\ D[S[j].base].pin
  <2> SUFFICES ASSUME NEW j \in DOMAIN S PROVE S[j].base \in InHeap(D) /\ D[S[j].base].pin
    OBVIOUS
  <2>1. S[j].base \in InHeap(C) /\ C[S[j].base].pin /\ Holds(S[j], S[j].base)
        /\ S[j].base \in Nat
    BY <1>1, SegmentFields DEF Shape, Holds
  <2>2. S[1].base <= p
    BY <1>1, SegmentFields DEF Holds
  <2>3. S[j].base <= p \/ S[j].base > e
    BY <1>2, <1>3, <1>12, <2>1, <2>2
  <2>4. CASE S[j].base = p
    <3>1. p \in InHeap(D)
      BY <1>2, <1>3, <1>4, <1>9
    <3> QED
      BY <2>1, <2>4, <3>1 DEF Between
  <2>5. CASE S[j].base # p
    BY <2>1, <2>3, <2>5, <1>2, <1>3, <1>5 DEF InHeap
  <2> QED
    BY <2>4, <2>5
<1>14. \A a \in DOMAIN D : (\E j \in DOMAIN S : Holds(S[j], a)) <=> a \in InHeap(D)
  <2> SUFFICES ASSUME NEW a \in DOMAIN D
               PROVE  (\E j \in DOMAIN S : Holds(S[j], a)) <=> a \in InHeap(D)
    OBVIOUS
  <2>1. CASE p <= a /\ a < e
    BY <2>1, <1>2, <1>3, <1>9, <1>11
  <2>2. CASE a < p \/ a >= e
    BY <2>2, <1>2, <1>5 DEF Shape
  <2> QED
    BY <1>2, <1>3, <2>1, <2>2
<1>15. \A j \in 2 .. Len(S) : j \in DOMAIN S /\ S[j].rec \in Nat
                              /\ (S[j].rec < p \/ S[j].rec >= e)
  <2> SUFFICES ASSUME NEW j \in 2 .. Len(S)
               PROVE  j \in DOMAIN S /\ S[j].rec \in Nat /\ (S[j].rec < p \/ S[j].rec >= e)
    OBVIOUS
  <2>1. j \in DOMAIN S /\ S[j].rec \in Nat /\ Holds(S[j], S[j].rec) /\ j # 1
    BY <1>1, <1>3, SegmentFields DEF Ends
  <2> QED
    BY <2>1, <1>2, <1>3, <1>12
<1>16. Ends(D, S, q, state)
  <2>1. Holds(S[1], q) /\ q + D[q].size = e
    BY <1>2, <1>4, <1>11
  <2> QED
    BY <1>1, <1>4, <1>5, <1>7, <1>15, <2>1 DEF Ends, InHeap, e
<1>17. Linked(D, S, q, state)
  <2> SUFFICES ASSUME NEW j \in DOMAIN S, NEW a \in InHeap(D), Holds(S[j], a)
      PROVE  /\ a <= LastOf(S, j, q)
             /\ a # LastOf(S, j, q) =>
                 /\ D[a].size >= MinChunk
                 /\ a + D[a].size \in InHeap(D) /\ Holds(S[j], a + D[a].size)
                 /\ Tells(D, a, a + D[a].size, state)
             /\ a # S[j].base => \E b \in InHeap(D) : b + D[b].size = a /\ Holds(S[j], b)
    BY DEF Linked
  <2>1. a \in DOMAIN D /\ a \in Nat /\ D[a].size \in Nat
    BY <1>2, ChunkFields DEF InHeap
  <2>2. CASE p <= a /\ a < e
    <3>1. j = 1 /\ LastOf(S, j, q) = q
      BY <1>2, <1>3, <1>12, <2>1, <2>2 DEF LastOf
    <3>2. a <= q
      BY <1>2, <1>3, <1>4, <2>1, <2>2
    <3>3. ASSUME a # q
          PROVE  /\ D[a].size >= MinChunk
                 /\ a + D[a].size \in InHeap(D) /\ Holds(S[j], a + D[a].size)
                 /\ Tells(D, a, a + D[a].size, state)
      <4>1. /\ D[a].size >= MinChunk /\ a + D[a].size <= q /\ a + D[a].size \in DOMAIN D
            /\ a < q
        BY <1>6, <2>1, <2>2, <3>3
      <4>2. a + D[a].size \in InHeap(D) /\ Holds(S[j], a + D[a].size)
        BY <1>2, <1>3, <1>4, <1>9, <1>11, <2>1, <2>2, <3>1, <4>1
      <4>3. Tells(D, a, a + D[a].size, state)
        BY <1>2, <1>4, <2>1, <2>2, <4>1, ChunkFields DEF Chained, Tells
      <4> QED
        BY <4>1, <4>2, <4>3
    <3>4. ASSUME a # S[j].base PROVE \E b \in InHeap(D) : b + D[b].size = a /\ Holds(S[j], b)
      <4>1. CASE a = p
        <5>1. PICK b \in InHeap(C) : b + C[b].size = a /\ Holds(S[j], b)
          BY <1>1, <3>1, <3>4, <4>1 DEF Linked
        <5>2. b < p /\ b \in Nat /\ b \in DOMAIN C
          BY <5>1, <4>1, <1>1, ChunkFields DEF InHeap
        <5> QED
          BY <5>1, <5>2, <1>5
      <4>2. CASE a # p
        <5>1. PICK b \in DOMAIN D : p <= b /\ b + D[b].size = a
          <6>1. CASE a = q
            BY <6>1, <4>2 DEF Chained
          <6>2. CASE a # q
            <7>1. p <= a /\ a < q /\ p # q
              BY <1>2, <2>1, <2>2, <3>2, <6>2
            <7> QED
              BY <7>1, <4>2, <2>1 DEF Chained
          <6> QED
            BY <6>1, <6>2
        <5>2. b < e /\ b <= e /\ b \in Nat
          BY <5>1, <2>2, <2>1, <1>2, <1>3, ChunkFields
        <5>3. b \in InHeap(D)
          BY <5>1, <5>2, <1>9
        <5> QED
          BY <5>1, <5>2, <5>3, <3>1, <1>11
      <4> QED
        BY <4>1, <4>2
    <3> QED
      BY <3>1, <3>2, <3>3, <3>4
  <2>3. CASE a < p \/ a >= e
    <3>1. a \in InHeap(C) /\ a \in DOMAIN C /\ D[a] = C[a]
      BY <2>1, <2>3, <1>5 DEF InHeap
    <3>2. C[a].size \in Nat /\ C[a].size > 0
      BY <3>1, <1>1, ChunkFields
    <3>3. a <= LastOf(S, j, top)
      BY <3>1, <1>1 DEF Linked
    <3>4. a < p \/ j # 1
      BY <3>1, <3>3, <2>1, <2>3, <1>3 DEF LastOf
    <3>5. a <= LastOf(S, j, q)
      BY <3>3, <3>4, <2>1, <1>2, <1>4 DEF LastOf
    <3>6. ASSUME a # LastOf(S, j, q)
          PROVE  /\ D[a].size >= MinChunk
                 /\ a + D[a].size \in InHeap(D) /\ Holds(S[j], a + D[a].size)
                 /\ Tells(D, a, a + D[a].size, state)
      <4> DEFINE n == a + C[a].size
      <4>1. a # LastOf(S, j, top)
        BY <3>4, <3>6, <2>1, <1>2, <1>3, <1>4 DEF LastOf
      <4>2. /\ C[a].size >= MinChunk /\ n \in InHeap(C) /\ Holds(S[j], n)
            /\ Tells(C, a, n, state)
        BY <3>1, <4>1, <1>1 DEF Linked
      <4>3. n \in Nat /\ n \in DOMAIN C /\ (n <= p \/ n >= e)
        BY <4>2, <3>1, <3>2, <2>1, <2>3, <1>2, <1>3, <1>8 DEF InHeap
      <4> HIDE DEF n
      <4>4. CASE n = p
        <5>1. D[n].pin = C[n].pin /\ D[n].foot = C[n].foot /\ n \in InHeap(D)
          BY <4>4, <1>2, <1>3, <1>4, <1>9 DEF Between
        <5>2. ~D[n].pin => D[n].cin
          BY <5>1 DEF InHeap
        <5>3. Tells(D, a, n, state)
          BY <5>1, <5>2, <4>2, <3>1 DEF Tells
        <5> QED
          BY <5>1, <5>3, <4>2, <3>1 DEF n
      <4>5. CASE n # p
        <5>1. D[n] = C[n] /\ n \in InHeap(D)
          BY <4>3, <4>5, <4>2, <1>2, <1>5
        <5>2. Tells(D, a, n, state)
          BY <5>1, <4>2, <3>1 DEF Tells
        <5> QED
          BY <5>1, <5>2, <4>2, <3>1 DEF n
      <4> QED
        BY <4>4, <4>5
    <3>7. ASSUME a # S[j].base PROVE \E b \in InHeap(D) : b + D[b].size = a /\ Holds(S[j], b)
      <4>1. PICK b \in InHeap(C) : b + C[b].size = a /\ Holds(S[j], b)
        BY <3>1, <3>7, <1>1 DEF Linked
      <4>2. b \in DOMAIN C /\ b \in Nat /\ C[b].size \in Nat /\ C[b].size > 0
        BY <1>1, ChunkFields DEF InHeap
      <4>3. b < p \/ b >= e
        <5>1. p <= b /\ b < e => Holds(S[1], b)
          BY <4>2, <1>11, <1>3
        <5> QED
          BY <5>1, <4>1, <4>2, <3>4, <1>1, <1>2, <1>3, <2>1, OneSegment
      <4> QED
        BY <4>1, <4>2, <4>3, <1>5
    <3> QED
      BY <3>5, <3>6, <3>7
  <2> QED
    BY <1>2, <1>3, <2>1, <2>2, <2>3
<1> QED
  BY <1>1, <1>10, <1>13, <1>14, <1>16, <1>17 DEF Shape

\* What is between p and e changes hands: the used part belongs to the
\* callers, the free part is out of the bins, and the rest stays where it is.
UsedOf(D, L, p, e) == {a \in L : a < p \/ a >= e} \cup {a \in DOMAIN D : p <= a /\ a < e /\ D[a].cin}
LooseOf(D, U, p, e, q) ==
  {a \in U : a < p \/ a >= e} \cup {a \in DOMAIN D : p <= a /\ a < e /\ ~D[a].cin /\ a # q}

\* Where only the chunks of p .. e - 1 change, the accounts outside stand: every chunk in
\* use has its owner and every free one its bin, the top or the victim.
LEMMA Accounts ==
  ASSUME NEW C, NEW D, NEW S, NEW top, NEW q, NEW state, NEW L, NEW U,
         NEW small, NEW tree, NEW dv, NEW p \in Nat, NEW e \in Nat,
         Shape(C, S, top, state), Shape(D, S, q, state),
         Owned(C, S, state, L), Placed(C, small, tree, dv, top, U),
         \A a \in Nat : a < p \/ a >= e =>
            /\ (a \in DOMAIN D <=> a \in DOMAIN C) /\ (a \in InHeap(D) <=> a \in InHeap(C))
            /\ a \in DOMAIN C => D[a].size = C[a].size /\ D[a].cin = C[a].cin,
         \A a \in DOMAIN D : p <= a /\ a < e => a \in InHeap(D),
         \A a \in DOMAIN C : p <= a /\ a < e => a \in InHeap(C) /\ a \in L \cup U \cup {top},
         IF p <= top /\ top < e THEN p <= q /\ q < e ELSE q = top
  PROVE  /\ Owned(D, S, state, UsedOf(D, L, p, e))
         /\ Placed(D, small, tree, dv, q, LooseOf(D, U, p, e, q))
<1>1. Heads(C) /\ Heads(D) /\ Ends(C, S, top, state) /\ Ends(D, S, q, state)
  BY DEF Shape
<1>2. DOMAIN C \subseteq Nat /\ DOMAIN D \subseteq Nat
  BY <1>1 DEF Heads
<1>3. /\ \A a \in DOMAIN C : C[a].cin \in BOOLEAN /\ C[a].pin \in BOOLEAN
      /\ \A a \in DOMAIN D : D[a].cin \in BOOLEAN /\ D[a].pin \in BOOLEAN
  BY <1>1, ChunkFields
<1>4. /\ \A a \in DOMAIN D : (D[a].cin \/ ~D[a].pin) <=> (a \in InHeap(D) => D[a].cin)
      /\ \A a \in DOMAIN C : (C[a].cin \/ ~C[a].pin) <=> (a \in InHeap(C) => C[a].cin)
      /\ Idle_(C) = {a \in InHeap(C) : ~C[a].cin} /\ Idle_(D) = {a \in InHeap(D) : ~D[a].cin}
  BY <1>3 DEF InHeap, Idle_
<1>5. \A a \in DOMAIN C : p <= a /\ a < e => a \notin {state} \cup Records_(S)
  <2> SUFFICES ASSUME NEW a \in DOMAIN C, p <= a, a < e
               PROVE  a \notin {state} \cup Records_(S)
    OBVIOUS
  <2>1. a \in InHeap(C) /\ a \in L \cup U \cup {top}
    OBVIOUS
  <2>2. a \in U \cup {top} => a \in Idle_(C)
    BY DEF Placed
  <2>3. \A b \in {state} \cup Records_(S) : C[b].cin
    BY <1>1 DEF Ends, Records_
  <2> QED
    BY <2>1, <2>2, <2>3, <1>4 DEF Owned
<1>6. {state} \cup Records_(S) \subseteq DOMAIN C
  BY <1>1 DEF Ends, Records_, InHeap
<1>7. L \subseteq DOMAIN C /\ U \subseteq DOMAIN C
  BY DEF Owned, Placed, Idle_
<1>8. Owned(D, S, state, UsedOf(D, L, p, e))
  <2>1. ASSUME NEW a \in DOMAIN D
        PROVE  (D[a].cin \/ ~D[a].pin) <=> a \in UsedOf(D, L, p, e) \cup {state} \cup Records_(S)
    <3>1. CASE p <= a /\ a < e
      <4>1. a \notin {state} \cup Records_(S)
        BY <3>1, <1>5, <1>6
      <4> QED
        BY <3>1, <4>1, <1>2, <1>4 DEF UsedOf
    <3>2. CASE a < p \/ a >= e
      <4>1. a \in DOMAIN C /\ ((D[a].cin \/ ~D[a].pin) <=> (C[a].cin \/ ~C[a].pin))
        BY <3>2, <1>2, <1>4
      <4>2. a \in UsedOf(D, L, p, e) <=> a \in L
        BY <3>2, <1>2 DEF UsedOf
      <4> QED
        BY <4>1, <4>2 DEF Owned
    <3> QED
      BY <1>2, <3>1, <3>2
  <2>2. UsedOf(D, L, p, e) \cup {state} \cup Records_(S) \subseteq DOMAIN D
    BY <1>2, <1>5, <1>6, <1>7 DEF UsedOf
  <2>3. ASSUME NEW a \in UsedOf(D, L, p, e) PROVE a \notin {state} \cup Records_(S)
    <3>1. a \in L \/ (a \in DOMAIN D /\ p <= a /\ a < e)
      BY DEF UsedOf
    <3> QED
      BY <3>1, <1>5, <1>6 DEF Owned
  <2> QED
    BY <2>1, <2>2, <2>3 DEF Owned
<1> DEFINE B == Binned_(small, tree)
           V == LooseOf(D, U, p, e, q)
<1> HIDE DEF B
<1>9. /\ Idle_(C) = {top} \cup B \cup ({dv} \ {0}) \cup U
      /\ top # dv /\ top \notin B \cup U /\ dv \notin B \cup U /\ U \cap B = {}
  BY DEF Placed, B
<1>10. 0 \notin DOMAIN C /\ 0 \notin DOMAIN D
  BY <1>1 DEF Heads
<1>11. ASSUME NEW a \in B \cup ({dv} \ {0})
       PROVE  a \in DOMAIN C /\ a \in Nat /\ (a < p \/ a >= e) /\ a \in Idle_(C)
  <2>1. a \in Idle_(C) /\ a \in DOMAIN C /\ a \in Nat /\ a \notin U /\ a # top
    BY <1>2, <1>9 DEF Idle_
  <2>2. a \notin L
    BY <2>1 DEF Owned, Idle_
  <2> QED
    BY <1>2, <2>1, <2>2
<1>12. top \in DOMAIN C /\ q \in DOMAIN D /\ q \in Idle_(D) /\ top \in Nat /\ q \in Nat
  BY <1>1, <1>2, <1>4 DEF Ends, InHeap
<1>13. q \notin V /\ dv \notin V /\ V \cap B = {} /\ q # dv /\ q \notin B
  <2>1. q \notin V
    BY <1>2, <1>9, <1>12 DEF LooseOf
  <2>2. ASSUME NEW a \in B \cup {dv} PROVE a \notin V
    <3>1. a \notin U
      BY <1>9
    <3>2. a \in V => a \in DOMAIN D /\ p <= a /\ a < e
      BY <3>1 DEF LooseOf
    <3> QED
      BY <3>2, <1>2, <1>10, <1>11
  <2>3. q \notin B \cup {dv}
    <3>1. CASE q = top
      BY <3>1, <1>9
    <3>2. CASE p <= q /\ q < e
      BY <3>2, <1>10, <1>11, <1>12
    <3> QED
      BY <3>1, <3>2
  <2> QED
    BY <2>1, <2>2, <2>3
<1>14. Idle_(D) = {q} \cup B \cup ({dv} \ {0}) \cup V
  <2>1. ASSUME NEW a \in Idle_(D) PROVE a \in {q} \cup B \cup ({dv} \ {0}) \cup V
    <3>1. a \in DOMAIN D /\ a \in Nat /\ ~D[a].cin /\ a \in InHeap(D)
      BY <1>2, <1>4 DEF InHeap
    <3>2. CASE p <= a /\ a < e
      BY <3>1, <3>2 DEF LooseOf
    <3>3. CASE a < p \/ a >= e
      <4>1. a \in Idle_(C)
        BY <3>1, <3>3, <1>4 DEF InHeap
      <4>2. a = top => a = q
        BY <3>3, <3>1
      <4> QED
        BY <4>1, <4>2, <3>3, <1>9 DEF LooseOf
    <3> QED
      BY <1>2, <3>1, <3>2, <3>3
  <2>2. ASSUME NEW a \in B \cup ({dv} \ {0}) PROVE a \in Idle_(D)
    BY <2>2, <1>4, <1>11
  <2>3. ASSUME NEW a \in V PROVE a \in Idle_(D)
    <3>1. CASE a \in DOMAIN D /\ p <= a /\ a < e /\ ~D[a].cin
      BY <3>1, <1>4
    <3>2. CASE a \in U /\ (a < p \/ a >= e)
      <4>1. a \in Idle_(C) /\ a \in Nat
        BY <3>2, <1>2, <1>7, <1>9
      <4> QED
        BY <3>2, <4>1, <1>4 DEF InHeap
    <3> QED
      BY <3>1, <3>2 DEF LooseOf
  <2> QED
    BY <2>1, <2>2, <2>3, <1>12
<1>15. \A a \in B : D[a].size = C[a].size
  BY <1>11
<1>16. Placed(D, small, tree, dv, q, V)
  <2>1. \A n \in SmallSizes : \A a \in Range(small[n]) : a \in B
    BY DEF B, Binned_
  <2>2. \A a \in tree : a \in B
    <3>1. tree \subseteq Binned_(small, tree)
      BY DEF Binned_
    <3> QED
      BY <3>1 DEF B
  <2>3. {q, dv} \cap (B \cup V) = {} /\ q # dv
    BY <1>9, <1>13
  <2> QED
    BY <1>13, <1>14, <1>15, <2>1, <2>2, <2>3 DEF Placed, B
<1> QED
  BY <1>8, <1>16

\* Mappings that stay as they are keep what the system lent.
LEMMA LentFrame ==
  ASSUME NEW C, NEW D, NEW S, NEW backed, NEW footprint,
         Lent(C, S, backed, footprint),
         Maps(D) = Maps(C), \A a \in Maps(C) : D[a] = C[a]
  PROVE  Lent(D, S, backed, footprint)
<1>1. \A a \in Maps(C) : MapBase(D, a) = MapBase(C, a) /\ MapLength(D, a) = MapLength(C, a)
  BY DEF MapBase, MapLength
<1> QED
  BY <1>1 DEF Lent

\* Two heaps that differ in nothing but the named fields.
SameBut(g, h, fields) == IsHeap(g) /\ \A f \in HeapFields \ fields : g[f] = h[f]

\* Joining and cutting chunks that are the caller's or loose keeps a space sound.
LEMMA SoundSplice ==
  ASSUME NEW h, NEW g, NEW L, NEW U, Sound(h, L, U), SameBut(g, h, {"chunk"}),
         Heads(g.chunk), NEW i \in DOMAIN h.segs,
         NEW p \in InHeap(h.chunk), NEW e \in InHeap(h.chunk),
         Holds(h.segs[i], p), Holds(h.segs[i], e), p < e,
         \A a \in DOMAIN h.chunk : p <= a /\ a < e => a \in L \cup U,
         Between(h.chunk, g.chunk, p, e), Chained(g.chunk, p, e),
         g.chunk[e].size = h.chunk[e].size, g.chunk[e].cin = h.chunk[e].cin
  PROVE  Sound(g, UsedOf(g.chunk, L, p, e), LooseOf(g.chunk, U, p, e, g.top))
<1> DEFINE C == h.chunk
           D == g.chunk
           S == h.segs
           L2 == UsedOf(D, L, p, e)
           U2 == LooseOf(D, U, p, e, g.top)
<1>1. /\ Shape(C, S, h.top, h.state) /\ Owned(C, S, h.state, L)
      /\ Placed(C, h.small, h.tree, h.dv, h.top, U)
      /\ Sizes(C, h.dv, h.dvsize, h.top, h.topsize)
      /\ Lent(C, S, h.backed, h.footprint) /\ Settings(h)
  BY DEF Sound
<1>2. /\ IsHeap(g) /\ g.small = h.small /\ g.tree = h.tree /\ g.dv = h.dv
      /\ g.dvsize = h.dvsize /\ g.top = h.top /\ g.topsize = h.topsize /\ g.segs = S
      /\ g.state = h.state /\ g.backed = h.backed /\ g.footprint = h.footprint
      /\ g.limit = h.limit /\ g.least = h.least /\ g.trimcheck = h.trimcheck
      /\ g.checks = h.checks /\ g.mmapon = h.mmapon
  BY DEF SameBut, HeapFields
<1>3. /\ Heads(C) /\ Heads(D) /\ Apart(C) /\ Segments(S) /\ Ends(C, S, h.top, h.state)
      /\ Linked(C, S, h.top, h.state)
  BY <1>1 DEF Shape
<1>4. /\ p \in Nat /\ e \in Nat /\ p \in DOMAIN C /\ e \in DOMAIN C /\ DOMAIN C \subseteq Nat
      /\ DOMAIN D \subseteq Nat
  BY <1>3 DEF InHeap, Heads
<1>5. \A a \in DOMAIN C : p <= a /\ a < e => a \notin {h.state, h.top}
  <2>1. h.state \notin L /\ h.state \notin U
    BY <1>1, <1>3 DEF Owned, Ends, Placed, Idle_
  <2>2. h.top \notin L /\ h.top \notin U
    BY <1>1, <1>3 DEF Owned, Ends, Placed, InHeap
  <2> QED
    BY <2>1, <2>2
<1>6. h.state \in Nat /\ h.top \in Nat /\ h.state \in DOMAIN C /\ h.top \in DOMAIN C
  BY <1>3, <1>4 DEF Ends, InHeap
<1>7. (h.state < p \/ e <= h.state) /\ (h.top < p \/ e <= h.top)
  BY <1>4, <1>5, <1>6
<1> HIDE DEF C, D, S
<1>8. Shape(D, S, h.top, h.state)
  BY <1>1, <1>2, <1>7, Splice DEF C, D, S
<1>9. e \in InHeap(D)
  <2>1. PICK b \in DOMAIN D : p <= b /\ b < e /\ b + D[b].size = e
    BY DEF Chained, D
  <2>2. Tells(D, b, e, 0) /\ b + D[b].size \in DOMAIN D
    BY <2>1 DEF Chained, D
  <2> QED
    BY <1>3, <1>4, <2>1, <2>2, ChunkFields DEF Tells, InHeap
<1>10. \A a \in Nat : a < p \/ a >= e =>
         /\ (a \in DOMAIN D <=> a \in DOMAIN C) /\ (a \in InHeap(D) <=> a \in InHeap(C))
         /\ a \in DOMAIN C => D[a].size = C[a].size /\ D[a].cin = C[a].cin
         /\ a \in DOMAIN C /\ a # e => D[a] = C[a]
  BY <1>4, <1>9 DEF Between, InHeap, C, D
<1>11. \A a \in DOMAIN D : p <= a /\ a < e => a \in InHeap(D)
  BY DEF Chained, D
<1>12. \A a \in DOMAIN C : p <= a /\ a < e => a \in InHeap(C) /\ a \in L \cup U \cup {h.top}
  <2> SUFFICES ASSUME NEW a \in DOMAIN C, p <= a, a < e PROVE a \in InHeap(C)
    BY DEF C
  <2>1. Holds(S[i], a)
    BY <1>3, <1>4, WithinSegment DEF S
  <2> QED
    BY <1>1, <2>1 DEF Shape, C, S
<1>13. Owned(D, S, h.state, L2) /\ Placed(D, h.small, h.tree, h.dv, h.top, U2)
  <2>1. \A a \in Nat : a < p \/ a >= e =>
            /\ (a \in DOMAIN D <=> a \in DOMAIN C) /\ (a \in InHeap(D) <=> a \in InHeap(C))
            /\ a \in DOMAIN C => D[a].size = C[a].size /\ D[a].cin = C[a].cin
    BY <1>10
  <2>2. IF p <= h.top /\ h.top < e THEN p <= h.top /\ h.top < e ELSE h.top = h.top
    OBVIOUS
  <2>3. Shape(C, S, h.top, h.state) /\ Owned(C, S, h.state, L)
        /\ Placed(C, h.small, h.tree, h.dv, h.top, U)
    BY <1>1 DEF C, S
  <2>4. /\ Owned(D, S, h.state, UsedOf(D, L, p, e))
        /\ Placed(D, h.small, h.tree, h.dv, h.top, LooseOf(D, U, p, e, h.top))
    BY <1>4, <1>8, <1>11, <1>12, <2>1, <2>2, <2>3, Accounts, ZenonT(30)
  <2> QED
    BY <1>2, <2>4
<1>14. Sizes(D, h.dv, h.dvsize, h.top, h.topsize)
  <2>1. h.dv # 0 => h.dv \in DOMAIN C /\ (h.dv < p \/ h.dv >= e) /\ h.dv \in Nat
    <3> SUFFICES ASSUME h.dv # 0 PROVE h.dv \in DOMAIN C /\ (h.dv < p \/ h.dv >= e) /\ h.dv \in Nat
      OBVIOUS
    <3>1. h.dv \in Idle_(C) /\ h.dv \notin U
      BY <1>1 DEF Placed, C
    <3>2. h.dv \notin L
      BY <1>1, <3>1 DEF Owned, Idle_, C
    <3> QED
      BY <3>1, <3>2, <1>4 DEF Idle_, C
  <2> QED
    BY <1>1, <1>6, <1>7, <1>10, <2>1 DEF Sizes, C
<1>15. Lent(D, S, h.backed, h.footprint)
  <2>1. \A a \in DOMAIN C : a \in Maps(C) <=> a \notin InHeap(C)
    BY DEF Maps, InHeap
  <2>2. \A a \in DOMAIN D : a \in Maps(D) <=> a \notin InHeap(D)
    BY DEF Maps, InHeap
  <2>3. e \notin Maps(C)
    BY <2>1, <1>4 DEF C
  <2>4. \A a \in Maps(C) : a \in Nat /\ (a < p \/ a >= e) /\ a # e /\ a \in DOMAIN C
    BY <1>4, <1>12, <2>1, <2>3 DEF Maps, C
  <2>5. Maps(C) \subseteq Maps(D) /\ \A a \in Maps(C) : D[a] = C[a]
    BY <1>10, <2>1, <2>2, <2>4
  <2>6. \A a \in Maps(D) : a \in Nat /\ (a < p \/ a >= e) /\ a \in DOMAIN D
    BY <1>4, <1>11, <2>2 DEF Maps, D
  <2>7. Maps(D) \subseteq Maps(C)
    BY <1>10, <2>1, <2>2, <2>6
  <2> QED
    BY <1>1, <2>5, <2>7, LentFrame DEF C, S
<1>16. Settings(g)
  <2>1. \A a \in DOMAIN D : a >= h.least
    <3> SUFFICES ASSUME NEW a \in DOMAIN D PROVE a >= h.least
      OBVIOUS
    <3>1. \A b \in DOMAIN C : b >= h.least
      BY <1>1 DEF Settings, C
    <3> QED
      BY <3>1, <1>1, <1>4, <1>10 DEF Settings
  <2> QED
    BY <1>1, <1>2, <2>1 DEF Settings, D, S
<1> QED
  BY <1>2, <1>8, <1>13, <1>14, <1>15, <1>16 DEF Sound, C, D, S

\* So does joining and cutting the chunks before the end of the top, and the top.
LEMMA SoundSpliceTop ==
  ASSUME NEW h, NEW g, NEW L, NEW U, Sound(h, L, U), SameBut(g, h, {"chunk", "top", "topsize"}),
         Heads(g.chunk), NEW p \in InHeap(h.chunk), Holds(h.segs[1], p), p <= h.top,
         NEW q \in DOMAIN g.chunk, g.top = q, g.topsize = g.chunk[q].size,
         \A a \in DOMAIN h.chunk : p <= a /\ a < End(h.segs[1]) => a \in L \cup U \cup {h.top},
         Between(h.chunk, g.chunk, p, End(h.segs[1]) - TopFoot),
         p = q \/ (p < q /\ Chained(g.chunk, p, q)),
         g.chunk[q].pin, ~g.chunk[q].cin, q + g.chunk[q].size = End(h.segs[1]) - TopFoot,
         \A a \in DOMAIN g.chunk : a <= q \/ a >= End(h.segs[1]) - TopFoot
  PROVE  Sound(g, UsedOf(g.chunk, L, p, End(h.segs[1]) - TopFoot),
               LooseOf(g.chunk, U, p, End(h.segs[1]) - TopFoot, q))
<1> DEFINE C == h.chunk
           D == g.chunk
           S == h.segs
           e == End(S[1]) - TopFoot
<1>1. /\ Shape(C, S, h.top, h.state) /\ Owned(C, S, h.state, L)
      /\ Placed(C, h.small, h.tree, h.dv, h.top, U)
      /\ Sizes(C, h.dv, h.dvsize, h.top, h.topsize)
      /\ Lent(C, S, h.backed, h.footprint) /\ Settings(h)
  BY DEF Sound
<1>2. /\ IsHeap(g) /\ g.small = h.small /\ g.tree = h.tree /\ g.dv = h.dv
      /\ g.dvsize = h.dvsize /\ g.segs = S
      /\ g.state = h.state /\ g.backed = h.backed /\ g.footprint = h.footprint
      /\ g.limit = h.limit /\ g.least = h.least /\ g.trimcheck = h.trimcheck
      /\ g.checks = h.checks /\ g.mmapon = h.mmapon
  BY DEF SameBut, HeapFields
<1>3. /\ Heads(C) /\ Heads(D) /\ Apart(C) /\ Segments(S) /\ Ends(C, S, h.top, h.state)
      /\ Linked(C, S, h.top, h.state)
  BY <1>1 DEF Shape
<1>4. /\ p \in Nat /\ p \in DOMAIN C /\ DOMAIN C \subseteq Nat
      /\ DOMAIN D \subseteq Nat /\ p \in DOMAIN D /\ q \in Nat
      /\ D[q].size \in Nat /\ D[q].size > 0
  BY <1>3, ChunkFields DEF InHeap, Heads, Between
<1>5. /\ 1 \in DOMAIN S /\ h.top \in Nat /\ h.top < e /\ e \in Nat /\ S[1].base <= h.top
      /\ Holds(S[1], h.top) /\ e < End(S[1]) /\ End(S[1]) \in Nat /\ S[1].base \in Nat
      /\ h.top \in DOMAIN C /\ q < e /\ p <= q /\ S[1].base <= p
      /\ End(S[1]) = S[1].base + S[1].size
      /\ \A a \in DOMAIN C : a <= h.top \/ a >= End(S[1])
  <2>1. /\ 1 \in DOMAIN S /\ Holds(S[1], h.top) /\ h.top \in DOMAIN C /\ h.top \in Nat
        /\ e \in Nat /\ h.top < e /\ S[1].base <= h.top
        /\ \A a \in DOMAIN C : a <= h.top \/ a >= End(S[1])
    BY <1>1, TopIsLast
  <2>2. /\ S[1].base \in Nat /\ S[1].size \in Nat /\ End(S[1]) = S[1].base + S[1].size
    BY <1>3, <2>1, SegmentFields
  <2>3. e < End(S[1]) /\ End(S[1]) \in Nat
    BY <2>2, Numbers
  <2>4. q + D[q].size = e
    OBVIOUS
  <2>5. q < e
    BY <2>4, <1>4
  <2>6. p <= q
    BY <1>4
  <2>7. S[1].base <= p
    BY DEF Holds
  <2> QED
    BY <2>1, <2>2, <2>3, <2>5, <2>6, <2>7
<1>6. h.state < p \/ h.state >= e
  <2>1. h.state \notin L /\ h.state \notin U /\ h.state # h.top
    BY <1>1, <1>3 DEF Owned, Ends, Placed, Idle_
  <2>2. h.state \in DOMAIN C /\ h.state \in Nat
    BY <1>3, <1>4 DEF Ends, InHeap
  <2>3. ~(p <= h.state /\ h.state < End(S[1]))
    BY <2>1, <2>2
  <2> QED
    BY <2>2, <2>3, <1>4, <1>5
<1> HIDE DEF C, D, S, e
<1>7. Shape(D, S, q, h.state)
  BY <1>1, <1>3, <1>6, SpliceTop DEF C, D, S, e
<1>8. \A a \in Nat : p <= a /\ a <= e => Holds(S[1], a)
  BY <1>4, <1>5, <1>3, SegmentFields DEF Holds
<1>9. \A a \in Nat : a < p \/ a >= e =>
         /\ (a \in DOMAIN D <=> a \in DOMAIN C) /\ (a \in InHeap(D) <=> a \in InHeap(C))
         /\ a \in DOMAIN C => D[a] = C[a]
  <2>1. e \notin DOMAIN C
    BY <1>5
  <2> QED
    BY <2>1, <1>4, <1>5 DEF Between, InHeap, C, D, S, e
<1>10. \A a \in DOMAIN D : p <= a /\ a < e => a \in InHeap(D)
  BY <1>4, <1>5, <1>7, <1>8 DEF Shape
<1>11. \A a \in DOMAIN C : p <= a /\ a < e => a \in InHeap(C) /\ a \in L \cup U \cup {h.top}
  BY <1>1, <1>4, <1>5, <1>8 DEF Shape, C, S
<1>12. Owned(D, S, h.state, UsedOf(D, L, p, e))
       /\ Placed(D, h.small, h.tree, h.dv, q, LooseOf(D, U, p, e, q))
  <2>1. \A a \in Nat : a < p \/ a >= e =>
            /\ (a \in DOMAIN D <=> a \in DOMAIN C) /\ (a \in InHeap(D) <=> a \in InHeap(C))
            /\ a \in DOMAIN C => D[a].size = C[a].size /\ D[a].cin = C[a].cin
    BY <1>9
  <2>2. IF p <= h.top /\ h.top < e THEN p <= q /\ q < e ELSE q = h.top
    BY <1>5
  <2>3. Shape(C, S, h.top, h.state) /\ Owned(C, S, h.state, L)
        /\ Placed(C, h.small, h.tree, h.dv, h.top, U)
    BY <1>1 DEF C, S
  <2> QED
    BY <1>4, <1>5, <1>7, <1>10, <1>11, <2>1, <2>2, <2>3, Accounts
<1>13. Sizes(D, h.dv, h.dvsize, q, g.topsize)
  <2>1. h.dv # 0 => h.dv \in DOMAIN C /\ (h.dv < p \/ h.dv >= e) /\ h.dv \in Nat
    <3> SUFFICES ASSUME h.dv # 0 PROVE h.dv \in DOMAIN C /\ (h.dv < p \/ h.dv >= e) /\ h.dv \in Nat
      OBVIOUS
    <3>1. h.dv \in Idle_(C) /\ h.dv \notin U /\ h.dv # h.top
      BY <1>1 DEF Placed, C
    <3>2. h.dv \notin L
      BY <1>1, <3>1 DEF Owned, Idle_, C
    <3>3. h.dv \in DOMAIN C /\ h.dv \in Nat
      BY <3>1, <1>4 DEF Idle_
    <3> QED
      BY <3>1, <3>2, <3>3, <1>4, <1>5, <1>11
  <2> QED
    BY <1>1, <1>9, <2>1 DEF Sizes, C, D
<1>14. Lent(D, S, h.backed, h.footprint)
  <2>1. \A a \in DOMAIN C : a \in Maps(C) <=> a \notin InHeap(C)
    BY DEF Maps, InHeap
  <2>2. \A a \in DOMAIN D : a \in Maps(D) <=> a \notin InHeap(D)
    BY DEF Maps, InHeap
  <2>3. \A a \in Maps(C) : a \in Nat /\ (a < p \/ a >= e) /\ a \in DOMAIN C
    BY <1>4, <1>5, <1>11, <2>1 DEF Maps
  <2>4. Maps(C) \subseteq Maps(D) /\ \A a \in Maps(C) : D[a] = C[a]
    BY <1>9, <2>1, <2>2, <2>3
  <2>5. \A a \in Maps(D) : a \in Nat /\ (a < p \/ a >= e) /\ a \in DOMAIN D
    BY <1>4, <1>5, <1>10, <2>2 DEF Maps
  <2>6. Maps(D) \subseteq Maps(C)
    BY <1>9, <2>1, <2>2, <2>5
  <2> QED
    BY <1>1, <2>4, <2>6, LentFrame DEF C, S
<1>15. Settings(g)
  <2>1. \A a \in DOMAIN D : a >= h.least
    <3> SUFFICES ASSUME NEW a \in DOMAIN D PROVE a >= h.least
      OBVIOUS
    <3>1. \A b \in DOMAIN C : b >= h.least
      BY <1>1 DEF Settings, C
    <3> QED
      BY <3>1, <1>1, <1>4, <1>5, <1>9 DEF Settings
  <2> QED
    BY <1>1, <1>2, <2>1 DEF Settings, D, S
<1> QED
  BY <1>2, <1>7, <1>12, <1>13, <1>14, <1>15 DEF Sound, C, D, S, e

----------------------------------------------------------------------------
(* Writing a head. *)

\* A head at a of size n covers the heads up to a + n; the one there keeps
\* its size and its own use.
Overwrites(C, D, a, n) ==
  /\ DOMAIN D = {b \in DOMAIN C : b < a \/ b >= a + n} \cup {a}
  /\ \A b \in DOMAIN D : b # a /\ b # a + n => D[b] = C[b]
  /\ D[a].size = n
  /\ D[a].foot = IF a \in DOMAIN C THEN C[a].foot ELSE Stamp
  /\ a + n \in DOMAIN C => D[a + n].size = C[a + n].size /\ D[a + n].cin = C[a + n].cin

\* The heap with other chunks.
LEMMA NewChunks ==
  ASSUME NEW h, IsHeap(h), NEW D
  PROVE  /\ [h EXCEPT !.chunk = D].chunk = D
         /\ SameBut([h EXCEPT !.chunk = D], h, {"chunk"})
BY DEF IsHeap, SameBut, HeapFields

\* Put writes one head and changes no other.
LEMMA PutOf ==
  ASSUME NEW h, IsHeap(h), Heads(h.chunk), NEW a \in Nat \ {0}, NEW n \in Nat \ {0},
         NEW cin \in BOOLEAN, NEW pin \in BOOLEAN
  PROVE  /\ SameBut(Put(h, a, n, cin, pin), h, {"chunk"}) /\ IsHeap(Put(h, a, n, cin, pin))
         /\ Heads(Put(h, a, n, cin, pin).chunk)
         /\ Overwrites(h.chunk, Put(h, a, n, cin, pin).chunk, a, n)
         /\ (Put(h, a, n, cin, pin).chunk[a].cin <=> cin)
         /\ (Put(h, a, n, cin, pin).chunk[a].pin <=> pin)
         /\ a + n \in DOMAIN h.chunk => Put(h, a, n, cin, pin).chunk[a + n] = h.chunk[a + n]
<1> DEFINE C == h.chunk
           foot == IF a \in DOMAIN C THEN C[a].foot ELSE Stamp
           D == [b \in {b \in DOMAIN C : b < a \/ b >= a + n} \cup {a} |->
                   IF b = a THEN [size |-> n, cin |-> cin, pin |-> pin, foot |-> foot] ELSE C[b]]
<1>1. foot \in Nat
  BY ChunkFields, Numbers
<1>2. Put(h, a, n, cin, pin) = [h EXCEPT !.chunk = D]
  BY DEF Put
<1>3. Put(h, a, n, cin, pin).chunk = D /\ SameBut(Put(h, a, n, cin, pin), h, {"chunk"})
  BY <1>2, NewChunks
<1>4. DOMAIN C \subseteq Nat \ {0} /\ \A b \in DOMAIN C : C[b] \in Header
  BY DEF Heads
<1>5. [size |-> n, cin |-> cin, pin |-> pin, foot |-> foot] \in Header
  BY <1>1 DEF Header
<1>6. Heads(D)
  BY <1>4, <1>5 DEF Heads
<1>7. a + n # a
  OBVIOUS
<1>8. Overwrites(C, D, a, n)
  BY <1>4, <1>7 DEF Overwrites
<1>9. (D[a].cin <=> cin) /\ (D[a].pin <=> pin) /\ (a + n \in DOMAIN C => D[a + n] = C[a + n])
  BY <1>4, <1>7
<1> QED
  BY <1>3, <1>6, <1>8, <1>9 DEF SameBut

\* Changing one bit of a head, or the word before it, changes nothing else.
LEMMA SetPinOf ==
  ASSUME NEW h, IsHeap(h), Heads(h.chunk), NEW a, NEW v \in BOOLEAN
  PROVE  /\ SameBut(SetPin(h, a, v), h, {"chunk"}) /\ IsHeap(SetPin(h, a, v))
         /\ Heads(SetPin(h, a, v).chunk) /\ DOMAIN SetPin(h, a, v).chunk = DOMAIN h.chunk
         /\ \A b \in DOMAIN h.chunk : b # a => SetPin(h, a, v).chunk[b] = h.chunk[b]
         /\ a \in DOMAIN h.chunk =>
              /\ (SetPin(h, a, v).chunk[a].pin <=> v)
              /\ SetPin(h, a, v).chunk[a].size = h.chunk[a].size
              /\ SetPin(h, a, v).chunk[a].cin = h.chunk[a].cin
              /\ SetPin(h, a, v).chunk[a].foot = h.chunk[a].foot
<1>1. CASE a \notin DOMAIN h.chunk
  <2>1. SetPin(h, a, v) = h
    BY <1>1 DEF SetPin
  <2> QED
    BY <1>1, <2>1 DEF SameBut
<1>2. CASE a \in DOMAIN h.chunk
  <2> DEFINE D == [h.chunk EXCEPT ![a].pin = v]
  <2>1. SetPin(h, a, v) = [h EXCEPT !.chunk = D]
    BY <1>2 DEF SetPin
  <2>2. SetPin(h, a, v).chunk = D /\ SameBut(SetPin(h, a, v), h, {"chunk"})
    BY <2>1, NewChunks
  <2>3. DOMAIN D = DOMAIN h.chunk /\ \A b \in DOMAIN h.chunk : b # a => D[b] = h.chunk[b]
    OBVIOUS
  <2>4. h.chunk[a] \in Header /\ D[a] = [h.chunk[a] EXCEPT !.pin = v]
    BY <1>2 DEF Heads
  <2>5. D[a] \in Header /\ D[a].pin = v /\ D[a].size = h.chunk[a].size
        /\ D[a].cin = h.chunk[a].cin /\ D[a].foot = h.chunk[a].foot
    BY <2>4 DEF Header
  <2>6. Heads(D)
    BY <2>3, <2>5 DEF Heads
  <2> QED
    BY <2>2, <2>3, <2>5, <2>6 DEF SameBut
<1> QED
  BY <1>1, <1>2

\* Writing a foot changes nothing else.
LEMMA SetFootOf ==
  ASSUME NEW h, IsHeap(h), Heads(h.chunk), NEW a, NEW v \in Nat
  PROVE  /\ SameBut(SetFoot(h, a, v), h, {"chunk"}) /\ IsHeap(SetFoot(h, a, v))
         /\ Heads(SetFoot(h, a, v).chunk) /\ DOMAIN SetFoot(h, a, v).chunk = DOMAIN h.chunk
         /\ \A b \in DOMAIN h.chunk : b # a => SetFoot(h, a, v).chunk[b] = h.chunk[b]
         /\ a \in DOMAIN h.chunk =>
              /\ SetFoot(h, a, v).chunk[a].foot = v
              /\ SetFoot(h, a, v).chunk[a].size = h.chunk[a].size
              /\ SetFoot(h, a, v).chunk[a].cin = h.chunk[a].cin
              /\ SetFoot(h, a, v).chunk[a].pin = h.chunk[a].pin
<1>1. CASE a \notin DOMAIN h.chunk
  <2>1. SetFoot(h, a, v) = h
    BY <1>1 DEF SetFoot
  <2> QED
    BY <1>1, <2>1 DEF SameBut
<1>2. CASE a \in DOMAIN h.chunk
  <2> DEFINE D == [h.chunk EXCEPT ![a].foot = v]
  <2>1. SetFoot(h, a, v) = [h EXCEPT !.chunk = D]
    BY <1>2 DEF SetFoot
  <2>2. SetFoot(h, a, v).chunk = D /\ SameBut(SetFoot(h, a, v), h, {"chunk"})
    BY <2>1, NewChunks
  <2>3. DOMAIN D = DOMAIN h.chunk /\ \A b \in DOMAIN h.chunk : b # a => D[b] = h.chunk[b]
    OBVIOUS
  <2>4. h.chunk[a] \in Header /\ D[a] = [h.chunk[a] EXCEPT !.foot = v]
    BY <1>2 DEF Heads
  <2>5. D[a] \in Header /\ D[a].foot = v /\ D[a].size = h.chunk[a].size
        /\ D[a].cin = h.chunk[a].cin /\ D[a].pin = h.chunk[a].pin
    BY <2>4 DEF Header
  <2>6. Heads(D)
    BY <2>3, <2>5 DEF Heads
  <2> QED
    BY <2>2, <2>3, <2>5, <2>6 DEF SameBut
<1> QED
  BY <1>1, <1>2

\* A chunk in use keeps its bit about its predecessor and tells its successor.
LEMMA UseOf ==
  ASSUME NEW h, IsHeap(h), Heads(h.chunk), NEW a \in Nat \ {0}, NEW n \in Nat \ {0},
         NEW e, e = a + n, NEW D, D = SetInUse(h, a, n).chunk
  PROVE  /\ SameBut(SetInUse(h, a, n), h, {"chunk"}) /\ IsHeap(SetInUse(h, a, n)) /\ Heads(D)
         /\ Overwrites(h.chunk, D, a, n) /\ D[a].cin /\ (D[a].pin <=> a \in DOMAIN h.chunk /\ h.chunk[a].pin)
         /\ e \in DOMAIN h.chunk => D[e].pin /\ D[e].foot = Stamp
<1> DEFINE pin == (a \in DOMAIN h.chunk /\ h.chunk[a].pin)
           cin == TRUE
           bit == TRUE
           g == Put(h, a, n, cin, pin)
           k == SetPin(g, a + n, bit)
<1>1. pin \in BOOLEAN /\ cin \in BOOLEAN /\ bit \in BOOLEAN
  BY ChunkFields
<1> HIDE DEF pin, cin, bit
<1>2. /\ SameBut(g, h, {"chunk"}) /\ IsHeap(g) /\ Heads(g.chunk)
      /\ Overwrites(h.chunk, g.chunk, a, n) /\ (g.chunk[a].cin <=> cin) /\ (g.chunk[a].pin <=> pin)
      /\ a + n \in DOMAIN h.chunk => g.chunk[a + n] = h.chunk[a + n]
  <2>1. SameBut(g, h, {"chunk"}) /\ IsHeap(g) /\ Heads(g.chunk)
    BY <1>1, PutOf
  <2>2. Overwrites(h.chunk, g.chunk, a, n)
    BY <1>1, PutOf
  <2>3. (g.chunk[a].cin <=> cin)
    BY <1>1, PutOf
  <2>4. (g.chunk[a].pin <=> pin)
    BY <1>1, PutOf
  <2>5. a + n \in DOMAIN h.chunk => g.chunk[a + n] = h.chunk[a + n]
    BY <1>1, PutOf
  <2> QED
    BY <2>1, <2>2, <2>3, <2>4, <2>5
<1> HIDE DEF g
<1>3. /\ SameBut(k, g, {"chunk"}) /\ IsHeap(k) /\ Heads(k.chunk)
      /\ DOMAIN k.chunk = DOMAIN g.chunk
      /\ \A b \in DOMAIN g.chunk : b # a + n => k.chunk[b] = g.chunk[b]
      /\ a + n \in DOMAIN g.chunk =>
           /\ (k.chunk[a + n].pin <=> bit)
           /\ k.chunk[a + n].size = g.chunk[a + n].size
           /\ k.chunk[a + n].cin = g.chunk[a + n].cin
  BY <1>1, <1>2, SetPinOf
<1> HIDE DEF k
<1>4. SetInUse(h, a, n) = SetFoot(k, a + n, Stamp) /\ Stamp \in Nat
  BY Numbers DEF SetInUse, k, g, pin, cin, bit
<1>5. /\ SameBut(SetInUse(h, a, n), k, {"chunk"}) /\ IsHeap(SetInUse(h, a, n)) /\ Heads(D)
      /\ DOMAIN D = DOMAIN k.chunk /\ \A b \in DOMAIN k.chunk : b # a + n => D[b] = k.chunk[b]
      /\ a + n \in DOMAIN k.chunk =>
           /\ D[a + n].foot = Stamp
           /\ D[a + n].size = k.chunk[a + n].size
           /\ D[a + n].cin = k.chunk[a + n].cin
           /\ D[a + n].pin = k.chunk[a + n].pin
  BY <1>3, <1>4, SetFootOf
<1>6. SameBut(SetInUse(h, a, n), h, {"chunk"})
  BY <1>2, <1>3, <1>5 DEF SameBut
<1>7. a # a + n /\ a + n > a
  OBVIOUS
<1>8. a + n \in DOMAIN h.chunk => a + n \in DOMAIN g.chunk
  BY <1>2, <1>7 DEF Overwrites
<1>9. a \in DOMAIN g.chunk
  BY <1>2 DEF Overwrites
<1>10. Overwrites(h.chunk, D, a, n)
  BY <1>2, <1>3, <1>5, <1>7, <1>8, <1>9 DEF Overwrites
<1>11. D[a] = g.chunk[a]
  BY <1>3, <1>5, <1>7, <1>9
<1> QED
  BY <1>2, <1>3, <1>5, <1>6, <1>8, <1>10, <1>11 DEF pin, cin, bit

\* One whose predecessor is in use.
LEMMA UseWholeOf ==
  ASSUME NEW h, IsHeap(h), Heads(h.chunk), NEW a \in Nat \ {0}, NEW n \in Nat \ {0},
         NEW e, e = a + n, NEW D, D = SetInUseWhole(h, a, n).chunk
  PROVE  /\ SameBut(SetInUseWhole(h, a, n), h, {"chunk"}) /\ IsHeap(SetInUseWhole(h, a, n)) /\ Heads(D)
         /\ Overwrites(h.chunk, D, a, n) /\ D[a].cin /\ D[a].pin
         /\ e \in DOMAIN h.chunk => D[e].pin /\ D[e].foot = Stamp
<1> DEFINE pin == TRUE
           cin == TRUE
           bit == TRUE
           g == Put(h, a, n, cin, pin)
           k == SetPin(g, a + n, bit)
<1>1. pin \in BOOLEAN /\ cin \in BOOLEAN /\ bit \in BOOLEAN
  BY ChunkFields
<1> HIDE DEF pin, cin, bit
<1>2. /\ SameBut(g, h, {"chunk"}) /\ IsHeap(g) /\ Heads(g.chunk)
      /\ Overwrites(h.chunk, g.chunk, a, n) /\ (g.chunk[a].cin <=> cin) /\ (g.chunk[a].pin <=> pin)
      /\ a + n \in DOMAIN h.chunk => g.chunk[a + n] = h.chunk[a + n]
  <2>1. SameBut(g, h, {"chunk"}) /\ IsHeap(g) /\ Heads(g.chunk)
    BY <1>1, PutOf
  <2>2. Overwrites(h.chunk, g.chunk, a, n)
    BY <1>1, PutOf
  <2>3. (g.chunk[a].cin <=> cin)
    BY <1>1, PutOf
  <2>4. (g.chunk[a].pin <=> pin)
    BY <1>1, PutOf
  <2>5. a + n \in DOMAIN h.chunk => g.chunk[a + n] = h.chunk[a + n]
    BY <1>1, PutOf
  <2> QED
    BY <2>1, <2>2, <2>3, <2>4, <2>5
<1> HIDE DEF g
<1>3. /\ SameBut(k, g, {"chunk"}) /\ IsHeap(k) /\ Heads(k.chunk)
      /\ DOMAIN k.chunk = DOMAIN g.chunk
      /\ \A b \in DOMAIN g.chunk : b # a + n => k.chunk[b] = g.chunk[b]
      /\ a + n \in DOMAIN g.chunk =>
           /\ (k.chunk[a + n].pin <=> bit)
           /\ k.chunk[a + n].size = g.chunk[a + n].size
           /\ k.chunk[a + n].cin = g.chunk[a + n].cin
  BY <1>1, <1>2, SetPinOf
<1> HIDE DEF k
<1>4. SetInUseWhole(h, a, n) = SetFoot(k, a + n, Stamp) /\ Stamp \in Nat
  BY Numbers DEF SetInUseWhole, k, g, pin, cin, bit
<1>5. /\ SameBut(SetInUseWhole(h, a, n), k, {"chunk"}) /\ IsHeap(SetInUseWhole(h, a, n)) /\ Heads(D)
      /\ DOMAIN D = DOMAIN k.chunk /\ \A b \in DOMAIN k.chunk : b # a + n => D[b] = k.chunk[b]
      /\ a + n \in DOMAIN k.chunk =>
           /\ D[a + n].foot = Stamp
           /\ D[a + n].size = k.chunk[a + n].size
           /\ D[a + n].cin = k.chunk[a + n].cin
           /\ D[a + n].pin = k.chunk[a + n].pin
  BY <1>3, <1>4, SetFootOf
<1>6. SameBut(SetInUseWhole(h, a, n), h, {"chunk"})
  BY <1>2, <1>3, <1>5 DEF SameBut
<1>7. a # a + n /\ a + n > a
  OBVIOUS
<1>8. a + n \in DOMAIN h.chunk => a + n \in DOMAIN g.chunk
  BY <1>2, <1>7 DEF Overwrites
<1>9. a \in DOMAIN g.chunk
  BY <1>2 DEF Overwrites
<1>10. Overwrites(h.chunk, D, a, n)
  BY <1>2, <1>3, <1>5, <1>7, <1>8, <1>9 DEF Overwrites
<1>11. D[a] = g.chunk[a]
  BY <1>3, <1>5, <1>7, <1>9
<1> QED
  BY <1>2, <1>3, <1>5, <1>6, <1>8, <1>10, <1>11 DEF pin, cin, bit

\* One whose successor is left to its own bit.
LEMMA UsePartOf ==
  ASSUME NEW h, IsHeap(h), Heads(h.chunk), NEW a \in Nat \ {0}, NEW n \in Nat \ {0},
         NEW e, e = a + n, NEW D, D = SetInUsePart(h, a, n).chunk
  PROVE  /\ SameBut(SetInUsePart(h, a, n), h, {"chunk"}) /\ IsHeap(SetInUsePart(h, a, n)) /\ Heads(D)
         /\ Overwrites(h.chunk, D, a, n) /\ D[a].cin /\ D[a].pin
         /\ e \in DOMAIN h.chunk => D[e].pin = h.chunk[e].pin /\ D[e].foot = Stamp
<1> DEFINE pin == TRUE
           cin == TRUE
           bit == TRUE
           g == Put(h, a, n, cin, pin)
           k == g
<1>1. pin \in BOOLEAN /\ cin \in BOOLEAN /\ bit \in BOOLEAN
  BY ChunkFields
<1> HIDE DEF pin, cin, bit
<1>2. /\ SameBut(g, h, {"chunk"}) /\ IsHeap(g) /\ Heads(g.chunk)
      /\ Overwrites(h.chunk, g.chunk, a, n) /\ (g.chunk[a].cin <=> cin) /\ (g.chunk[a].pin <=> pin)
      /\ a + n \in DOMAIN h.chunk => g.chunk[a + n] = h.chunk[a + n]
  <2>1. SameBut(g, h, {"chunk"}) /\ IsHeap(g) /\ Heads(g.chunk)
    BY <1>1, PutOf
  <2>2. Overwrites(h.chunk, g.chunk, a, n)
    BY <1>1, PutOf
  <2>3. (g.chunk[a].cin <=> cin)
    BY <1>1, PutOf
  <2>4. (g.chunk[a].pin <=> pin)
    BY <1>1, PutOf
  <2>5. a + n \in DOMAIN h.chunk => g.chunk[a + n] = h.chunk[a + n]
    BY <1>1, PutOf
  <2> QED
    BY <2>1, <2>2, <2>3, <2>4, <2>5
<1> HIDE DEF g
<1>3. /\ SameBut(k, g, {"chunk"}) /\ IsHeap(k) /\ Heads(k.chunk)
      /\ DOMAIN k.chunk = DOMAIN g.chunk
      /\ \A b \in DOMAIN g.chunk : b # a + n => k.chunk[b] = g.chunk[b]
      /\ a + n \in DOMAIN g.chunk =>
           /\ (k.chunk[a + n].pin = g.chunk[a + n].pin)
           /\ k.chunk[a + n].size = g.chunk[a + n].size
           /\ k.chunk[a + n].cin = g.chunk[a + n].cin
  BY <1>2 DEF SameBut
<1> HIDE DEF k
<1>4. SetInUsePart(h, a, n) = SetFoot(k, a + n, Stamp) /\ Stamp \in Nat
  BY Numbers DEF SetInUsePart, k, g, pin, cin, bit
<1>5. /\ SameBut(SetInUsePart(h, a, n), k, {"chunk"}) /\ IsHeap(SetInUsePart(h, a, n)) /\ Heads(D)
      /\ DOMAIN D = DOMAIN k.chunk /\ \A b \in DOMAIN k.chunk : b # a + n => D[b] = k.chunk[b]
      /\ a + n \in DOMAIN k.chunk =>
           /\ D[a + n].foot = Stamp
           /\ D[a + n].size = k.chunk[a + n].size
           /\ D[a + n].cin = k.chunk[a + n].cin
           /\ D[a + n].pin = k.chunk[a + n].pin
  BY <1>3, <1>4, SetFootOf
<1>6. SameBut(SetInUsePart(h, a, n), h, {"chunk"})
  BY <1>2, <1>3, <1>5 DEF SameBut
<1>7. a # a + n /\ a + n > a
  OBVIOUS
<1>8. a + n \in DOMAIN h.chunk => a + n \in DOMAIN g.chunk
  BY <1>2, <1>7 DEF Overwrites
<1>9. a \in DOMAIN g.chunk
  BY <1>2 DEF Overwrites
<1>10. Overwrites(h.chunk, D, a, n)
  BY <1>2, <1>3, <1>5, <1>7, <1>8, <1>9 DEF Overwrites
<1>11. D[a] = g.chunk[a]
  BY <1>3, <1>5, <1>7, <1>9
<1> QED
  BY <1>2, <1>3, <1>5, <1>6, <1>8, <1>10, <1>11 DEF pin, cin, bit

\* A free chunk writes its size before its successor.
LEMMA FreeOf ==
  ASSUME NEW h, IsHeap(h), Heads(h.chunk), NEW a \in Nat \ {0}, NEW n \in Nat \ {0},
         NEW e, e = a + n, NEW D, D = SetFree(h, a, n).chunk
  PROVE  /\ SameBut(SetFree(h, a, n), h, {"chunk"}) /\ IsHeap(SetFree(h, a, n)) /\ Heads(D)
         /\ Overwrites(h.chunk, D, a, n) /\ ~D[a].cin /\ D[a].pin
         /\ e \in DOMAIN h.chunk => D[e].pin = h.chunk[e].pin /\ D[e].foot = n
<1> DEFINE pin == TRUE
           cin == FALSE
           bit == TRUE
           g == Put(h, a, n, cin, pin)
           k == g
<1>1. pin \in BOOLEAN /\ cin \in BOOLEAN /\ bit \in BOOLEAN
  BY ChunkFields
<1> HIDE DEF pin, cin, bit
<1>2. /\ SameBut(g, h, {"chunk"}) /\ IsHeap(g) /\ Heads(g.chunk)
      /\ Overwrites(h.chunk, g.chunk, a, n) /\ (g.chunk[a].cin <=> cin) /\ (g.chunk[a].pin <=> pin)
      /\ a + n \in DOMAIN h.chunk => g.chunk[a + n] = h.chunk[a + n]
  <2>1. SameBut(g, h, {"chunk"}) /\ IsHeap(g) /\ Heads(g.chunk)
    BY <1>1, PutOf
  <2>2. Overwrites(h.chunk, g.chunk, a, n)
    BY <1>1, PutOf
  <2>3. (g.chunk[a].cin <=> cin)
    BY <1>1, PutOf
  <2>4. (g.chunk[a].pin <=> pin)
    BY <1>1, PutOf
  <2>5. a + n \in DOMAIN h.chunk => g.chunk[a + n] = h.chunk[a + n]
    BY <1>1, PutOf
  <2> QED
    BY <2>1, <2>2, <2>3, <2>4, <2>5
<1> HIDE DEF g
<1>3. /\ SameBut(k, g, {"chunk"}) /\ IsHeap(k) /\ Heads(k.chunk)
      /\ DOMAIN k.chunk = DOMAIN g.chunk
      /\ \A b \in DOMAIN g.chunk : b # a + n => k.chunk[b] = g.chunk[b]
      /\ a + n \in DOMAIN g.chunk =>
           /\ (k.chunk[a + n].pin = g.chunk[a + n].pin)
           /\ k.chunk[a + n].size = g.chunk[a + n].size
           /\ k.chunk[a + n].cin = g.chunk[a + n].cin
  BY <1>2 DEF SameBut
<1> HIDE DEF k
<1>4. SetFree(h, a, n) = SetFoot(k, a + n, n) /\ n \in Nat
  BY Numbers DEF SetFree, k, g, pin, cin, bit
<1>5. /\ SameBut(SetFree(h, a, n), k, {"chunk"}) /\ IsHeap(SetFree(h, a, n)) /\ Heads(D)
      /\ DOMAIN D = DOMAIN k.chunk /\ \A b \in DOMAIN k.chunk : b # a + n => D[b] = k.chunk[b]
      /\ a + n \in DOMAIN k.chunk =>
           /\ D[a + n].foot = n
           /\ D[a + n].size = k.chunk[a + n].size
           /\ D[a + n].cin = k.chunk[a + n].cin
           /\ D[a + n].pin = k.chunk[a + n].pin
  BY <1>3, <1>4, SetFootOf
<1>6. SameBut(SetFree(h, a, n), h, {"chunk"})
  BY <1>2, <1>3, <1>5 DEF SameBut
<1>7. a # a + n /\ a + n > a
  OBVIOUS
<1>8. a + n \in DOMAIN h.chunk => a + n \in DOMAIN g.chunk
  BY <1>2, <1>7 DEF Overwrites
<1>9. a \in DOMAIN g.chunk
  BY <1>2 DEF Overwrites
<1>10. Overwrites(h.chunk, D, a, n)
  BY <1>2, <1>3, <1>5, <1>7, <1>8, <1>9 DEF Overwrites
<1>11. D[a] = g.chunk[a]
  BY <1>3, <1>5, <1>7, <1>9
<1> QED
  BY <1>2, <1>3, <1>5, <1>6, <1>8, <1>10, <1>11 DEF pin, cin, bit

\* One that also tells its successor that it is free.
LEMMA FreeBeforeOf ==
  ASSUME NEW h, IsHeap(h), Heads(h.chunk), NEW a \in Nat \ {0}, NEW n \in Nat \ {0},
         NEW e, e = a + n, NEW D, D = SetFreeBefore(h, a, n, e).chunk
  PROVE  /\ SameBut(SetFreeBefore(h, a, n, e), h, {"chunk"})
         /\ IsHeap(SetFreeBefore(h, a, n, e)) /\ Heads(D)
         /\ Overwrites(h.chunk, D, a, n) /\ ~D[a].cin /\ D[a].pin
         /\ e \in DOMAIN h.chunk => ~D[e].pin /\ D[e].foot = n
<1> DEFINE bit == FALSE
           g == SetPin(h, e, bit)
<1>0. bit \in BOOLEAN
  OBVIOUS
<1> HIDE DEF bit
<1>1. /\ SameBut(g, h, {"chunk"}) /\ IsHeap(g) /\ Heads(g.chunk)
      /\ DOMAIN g.chunk = DOMAIN h.chunk
      /\ \A b \in DOMAIN h.chunk : b # e => g.chunk[b] = h.chunk[b]
      /\ e \in DOMAIN h.chunk => /\ (g.chunk[e].pin <=> bit)
                                 /\ g.chunk[e].size = h.chunk[e].size
                                 /\ g.chunk[e].cin = h.chunk[e].cin
  BY <1>0, SetPinOf
<1>2. SetFreeBefore(h, a, n, e) = SetFree(g, a, n)
  BY DEF SetFreeBefore, bit
<1> HIDE DEF g
<1>3. /\ SameBut(SetFree(g, a, n), g, {"chunk"}) /\ IsHeap(SetFree(g, a, n)) /\ Heads(D)
      /\ Overwrites(g.chunk, D, a, n) /\ ~D[a].cin /\ D[a].pin
      /\ e \in DOMAIN g.chunk => D[e].pin = g.chunk[e].pin /\ D[e].foot = n
  <2>1. SameBut(SetFree(g, a, n), g, {"chunk"}) /\ IsHeap(SetFree(g, a, n))
    BY <1>1, <1>2, FreeOf
  <2>2. Heads(D) /\ Overwrites(g.chunk, D, a, n)
    BY <1>1, <1>2, FreeOf
  <2>3. ~D[a].cin /\ D[a].pin
    BY <1>1, <1>2, FreeOf
  <2>4. e \in DOMAIN g.chunk => D[e].pin = g.chunk[e].pin /\ D[e].foot = n
    BY <1>1, <1>2, FreeOf
  <2> QED
    BY <2>1, <2>2, <2>3, <2>4
<1>4. SameBut(SetFreeBefore(h, a, n, e), h, {"chunk"})
  BY <1>1, <1>2, <1>3 DEF SameBut
<1>5. a # e
  OBVIOUS
<1>6. Overwrites(h.chunk, D, a, n)
  BY <1>1, <1>3, <1>5 DEF Overwrites
<1> QED
  BY <1>1, <1>2, <1>3, <1>4, <1>6 DEF bit

----------------------------------------------------------------------------
(* Making one chunk, or two, of a span. *)

\* The chunks from p up to e, in one segment, are the callers' or loose.
Span(h, p, e, L, U) ==
  /\ p \in InHeap(h.chunk) /\ e \in InHeap(h.chunk) /\ p < e
  /\ \E i \in DOMAIN h.segs : Holds(h.segs[i], p) /\ Holds(h.segs[i], e)
  /\ \A a \in DOMAIN h.chunk : p <= a /\ a < e => a \in L \cup U

\* The ends of a span are chunks, the one before the other.
LEMMA SpanFields ==
  ASSUME NEW h, NEW L, NEW U, NEW p, NEW e, Sound(h, L, U), Span(h, p, e, L, U)
  PROVE  /\ p \in Nat \ {0} /\ e \in Nat \ {0} /\ p \in DOMAIN h.chunk /\ e \in DOMAIN h.chunk
         /\ p < e /\ e - p \in Nat \ {0} /\ p + (e - p) = e
         /\ L \subseteq DOMAIN h.chunk /\ U \subseteq DOMAIN h.chunk
         /\ DOMAIN h.chunk \subseteq Nat \ {0} /\ Heads(h.chunk) /\ IsHeap(h)
<1>1. Heads(h.chunk) /\ IsHeap(h) /\ Owned(h.chunk, h.segs, h.state, L)
      /\ Placed(h.chunk, h.small, h.tree, h.dv, h.top, U)
  BY DEF Sound, Shape
<1>2. L \subseteq DOMAIN h.chunk /\ U \subseteq DOMAIN h.chunk
  BY <1>1 DEF Owned, Placed, Idle_
<1>3. p \in DOMAIN h.chunk /\ e \in DOMAIN h.chunk /\ p < e
  BY DEF Span, InHeap
<1> QED
  BY <1>1, <1>2, <1>3 DEF Heads

\* The first chunk of a span is at least a smallest chunk.
LEMMA SpanRoom ==
  ASSUME NEW h, NEW L, NEW U, NEW p, NEW e, Sound(h, L, U), Span(h, p, e, L, U)
  PROVE  h.chunk[p].size >= MinChunk /\ p + h.chunk[p].size <= e /\ e - p >= MinChunk
<1>1. PICK i \in DOMAIN h.segs : Holds(h.segs[i], p) /\ Holds(h.segs[i], e)
  BY DEF Span
<1>2. /\ Linked(h.chunk, h.segs, h.top, h.state) /\ Apart(h.chunk)
      /\ Segments(h.segs) /\ Ends(h.chunk, h.segs, h.top, h.state)
  BY DEF Sound, Shape
<1>3. p \in Nat /\ e \in Nat /\ p < e /\ p \in DOMAIN h.chunk /\ e \in DOMAIN h.chunk
      /\ h.chunk[p].size \in Nat
  BY SpanFields, ChunkFields
<1>4. LastOf(h.segs, i, h.top) \in InHeap(h.chunk)
  BY <1>2, SegmentFields DEF Ends, LastOf
<1>5. LastOf(h.segs, i, h.top) \in Nat
  BY <1>4, SpanFields DEF InHeap
<1>6. e <= LastOf(h.segs, i, h.top)
  BY <1>1, <1>2 DEF Linked, Span
<1>7. h.chunk[p].size >= MinChunk
  BY <1>1, <1>2, <1>3, <1>5, <1>6 DEF Linked, Span
<1>8. p + h.chunk[p].size <= e
  BY <1>2, <1>3 DEF Apart
<1> QED
  BY <1>3, <1>7, <1>8, Numbers

\* One chunk in place of a span.
LEMMA OnePiece ==
  ASSUME NEW h, NEW g, NEW L, NEW U, NEW p, NEW e, Sound(h, L, U), Span(h, p, e, L, U),
         SameBut(g, h, {"chunk"}), Heads(g.chunk), Overwrites(h.chunk, g.chunk, p, e - p),
         g.chunk[p].pin = h.chunk[p].pin, g.chunk[p].cin \/ g.chunk[p].pin,
         g.chunk[e].pin = g.chunk[p].cin,
         ~g.chunk[p].cin => g.chunk[e].cin /\ g.chunk[e].foot = e - p,
         g.chunk[p].cin => g.chunk[e].foot = Stamp
  PROVE  /\ g.chunk[p].cin => Sound(g, (L \ (p .. e - 1)) \cup {p}, U \ (p .. e - 1))
         /\ ~g.chunk[p].cin => Sound(g, L \ (p .. e - 1), (U \ (p .. e - 1)) \cup {p})
<1> DEFINE C == h.chunk
           D == g.chunk
<1>1. /\ p \in Nat \ {0} /\ e \in Nat \ {0} /\ p \in DOMAIN C /\ e \in DOMAIN C
      /\ p < e /\ e - p \in Nat \ {0} /\ p + (e - p) = e
      /\ L \subseteq DOMAIN C /\ U \subseteq DOMAIN C /\ DOMAIN C \subseteq Nat \ {0}
  BY SpanFields
<1>2. e - p >= MinChunk
  BY SpanRoom
<1> HIDE DEF C, D
<1>3. /\ DOMAIN D = {b \in DOMAIN C : b < p \/ b >= e} \cup {p}
      /\ \A b \in DOMAIN D : b # p /\ b # e => D[b] = C[b]
      /\ D[p].size = e - p /\ D[p].foot = C[p].foot
      /\ D[e].size = C[e].size /\ D[e].cin = C[e].cin
  BY <1>1 DEF Overwrites, C, D
<1>4. Between(C, D, p, e)
  BY <1>1, <1>3 DEF Between, C, D
<1>5. \A a \in DOMAIN D : p <= a /\ a < e => a = p
  BY <1>1, <1>3
<1>6. p \in InHeap(D) /\ e \in DOMAIN D
  BY <1>1, <1>3 DEF InHeap, D
<1>7. Tells(D, p, e, 0)
  BY <1>3 DEF Tells, D
<1>8. Chained(D, p, e)
  BY <1>1, <1>2, <1>3, <1>5, <1>6, <1>7 DEF Chained
<1>9. PICK i \in DOMAIN h.segs : Holds(h.segs[i], p) /\ Holds(h.segs[i], e)
  BY DEF Span
<1>10. Sound(g, UsedOf(D, L, p, e), LooseOf(D, U, p, e, g.top))
  BY <1>3, <1>4, <1>8, <1>9, SoundSplice DEF Span, C, D
<1>11. g.top # p
  <2>1. g.top = h.top
    BY DEF SameBut, HeapFields
  <2>2. h.top \notin L /\ h.top \notin U
    <3>1. Ends(h.chunk, h.segs, h.top, h.state) /\ Owned(h.chunk, h.segs, h.state, L)
          /\ Placed(h.chunk, h.small, h.tree, h.dv, h.top, U)
      BY DEF Sound, Shape
    <3> QED
      BY <3>1 DEF Owned, Ends, Placed, InHeap
  <2>3. p \in L \cup U
    BY <1>1 DEF Span, C
  <2> QED
    BY <2>1, <2>2, <2>3
<1>12. ASSUME D[p].cin
       PROVE  /\ UsedOf(D, L, p, e) = (L \ (p .. e - 1)) \cup {p}
              /\ LooseOf(D, U, p, e, g.top) = U \ (p .. e - 1)
  BY <1>1, <1>5, <1>6, <1>12 DEF UsedOf, LooseOf, InHeap
<1>13. ASSUME ~D[p].cin
       PROVE  /\ UsedOf(D, L, p, e) = L \ (p .. e - 1)
              /\ LooseOf(D, U, p, e, g.top) = (U \ (p .. e - 1)) \cup {p}
  BY <1>1, <1>5, <1>6, <1>11, <1>13 DEF UsedOf, LooseOf, InHeap
<1> QED
  BY <1>10, <1>12, <1>13 DEF D

\* Two chunks, p and q, in place of a span.
Overwrites2(C, D, p, q, e) ==
  /\ DOMAIN D = {b \in DOMAIN C : b < p \/ b >= e} \cup {p, q}
  /\ \A b \in DOMAIN D : b # p /\ b # q /\ b # e => D[b] = C[b]
  /\ D[p].size = q - p /\ D[p].foot = C[p].foot /\ D[q].size = e - q
  /\ D[e].size = C[e].size /\ D[e].cin = C[e].cin

\* A span written over as two pieces is sound: those in use are lent, the free are loose.
LEMMA TwoPieces ==
  ASSUME NEW h, NEW g, NEW L, NEW U, NEW p, NEW e, Sound(h, L, U), Span(h, p, e, L, U),
         NEW q \in Nat, p + MinChunk <= q, q + MinChunk <= e,
         SameBut(g, h, {"chunk"}), Heads(g.chunk), Overwrites2(h.chunk, g.chunk, p, q, e),
         g.chunk[p].pin = h.chunk[p].pin, g.chunk[p].cin \/ g.chunk[p].pin,
         Tells(g.chunk, p, q, 0), Tells(g.chunk, q, e, 0), g.chunk[q].cin \/ g.chunk[q].pin
  PROVE  Sound(g, (L \ (p .. e - 1)) \cup {a \in {p, q} : g.chunk[a].cin},
                  (U \ (p .. e - 1)) \cup {a \in {p, q} : ~g.chunk[a].cin})
<1> DEFINE C == h.chunk
           D == g.chunk
<1>1. /\ p \in Nat \ {0} /\ e \in Nat \ {0} /\ p \in DOMAIN C /\ e \in DOMAIN C
      /\ p < e /\ e - p \in Nat \ {0} /\ p + (e - p) = e
      /\ L \subseteq DOMAIN C /\ U \subseteq DOMAIN C /\ DOMAIN C \subseteq Nat \ {0}
  BY SpanFields
<1>2. p < q /\ q < e /\ q - p >= MinChunk /\ e - q >= MinChunk /\ p + (q - p) = q
      /\ q + (e - q) = e
  BY <1>1, Numbers
<1> HIDE DEF C, D
<1>3. /\ DOMAIN D = {b \in DOMAIN C : b < p \/ b >= e} \cup {p, q}
      /\ \A b \in DOMAIN D : b # p /\ b # q /\ b # e => D[b] = C[b]
      /\ D[p].size = q - p /\ D[p].foot = C[p].foot /\ D[q].size = e - q
      /\ D[e].size = C[e].size /\ D[e].cin = C[e].cin
  BY DEF Overwrites2, C, D
<1>4. Between(C, D, p, e)
  BY <1>1, <1>2, <1>3 DEF Between, C, D
<1>5. \A a \in DOMAIN D : p <= a /\ a < e => a = p \/ a = q
  BY <1>1, <1>3
<1>6. p \in InHeap(D) /\ q \in InHeap(D) /\ e \in DOMAIN D /\ p \in DOMAIN D /\ q \in DOMAIN D
  BY <1>1, <1>3 DEF InHeap, D
<1>7. Tells(D, p, q, 0) /\ Tells(D, q, e, 0)
  BY DEF D
<1>8. Chained(D, p, e)
  BY <1>1, <1>2, <1>3, <1>5, <1>6, <1>7 DEF Chained
<1>9. PICK i \in DOMAIN h.segs : Holds(h.segs[i], p) /\ Holds(h.segs[i], e)
  BY DEF Span
<1>10. Sound(g, UsedOf(D, L, p, e), LooseOf(D, U, p, e, g.top))
  BY <1>3, <1>4, <1>8, <1>9, SoundSplice DEF Span, C, D
<1>11. g.top # p /\ g.top # q
  <2>1. g.top = h.top /\ h.top \in DOMAIN C /\ Apart(C) /\ Heads(C)
    BY DEF SameBut, HeapFields, Sound, Shape, Ends, InHeap, C
  <2>2. h.top \notin L /\ h.top \notin U
    <3>1. Ends(h.chunk, h.segs, h.top, h.state) /\ Owned(h.chunk, h.segs, h.state, L)
          /\ Placed(h.chunk, h.small, h.tree, h.dv, h.top, U)
      BY DEF Sound, Shape
    <3> QED
      BY <3>1 DEF Owned, Ends, Placed, InHeap
  <2>3. ~(p <= h.top /\ h.top < e)
    BY <2>1, <2>2 DEF Span, C
  <2> QED
    BY <2>1, <2>3, <1>1, <1>2
<1>12. UsedOf(D, L, p, e) = (L \ (p .. e - 1)) \cup {a \in {p, q} : D[a].cin}
  <2>1. {a \in L : a < p \/ a >= e} = L \ (p .. e - 1)
    BY <1>1
  <2>2. {a \in DOMAIN D : p <= a /\ a < e /\ D[a].cin} = {a \in {p, q} : D[a].cin}
    BY <1>1, <1>2, <1>5, <1>6
  <2> QED
    BY <2>1, <2>2 DEF UsedOf
<1>13. LooseOf(D, U, p, e, g.top) = (U \ (p .. e - 1)) \cup {a \in {p, q} : ~D[a].cin}
  <2>1. {a \in U : a < p \/ a >= e} = U \ (p .. e - 1)
    BY <1>1
  <2>2. {a \in DOMAIN D : p <= a /\ a < e /\ ~D[a].cin /\ a # g.top} = {a \in {p, q} : ~D[a].cin}
    BY <1>1, <1>2, <1>5, <1>6, <1>11
  <2> QED
    BY <2>1, <2>2 DEF LooseOf
<1> QED
  BY <1>10, <1>12, <1>13 DEF D

----------------------------------------------------------------------------
(* The same, by the operators that write the heads. *)

\* A span becomes a free chunk.
LEMMA FreeSpanBefore ==
  ASSUME NEW h, NEW L, NEW U, NEW p, NEW e, Sound(h, L, U), Span(h, p, e, L, U),
         NEW n, n = e - p, h.chunk[p].pin, h.chunk[e].cin
  PROVE  Sound(SetFreeBefore(h, p, n, e), L \ (p .. e - 1), (U \ (p .. e - 1)) \cup {p})
<1> DEFINE g == SetFreeBefore(h, p, n, e)
           D == g.chunk
<1>1. /\ p \in Nat \ {0} /\ e \in Nat \ {0} /\ p \in DOMAIN h.chunk /\ e \in DOMAIN h.chunk
      /\ p < e /\ n \in Nat \ {0} /\ e = p + n /\ Heads(h.chunk) /\ IsHeap(h)
      /\ h.chunk[p].pin \in BOOLEAN
  BY SpanFields, ChunkFields
<1>2. /\ SameBut(g, h, {"chunk"}) /\ Heads(D) /\ Overwrites(h.chunk, D, p, n)
  BY <1>1, FreeBeforeOf
<1>3. ~D[p].cin /\ D[p].pin /\ ~D[e].pin /\ D[e].foot = n
  <2>1. ~D[p].cin
    BY <1>1, FreeBeforeOf
  <2>2. D[p].pin
    BY <1>1, FreeBeforeOf
  <2>3. ~D[e].pin
    BY <1>1, FreeBeforeOf
  <2>4. D[e].foot = n
    BY <1>1, FreeBeforeOf
  <2> QED
    BY <2>1, <2>2, <2>3, <2>4
<1> HIDE DEF g, D
<1>4. D[p].pin \in BOOLEAN /\ D[p].cin \in BOOLEAN /\ D[e].pin \in BOOLEAN /\ D[e].cin = h.chunk[e].cin
  <2>1. DOMAIN D = {b \in DOMAIN h.chunk : b < p \/ b >= e} \cup {p}
    BY <1>1, <1>2 DEF Overwrites
  <2>2. p \in DOMAIN D /\ e \in DOMAIN D
    BY <1>1, <2>1
  <2>3. D[e].cin = h.chunk[e].cin
    BY <1>1, <1>2 DEF Overwrites
  <2> QED
    BY <1>2, <2>2, <2>3, ChunkFields
<1> QED
  BY <1>1, <1>2, <1>3, <1>4, OnePiece DEF g, D

\* It does so when the chunk behind knows of a free one already.
LEMMA FreeSpan ==
  ASSUME NEW h, NEW L, NEW U, NEW p, NEW e, Sound(h, L, U), Span(h, p, e, L, U),
         NEW n, n = e - p, h.chunk[p].pin, h.chunk[e].cin,
         ~h.chunk[e].pin
  PROVE  Sound(SetFree(h, p, n), L \ (p .. e - 1), (U \ (p .. e - 1)) \cup {p})
<1> DEFINE g == SetFree(h, p, n)
           D == g.chunk
<1>1. /\ p \in Nat \ {0} /\ e \in Nat \ {0} /\ p \in DOMAIN h.chunk /\ e \in DOMAIN h.chunk
      /\ p < e /\ n \in Nat \ {0} /\ e = p + n /\ Heads(h.chunk) /\ IsHeap(h)
      /\ h.chunk[p].pin \in BOOLEAN
  BY SpanFields, ChunkFields
<1>2. /\ SameBut(g, h, {"chunk"}) /\ Heads(D) /\ Overwrites(h.chunk, D, p, n)
  BY <1>1, FreeOf
<1>3. ~D[p].cin /\ D[p].pin /\ ~D[e].pin /\ D[e].foot = n
  <2>1. ~D[p].cin
    BY <1>1, FreeOf
  <2>2. D[p].pin
    BY <1>1, FreeOf
  <2>3. ~D[e].pin
    BY <1>1, FreeOf
  <2>4. D[e].foot = n
    BY <1>1, FreeOf
  <2> QED
    BY <2>1, <2>2, <2>3, <2>4
<1> HIDE DEF g, D
<1>4. D[p].pin \in BOOLEAN /\ D[p].cin \in BOOLEAN /\ D[e].pin \in BOOLEAN /\ D[e].cin = h.chunk[e].cin
  <2>1. DOMAIN D = {b \in DOMAIN h.chunk : b < p \/ b >= e} \cup {p}
    BY <1>1, <1>2 DEF Overwrites
  <2>2. p \in DOMAIN D /\ e \in DOMAIN D
    BY <1>1, <2>1
  <2>3. D[e].cin = h.chunk[e].cin
    BY <1>1, <1>2 DEF Overwrites
  <2> QED
    BY <1>2, <2>2, <2>3, ChunkFields
<1> QED
  BY <1>1, <1>2, <1>3, <1>4, OnePiece DEF g, D

\* A span becomes a chunk in use.
LEMMA UseSpan ==
  ASSUME NEW h, NEW L, NEW U, NEW p, NEW e, Sound(h, L, U), Span(h, p, e, L, U),
         NEW n, n = e - p
  PROVE  Sound(SetInUse(h, p, n), (L \ (p .. e - 1)) \cup {p}, U \ (p .. e - 1))
<1> DEFINE g == SetInUse(h, p, n)
           D == g.chunk
<1>1. /\ p \in Nat \ {0} /\ e \in Nat \ {0} /\ p \in DOMAIN h.chunk /\ e \in DOMAIN h.chunk
      /\ p < e /\ n \in Nat \ {0} /\ e = p + n /\ Heads(h.chunk) /\ IsHeap(h)
      /\ h.chunk[p].pin \in BOOLEAN
  BY SpanFields, ChunkFields
<1>2. /\ SameBut(g, h, {"chunk"}) /\ Heads(D) /\ Overwrites(h.chunk, D, p, n)
  BY <1>1, UseOf
<1>3. D[p].cin /\ (D[p].pin <=> h.chunk[p].pin) /\ D[e].pin /\ D[e].foot = Stamp
  <2>1. D[p].cin
    BY <1>1, UseOf
  <2>2. (D[p].pin <=> h.chunk[p].pin)
    BY <1>1, UseOf
  <2>3. D[e].pin
    BY <1>1, UseOf
  <2>4. D[e].foot = Stamp
    BY <1>1, UseOf
  <2> QED
    BY <2>1, <2>2, <2>3, <2>4
<1> HIDE DEF g, D
<1>4. D[p].pin \in BOOLEAN /\ D[p].cin \in BOOLEAN /\ D[e].pin \in BOOLEAN /\ D[e].cin = h.chunk[e].cin
  <2>1. DOMAIN D = {b \in DOMAIN h.chunk : b < p \/ b >= e} \cup {p}
    BY <1>1, <1>2 DEF Overwrites
  <2>2. p \in DOMAIN D /\ e \in DOMAIN D
    BY <1>1, <2>1
  <2>3. D[e].cin = h.chunk[e].cin
    BY <1>1, <1>2 DEF Overwrites
  <2> QED
    BY <1>2, <2>2, <2>3, ChunkFields
<1> QED
  BY <1>1, <1>2, <1>3, <1>4, OnePiece DEF g, D

\* Also one behind a chunk in use.
LEMMA UseSpanWhole ==
  ASSUME NEW h, NEW L, NEW U, NEW p, NEW e, Sound(h, L, U), Span(h, p, e, L, U),
         NEW n, n = e - p, h.chunk[p].pin
  PROVE  Sound(SetInUseWhole(h, p, n), (L \ (p .. e - 1)) \cup {p}, U \ (p .. e - 1))
<1> DEFINE g == SetInUseWhole(h, p, n)
           D == g.chunk
<1>1. /\ p \in Nat \ {0} /\ e \in Nat \ {0} /\ p \in DOMAIN h.chunk /\ e \in DOMAIN h.chunk
      /\ p < e /\ n \in Nat \ {0} /\ e = p + n /\ Heads(h.chunk) /\ IsHeap(h)
      /\ h.chunk[p].pin \in BOOLEAN
  BY SpanFields, ChunkFields
<1>2. /\ SameBut(g, h, {"chunk"}) /\ Heads(D) /\ Overwrites(h.chunk, D, p, n)
  BY <1>1, UseWholeOf
<1>3. D[p].cin /\ D[p].pin /\ D[e].pin /\ D[e].foot = Stamp
  <2>1. D[p].cin
    BY <1>1, UseWholeOf
  <2>2. D[p].pin
    BY <1>1, UseWholeOf
  <2>3. D[e].pin
    BY <1>1, UseWholeOf
  <2>4. D[e].foot = Stamp
    BY <1>1, UseWholeOf
  <2> QED
    BY <2>1, <2>2, <2>3, <2>4
<1> HIDE DEF g, D
<1>4. D[p].pin \in BOOLEAN /\ D[p].cin \in BOOLEAN /\ D[e].pin \in BOOLEAN /\ D[e].cin = h.chunk[e].cin
  <2>1. DOMAIN D = {b \in DOMAIN h.chunk : b < p \/ b >= e} \cup {p}
    BY <1>1, <1>2 DEF Overwrites
  <2>2. p \in DOMAIN D /\ e \in DOMAIN D
    BY <1>1, <2>1
  <2>3. D[e].cin = h.chunk[e].cin
    BY <1>1, <1>2 DEF Overwrites
  <2> QED
    BY <1>2, <2>2, <2>3, ChunkFields
<1> QED
  BY <1>1, <1>2, <1>3, <1>4, OnePiece DEF g, D

\* Two heads written one after the other, the lower one first or last.
LEMMA OverwritesUp ==
  ASSUME NEW C, NEW K, NEW D, DOMAIN C \subseteq Nat, NEW p \in DOMAIN C, NEW e \in DOMAIN C,
         NEW q \in Nat, p < q, q < e, Overwrites(C, K, p, q - p), Overwrites(K, D, q, e - q)
  PROVE  Overwrites2(C, D, p, q, e) /\ D[p] = K[p] /\ K[e] = C[e] /\ e \in DOMAIN K
<1>1. p \in Nat /\ e \in Nat /\ p + (q - p) = q /\ q + (e - q) = e /\ p # q /\ q # e /\ p # e
  OBVIOUS
<1>2. /\ DOMAIN K = {b \in DOMAIN C : b < p \/ b >= q} \cup {p}
      /\ \A b \in DOMAIN K : b # p /\ b # q => K[b] = C[b]
      /\ K[p].size = q - p /\ K[p].foot = C[p].foot
  BY <1>1 DEF Overwrites
<1>3. e \in DOMAIN K /\ p \in DOMAIN K /\ K[e] = C[e] /\ DOMAIN K \subseteq Nat
  BY <1>1, <1>2
<1>4. /\ DOMAIN D = {b \in DOMAIN K : b < q \/ b >= e} \cup {q}
      /\ \A b \in DOMAIN D : b # q /\ b # e => D[b] = K[b]
      /\ D[q].size = e - q /\ D[e].size = K[e].size /\ D[e].cin = K[e].cin
  BY <1>1, <1>3 DEF Overwrites
<1>5. DOMAIN D = {b \in DOMAIN C : b < p \/ b >= e} \cup {p, q}
  BY <1>1, <1>2, <1>4
<1>6. p \in DOMAIN D /\ D[p] = K[p]
  BY <1>1, <1>4, <1>5
<1>7. \A b \in DOMAIN D : b # p /\ b # q /\ b # e => D[b] = C[b]
  BY <1>2, <1>4
<1> QED
  BY <1>2, <1>3, <1>4, <1>5, <1>6, <1>7 DEF Overwrites2

\* Writing the upper piece and then the lower writes both.
LEMMA OverwritesDown ==
  ASSUME NEW C, NEW K, NEW D, DOMAIN C \subseteq Nat, NEW p \in DOMAIN C, NEW e \in DOMAIN C,
         NEW q \in Nat, p < q, q < e, Overwrites(C, K, q, e - q), Overwrites(K, D, p, q - p)
  PROVE  /\ Overwrites2(C, D, p, q, e) /\ D[e] = K[e] /\ K[p] = C[p] /\ p \in DOMAIN K
         /\ q \in DOMAIN K
<1>1. p \in Nat /\ e \in Nat /\ p + (q - p) = q /\ q + (e - q) = e /\ p # q /\ q # e /\ p # e
  OBVIOUS
<1>2. /\ DOMAIN K = {b \in DOMAIN C : b < q \/ b >= e} \cup {q}
      /\ \A b \in DOMAIN K : b # q /\ b # e => K[b] = C[b]
      /\ K[q].size = e - q /\ K[e].size = C[e].size /\ K[e].cin = C[e].cin
  BY <1>1 DEF Overwrites
<1>3. e \in DOMAIN K /\ p \in DOMAIN K /\ q \in DOMAIN K /\ K[p] = C[p] /\ DOMAIN K \subseteq Nat
  BY <1>1, <1>2
<1>4. /\ DOMAIN D = {b \in DOMAIN K : b < p \/ b >= q} \cup {p}
      /\ \A b \in DOMAIN D : b # p /\ b # q => D[b] = K[b]
      /\ D[p].size = q - p /\ D[p].foot = K[p].foot /\ D[q].size = K[q].size
      /\ D[q].cin = K[q].cin
  BY <1>1, <1>3 DEF Overwrites
<1>5. DOMAIN D = {b \in DOMAIN C : b < p \/ b >= e} \cup {p, q}
  BY <1>1, <1>2, <1>4
<1>6. e \in DOMAIN D /\ D[e] = K[e]
  BY <1>1, <1>4, <1>5
<1>7. \A b \in DOMAIN D : b # p /\ b # q /\ b # e => D[b] = C[b]
  BY <1>2, <1>4
<1> QED
  BY <1>2, <1>3, <1>4, <1>5, <1>6, <1>7 DEF Overwrites2

\* A span becomes a chunk in use and a free one behind it.
LEMMA SplitSpan ==
  ASSUME NEW h, NEW L, NEW U, NEW p, NEW e, Sound(h, L, U), Span(h, p, e, L, U),
         NEW n \in Nat, NEW r \in Nat, n >= MinChunk, r >= MinChunk, p + n + r = e,
         h.chunk[p].pin, ~h.chunk[e].pin, h.chunk[e].cin
  PROVE  Sound(SetFree(SetInUsePart(h, p, n), p + n, r), (L \ (p .. e - 1)) \cup {p}, (U \ (p .. e - 1)) \cup {p + n})
<1> DEFINE q == p + n
           k == SetInUsePart(h, p, n)
           g == SetFree(k, q, r)
           C == h.chunk
           K == k.chunk
           D == g.chunk
<1>1. /\ p \in Nat \ {0} /\ e \in Nat \ {0} /\ p \in DOMAIN C /\ e \in DOMAIN C
      /\ n \in Nat \ {0} /\ r \in Nat \ {0} /\ q \in Nat \ {0} /\ q - p = n /\ e - q = r
      /\ q + r = e /\ p < q /\ q < e /\ q >= p /\ Heads(C) /\ IsHeap(h)
      /\ DOMAIN C \subseteq Nat /\ p + MinChunk <= q /\ q + MinChunk <= e /\ q = p + n /\ e = q + r
  BY SpanFields, Numbers
<1> HIDE DEF q
<1>b. /\ IsHeap(h) /\ Heads(h.chunk) /\ p \in Nat \ {0} /\ q \in Nat \ {0} /\ n \in Nat \ {0}
      /\ r \in Nat \ {0} /\ q = p + n /\ e = q + r
  BY <1>1
<1>2. SameBut(k, h, {"chunk"}) /\ IsHeap(k) /\ Heads(K) /\ Overwrites(C, K, p, n)
  BY <1>b, UsePartOf
<1>3. /\ K[p].cin /\ K[p].pin
      /\ q \in DOMAIN C => K[q].foot = Stamp
  <2>1. K[p].cin /\ K[p].pin
    BY <1>b, UsePartOf
  <2>2. q \in DOMAIN C => K[q].foot = Stamp
    BY <1>b, UsePartOf
  <2> QED
    BY <2>1, <2>2
<1>c. IsHeap(k) /\ Heads(k.chunk)
  BY <1>2
<1> HIDE DEF k
<1>4. SameBut(g, k, {"chunk"}) /\ Heads(D) /\ Overwrites(K, D, q, r)
  BY <1>b, <1>c, FreeOf
<1>5. /\ ~D[q].cin /\ D[q].pin
      /\ e \in DOMAIN K => D[e].pin = K[e].pin
      /\ e \in DOMAIN K => D[e].foot = r
  <2>1. ~D[q].cin /\ D[q].pin
    BY <1>b, <1>c, FreeOf
  <2>2. e \in DOMAIN K => D[e].pin = K[e].pin
    BY <1>b, <1>c, FreeOf
  <2>3. e \in DOMAIN K => D[e].foot = r
    BY <1>b, <1>c, FreeOf, SMTT(20)
  <2> QED
    BY <2>1, <2>2, <2>3
<1> HIDE DEF g, C, K, D
<1>a. Overwrites(C, K, p, q - p) /\ Overwrites(K, D, q, e - q)
  BY <1>1, <1>2, <1>4
<1>6. Overwrites2(C, D, p, q, e) /\ D[p] = K[p] /\ K[e] = C[e] /\ e \in DOMAIN K
  BY <1>1, <1>a, OverwritesUp
<1>7. q \in DOMAIN D /\ p \in DOMAIN D /\ e \in DOMAIN D /\ D[e].cin = C[e].cin
      /\ D[p].size = n /\ D[q].size = r
  BY <1>1, <1>6 DEF Overwrites2
<1>8. /\ D[p].pin \in BOOLEAN /\ D[p].cin \in BOOLEAN /\ D[q].pin \in BOOLEAN
      /\ D[q].cin \in BOOLEAN /\ D[e].pin \in BOOLEAN /\ C[p].pin \in BOOLEAN
  BY <1>1, <1>4, <1>7, ChunkFields
<1>9. q \in DOMAIN K => K[q].foot = Stamp
  BY <1>1, <1>2, <1>3 DEF Overwrites
<1>10. D[q].foot = Stamp
  BY <1>4, <1>9 DEF Overwrites
<1>11. Tells(D, p, q, 0) /\ Tells(D, q, e, 0)
  BY <1>3, <1>5, <1>6, <1>7, <1>8, <1>9, <1>10 DEF Tells, C
<1>12. D[p].pin = C[p].pin /\ D[p].cin /\ ~D[q].cin /\ D[q].pin
  BY <1>3, <1>5, <1>6, <1>8, <1>9, <1>10 DEF C
<1>13. SameBut(g, h, {"chunk"})
  BY <1>2, <1>4 DEF SameBut
<1>14. Sound(g, (L \ (p .. e - 1)) \cup {a \in {p, q} : D[a].cin},
                (U \ (p .. e - 1)) \cup {a \in {p, q} : ~D[a].cin})
  BY <1>1, <1>4, <1>6, <1>11, <1>12, <1>13, TwoPieces DEF C, D
<1>15. {a \in {p, q} : D[a].cin} = {p} /\ {a \in {p, q} : ~D[a].cin} = {q}
  BY <1>12
<1>16. Sound(g, (L \ (p .. e - 1)) \cup {p}, (U \ (p .. e - 1)) \cup {q})
  BY <1>14, <1>15
<1> QED
  BY <1>16 DEF g, k, q

\* The same, the free one written first.
LEMMA SplitVictim ==
  ASSUME NEW h, NEW L, NEW U, NEW p, NEW e, Sound(h, L, U), Span(h, p, e, L, U),
         NEW n \in Nat, NEW r \in Nat, n >= MinChunk, r >= MinChunk, p + n + r = e,
         h.chunk[p].pin, ~h.chunk[e].pin, h.chunk[e].cin
  PROVE  Sound(SetInUsePart(SetFree(h, p + n, r), p, n), (L \ (p .. e - 1)) \cup {p}, (U \ (p .. e - 1)) \cup {p + n})
<1> DEFINE q == p + n
           k == SetFree(h, q, r)
           g == SetInUsePart(k, p, n)
           C == h.chunk
           K == k.chunk
           D == g.chunk
<1>1. /\ p \in Nat \ {0} /\ e \in Nat \ {0} /\ p \in DOMAIN C /\ e \in DOMAIN C
      /\ n \in Nat \ {0} /\ r \in Nat \ {0} /\ q \in Nat \ {0} /\ q - p = n /\ e - q = r
      /\ q + r = e /\ p < q /\ q < e /\ q >= p /\ Heads(C) /\ IsHeap(h)
      /\ DOMAIN C \subseteq Nat /\ p + MinChunk <= q /\ q + MinChunk <= e /\ q = p + n /\ e = q + r
  BY SpanFields, Numbers
<1> HIDE DEF q
<1>b. /\ IsHeap(h) /\ Heads(h.chunk) /\ p \in Nat \ {0} /\ q \in Nat \ {0} /\ n \in Nat \ {0}
      /\ r \in Nat \ {0} /\ q = p + n /\ e = q + r
  BY <1>1
<1>2. SameBut(k, h, {"chunk"}) /\ IsHeap(k) /\ Heads(K) /\ Overwrites(C, K, q, r)
  BY <1>b, FreeOf
<1>3. /\ ~K[q].cin /\ K[q].pin
      /\ e \in DOMAIN C => K[e].pin = C[e].pin
      /\ e \in DOMAIN C => K[e].foot = r
  <2>1. ~K[q].cin /\ K[q].pin
    BY <1>b, FreeOf
  <2>2. e \in DOMAIN C => K[e].pin = C[e].pin
    BY <1>b, FreeOf
  <2>3. e \in DOMAIN C => K[e].foot = r
    BY <1>b, FreeOf
  <2> QED
    BY <2>1, <2>2, <2>3
<1>c. IsHeap(k) /\ Heads(k.chunk)
  BY <1>2
<1> HIDE DEF k
<1>4. SameBut(g, k, {"chunk"}) /\ Heads(D) /\ Overwrites(K, D, p, n)
  BY <1>b, <1>c, UsePartOf
<1>5. /\ D[p].cin /\ D[p].pin
      /\ q \in DOMAIN K => D[q].pin = K[q].pin
      /\ q \in DOMAIN K => D[q].foot = Stamp
  <2>1. D[p].cin /\ D[p].pin
    BY <1>b, <1>c, UsePartOf
  <2>2. q \in DOMAIN K => D[q].pin = K[q].pin
    BY <1>b, <1>c, UsePartOf
  <2>3. q \in DOMAIN K => D[q].foot = Stamp
    BY <1>b, <1>c, UsePartOf
  <2> QED
    BY <2>1, <2>2, <2>3
<1> HIDE DEF g, C, K, D
<1>a. Overwrites(C, K, q, e - q) /\ Overwrites(K, D, p, q - p)
  BY <1>1, <1>2, <1>4
<1>6. /\ Overwrites2(C, D, p, q, e) /\ D[e] = K[e] /\ K[p] = C[p] /\ p \in DOMAIN K
      /\ q \in DOMAIN K
  BY <1>1, <1>a, OverwritesDown
<1>7. q \in DOMAIN D /\ p \in DOMAIN D /\ e \in DOMAIN D /\ D[e].cin = C[e].cin
      /\ D[p].size = n /\ D[q].size = r
  BY <1>1, <1>6 DEF Overwrites2
<1>8. /\ D[p].pin \in BOOLEAN /\ D[p].cin \in BOOLEAN /\ D[q].pin \in BOOLEAN
      /\ D[q].cin \in BOOLEAN /\ D[e].pin \in BOOLEAN /\ C[p].pin \in BOOLEAN
  BY <1>1, <1>4, <1>7, ChunkFields
<1>9. D[e].pin = C[e].pin /\ D[e].foot = r
  BY <1>1, <1>3, <1>6
<1>10. D[q].pin = K[q].pin /\ D[q].cin = K[q].cin
  <2>1. D[q].cin = K[q].cin
    BY <1>1, <1>4, <1>6 DEF Overwrites
  <2> QED
    BY <1>5, <1>6, <2>1
<1>11. Tells(D, p, q, 0) /\ Tells(D, q, e, 0)
  BY <1>3, <1>5, <1>6, <1>7, <1>8, <1>9, <1>10 DEF Tells, C
<1>12. D[p].pin = C[p].pin /\ D[p].cin /\ ~D[q].cin /\ D[q].pin
  BY <1>3, <1>5, <1>6, <1>8, <1>9, <1>10 DEF C
<1>13. SameBut(g, h, {"chunk"})
  BY <1>2, <1>4 DEF SameBut
<1>14. Sound(g, (L \ (p .. e - 1)) \cup {a \in {p, q} : D[a].cin},
                (U \ (p .. e - 1)) \cup {a \in {p, q} : ~D[a].cin})
  BY <1>1, <1>4, <1>6, <1>11, <1>12, <1>13, TwoPieces DEF C, D
<1>15. {a \in {p, q} : D[a].cin} = {p} /\ {a \in {p, q} : ~D[a].cin} = {q}
  BY <1>12
<1>16. Sound(g, (L \ (p .. e - 1)) \cup {p}, (U \ (p .. e - 1)) \cup {q})
  BY <1>14, <1>15
<1> QED
  BY <1>16 DEF g, k, q

\* A span becomes two chunks in use.
LEMMA CutSpan ==
  ASSUME NEW h, NEW L, NEW U, NEW p, NEW e, Sound(h, L, U), Span(h, p, e, L, U),
         NEW n \in Nat, NEW r \in Nat, n >= MinChunk, r >= MinChunk, p + n + r = e
  PROVE  Sound(SetInUseWhole(SetInUse(h, p, n), p + n, r), (L \ (p .. e - 1)) \cup {p, p + n}, U \ (p .. e - 1))
<1> DEFINE q == p + n
           k == SetInUse(h, p, n)
           g == SetInUseWhole(k, q, r)
           C == h.chunk
           K == k.chunk
           D == g.chunk
<1>1. /\ p \in Nat \ {0} /\ e \in Nat \ {0} /\ p \in DOMAIN C /\ e \in DOMAIN C
      /\ n \in Nat \ {0} /\ r \in Nat \ {0} /\ q \in Nat \ {0} /\ q - p = n /\ e - q = r
      /\ q + r = e /\ p < q /\ q < e /\ q >= p /\ Heads(C) /\ IsHeap(h)
      /\ DOMAIN C \subseteq Nat /\ p + MinChunk <= q /\ q + MinChunk <= e /\ q = p + n /\ e = q + r
  BY SpanFields, Numbers
<1> HIDE DEF q
<1>b. /\ IsHeap(h) /\ Heads(h.chunk) /\ p \in Nat \ {0} /\ q \in Nat \ {0} /\ n \in Nat \ {0}
      /\ r \in Nat \ {0} /\ q = p + n /\ e = q + r
  BY <1>1
<1>2. SameBut(k, h, {"chunk"}) /\ IsHeap(k) /\ Heads(K) /\ Overwrites(C, K, p, n)
  BY <1>b, UseOf
<1>3. /\ K[p].cin
      /\ K[p].pin <=> (p \in DOMAIN h.chunk /\ h.chunk[p].pin)
      /\ q \in DOMAIN C => K[q].foot = Stamp
  <2>1. K[p].cin
    BY <1>b, UseOf
  <2>2. K[p].pin <=> (p \in DOMAIN h.chunk /\ h.chunk[p].pin)
    BY <1>b, UseOf
  <2>3. q \in DOMAIN C => K[q].foot = Stamp
    BY <1>b, UseOf
  <2> QED
    BY <2>1, <2>2, <2>3
<1>c. IsHeap(k) /\ Heads(k.chunk)
  BY <1>2
<1> HIDE DEF k
<1>4. SameBut(g, k, {"chunk"}) /\ Heads(D) /\ Overwrites(K, D, q, r)
  BY <1>b, <1>c, UseWholeOf
<1>5. /\ D[q].cin /\ D[q].pin
      /\ e \in DOMAIN K => D[e].pin
      /\ e \in DOMAIN K => D[e].foot = Stamp
  <2>1. D[q].cin /\ D[q].pin
    BY <1>b, <1>c, UseWholeOf
  <2>2. e \in DOMAIN K => D[e].pin
    BY <1>b, <1>c, UseWholeOf
  <2>3. e \in DOMAIN K => D[e].foot = Stamp
    BY <1>b, <1>c, UseWholeOf
  <2> QED
    BY <2>1, <2>2, <2>3
<1> HIDE DEF g, C, K, D
<1>a. Overwrites(C, K, p, q - p) /\ Overwrites(K, D, q, e - q)
  BY <1>1, <1>2, <1>4
<1>6. Overwrites2(C, D, p, q, e) /\ D[p] = K[p] /\ K[e] = C[e] /\ e \in DOMAIN K
  BY <1>1, <1>a, OverwritesUp
<1>7. q \in DOMAIN D /\ p \in DOMAIN D /\ e \in DOMAIN D /\ D[e].cin = C[e].cin
      /\ D[p].size = n /\ D[q].size = r
  BY <1>1, <1>6 DEF Overwrites2
<1>8. /\ D[p].pin \in BOOLEAN /\ D[p].cin \in BOOLEAN /\ D[q].pin \in BOOLEAN
      /\ D[q].cin \in BOOLEAN /\ D[e].pin \in BOOLEAN /\ C[p].pin \in BOOLEAN
  BY <1>1, <1>4, <1>7, ChunkFields
<1>9. q \in DOMAIN K => K[q].foot = Stamp
  BY <1>1, <1>2, <1>3 DEF Overwrites
<1>10. D[q].foot = Stamp /\ (D[p].pin <=> C[p].pin)
  <2>1. D[q].foot = Stamp
    BY <1>4, <1>9 DEF Overwrites
  <2> QED
    BY <1>1, <1>3, <1>6, <2>1 DEF C
<1>11. Tells(D, p, q, 0) /\ Tells(D, q, e, 0)
  BY <1>3, <1>5, <1>6, <1>7, <1>8, <1>9, <1>10 DEF Tells, C
<1>12. D[p].pin = C[p].pin /\ D[p].cin /\ D[q].cin /\ D[q].pin
  BY <1>3, <1>5, <1>6, <1>8, <1>9, <1>10 DEF C
<1>13. SameBut(g, h, {"chunk"})
  BY <1>2, <1>4 DEF SameBut
<1>14. Sound(g, (L \ (p .. e - 1)) \cup {a \in {p, q} : D[a].cin},
                (U \ (p .. e - 1)) \cup {a \in {p, q} : ~D[a].cin})
  BY <1>1, <1>4, <1>6, <1>11, <1>12, <1>13, TwoPieces DEF C, D
<1>15. {a \in {p, q} : D[a].cin} = {p, q} /\ {a \in {p, q} : ~D[a].cin} = {}
  BY <1>12
<1>16. Sound(g, (L \ (p .. e - 1)) \cup {p, q}, U \ (p .. e - 1))
  BY <1>14, <1>15
<1> QED
  BY <1>16 DEF g, k, q

\* The same, the upper one written first.
LEMMA CutLeader ==
  ASSUME NEW h, NEW L, NEW U, NEW p, NEW e, Sound(h, L, U), Span(h, p, e, L, U),
         NEW n \in Nat, NEW r \in Nat, n >= MinChunk, r >= MinChunk, p + n + r = e
  PROVE  Sound(SetInUse(SetInUse(h, p + n, r), p, n), (L \ (p .. e - 1)) \cup {p, p + n}, U \ (p .. e - 1))
<1> DEFINE q == p + n
           k == SetInUse(h, q, r)
           g == SetInUse(k, p, n)
           C == h.chunk
           K == k.chunk
           D == g.chunk
<1>1. /\ p \in Nat \ {0} /\ e \in Nat \ {0} /\ p \in DOMAIN C /\ e \in DOMAIN C
      /\ n \in Nat \ {0} /\ r \in Nat \ {0} /\ q \in Nat \ {0} /\ q - p = n /\ e - q = r
      /\ q + r = e /\ p < q /\ q < e /\ q >= p /\ Heads(C) /\ IsHeap(h)
      /\ DOMAIN C \subseteq Nat /\ p + MinChunk <= q /\ q + MinChunk <= e /\ q = p + n /\ e = q + r
  BY SpanFields, Numbers
<1> HIDE DEF q
<1>b. /\ IsHeap(h) /\ Heads(h.chunk) /\ p \in Nat \ {0} /\ q \in Nat \ {0} /\ n \in Nat \ {0}
      /\ r \in Nat \ {0} /\ q = p + n /\ e = q + r
  BY <1>1
<1>2. SameBut(k, h, {"chunk"}) /\ IsHeap(k) /\ Heads(K) /\ Overwrites(C, K, q, r)
  BY <1>b, UseOf
<1>3. /\ K[q].cin
      /\ e \in DOMAIN C => K[e].pin
      /\ e \in DOMAIN C => K[e].foot = Stamp
  <2>1. K[q].cin
    BY <1>b, UseOf
  <2>2. e \in DOMAIN C => K[e].pin
    BY <1>b, UseOf
  <2>3. e \in DOMAIN C => K[e].foot = Stamp
    BY <1>b, UseOf
  <2> QED
    BY <2>1, <2>2, <2>3
<1>c. IsHeap(k) /\ Heads(k.chunk)
  BY <1>2
<1> HIDE DEF k
<1>4. SameBut(g, k, {"chunk"}) /\ Heads(D) /\ Overwrites(K, D, p, n)
  BY <1>b, <1>c, UseOf
<1>5. /\ D[p].cin
      /\ D[p].pin <=> (p \in DOMAIN k.chunk /\ k.chunk[p].pin)
      /\ q \in DOMAIN K => D[q].pin
      /\ q \in DOMAIN K => D[q].foot = Stamp
  <2>1. D[p].cin
    BY <1>b, <1>c, UseOf
  <2>2. D[p].pin <=> (p \in DOMAIN k.chunk /\ k.chunk[p].pin)
    BY <1>b, <1>c, UseOf
  <2>3. q \in DOMAIN K => D[q].pin
    BY <1>b, <1>c, UseOf
  <2>4. q \in DOMAIN K => D[q].foot = Stamp
    BY <1>b, <1>c, UseOf
  <2> QED
    BY <2>1, <2>2, <2>3, <2>4
<1> HIDE DEF g, C, K, D
<1>a. Overwrites(C, K, q, e - q) /\ Overwrites(K, D, p, q - p)
  BY <1>1, <1>2, <1>4
<1>6. /\ Overwrites2(C, D, p, q, e) /\ D[e] = K[e] /\ K[p] = C[p] /\ p \in DOMAIN K
      /\ q \in DOMAIN K
  BY <1>1, <1>a, OverwritesDown
<1>7. q \in DOMAIN D /\ p \in DOMAIN D /\ e \in DOMAIN D /\ D[e].cin = C[e].cin
      /\ D[p].size = n /\ D[q].size = r
  BY <1>1, <1>6 DEF Overwrites2
<1>8. /\ D[p].pin \in BOOLEAN /\ D[p].cin \in BOOLEAN /\ D[q].pin \in BOOLEAN
      /\ D[q].cin \in BOOLEAN /\ D[e].pin \in BOOLEAN /\ C[p].pin \in BOOLEAN
  BY <1>1, <1>4, <1>7, ChunkFields
<1>9. D[e].pin /\ D[e].foot = Stamp
  BY <1>1, <1>3, <1>6
<1>10. D[q].pin /\ D[q].cin = K[q].cin /\ (D[p].pin <=> C[p].pin)
  <2>1. D[q].cin = K[q].cin
    BY <1>1, <1>4, <1>6 DEF Overwrites
  <2> QED
    BY <1>5, <1>6, <2>1 DEF K
<1>11. Tells(D, p, q, 0) /\ Tells(D, q, e, 0)
  BY <1>3, <1>5, <1>6, <1>7, <1>8, <1>9, <1>10 DEF Tells, C
<1>12. D[p].pin = C[p].pin /\ D[p].cin /\ D[q].cin /\ D[q].pin
  BY <1>3, <1>5, <1>6, <1>8, <1>9, <1>10 DEF C
<1>13. SameBut(g, h, {"chunk"})
  BY <1>2, <1>4 DEF SameBut
<1>14. Sound(g, (L \ (p .. e - 1)) \cup {a \in {p, q} : D[a].cin},
                (U \ (p .. e - 1)) \cup {a \in {p, q} : ~D[a].cin})
  BY <1>1, <1>4, <1>6, <1>11, <1>12, <1>13, TwoPieces DEF C, D
<1>15. {a \in {p, q} : D[a].cin} = {p, q} /\ {a \in {p, q} : ~D[a].cin} = {}
  BY <1>12
<1>16. Sound(g, (L \ (p .. e - 1)) \cup {p, q}, U \ (p .. e - 1))
  BY <1>14, <1>15
<1> QED
  BY <1>16 DEF g, k, q

\* Writing a bit that is there already.
LEMMA PinKept ==
  ASSUME NEW h, IsHeap(h), Heads(h.chunk), NEW a \in DOMAIN h.chunk, ~h.chunk[a].pin
  PROVE  SetPin(h, a, FALSE) = h
<1> DEFINE C == h.chunk
           D == [C EXCEPT ![a].pin = FALSE]
<1>1. SetPin(h, a, FALSE) = [h EXCEPT !.chunk = D]
  BY DEF SetPin
<1>2. C[a] \in Header /\ C = [b \in DOMAIN C |-> C[b]]
  BY DEF Heads
<1>3. C[a].pin = FALSE
  BY <1>2 DEF Header
<1>4. [C[a] EXCEPT !.pin = FALSE] = C[a]
  BY <1>2, <1>3 DEF Header
<1>5. D = C
  BY <1>2, <1>4
<1>6. [h EXCEPT !.chunk = C] = h
  BY DEF IsHeap, HeapFields
<1> QED
  BY <1>1, <1>5, <1>6

\* A span becomes a chunk that grew into a free one, and what is left of that.
LEMMA GrowSpan ==
  ASSUME NEW h, NEW L, NEW U, NEW p, NEW e, Sound(h, L, U), Span(h, p, e, L, U),
         NEW n \in Nat, NEW r \in Nat, n >= MinChunk, r >= MinChunk, p + n + r = e,
         ~h.chunk[e].pin, h.chunk[e].cin
  PROVE  Sound(SetPin(SetFree(SetInUse(h, p, n), p + n, r), e, FALSE), (L \ (p .. e - 1)) \cup {p}, (U \ (p .. e - 1)) \cup {p + n})
<1> DEFINE q == p + n
           k == SetInUse(h, p, n)
           g == SetFree(k, q, r)
           C == h.chunk
           K == k.chunk
           D == g.chunk
<1>1. /\ p \in Nat \ {0} /\ e \in Nat \ {0} /\ p \in DOMAIN C /\ e \in DOMAIN C
      /\ n \in Nat \ {0} /\ r \in Nat \ {0} /\ q \in Nat \ {0} /\ q - p = n /\ e - q = r
      /\ q + r = e /\ p < q /\ q < e /\ q >= p /\ Heads(C) /\ IsHeap(h)
      /\ DOMAIN C \subseteq Nat /\ p + MinChunk <= q /\ q + MinChunk <= e /\ q = p + n /\ e = q + r
  BY SpanFields, Numbers
<1> HIDE DEF q
<1>b. /\ IsHeap(h) /\ Heads(h.chunk) /\ p \in Nat \ {0} /\ q \in Nat \ {0} /\ n \in Nat \ {0}
      /\ r \in Nat \ {0} /\ q = p + n /\ e = q + r
  BY <1>1
<1>2. SameBut(k, h, {"chunk"}) /\ IsHeap(k) /\ Heads(K) /\ Overwrites(C, K, p, n)
  BY <1>b, UseOf
<1>3. /\ K[p].cin
      /\ K[p].pin <=> (p \in DOMAIN h.chunk /\ h.chunk[p].pin)
      /\ q \in DOMAIN C => K[q].foot = Stamp
  <2>1. K[p].cin
    BY <1>b, UseOf
  <2>2. K[p].pin <=> (p \in DOMAIN h.chunk /\ h.chunk[p].pin)
    BY <1>b, UseOf
  <2>3. q \in DOMAIN C => K[q].foot = Stamp
    BY <1>b, UseOf
  <2> QED
    BY <2>1, <2>2, <2>3
<1>c. IsHeap(k) /\ Heads(k.chunk)
  BY <1>2
<1> HIDE DEF k
<1>4. SameBut(g, k, {"chunk"}) /\ Heads(D) /\ Overwrites(K, D, q, r)
  BY <1>b, <1>c, FreeOf
<1>5. /\ ~D[q].cin /\ D[q].pin
      /\ e \in DOMAIN K => D[e].pin = K[e].pin
      /\ e \in DOMAIN K => D[e].foot = r
  <2>1. ~D[q].cin /\ D[q].pin
    BY <1>b, <1>c, FreeOf
  <2>2. e \in DOMAIN K => D[e].pin = K[e].pin
    BY <1>b, <1>c, FreeOf
  <2>3. e \in DOMAIN K => D[e].foot = r
    BY <1>b, <1>c, FreeOf, SMTT(20)
  <2> QED
    BY <2>1, <2>2, <2>3
<1> HIDE DEF g, C, K, D
<1>a. Overwrites(C, K, p, q - p) /\ Overwrites(K, D, q, e - q)
  BY <1>1, <1>2, <1>4
<1>6. Overwrites2(C, D, p, q, e) /\ D[p] = K[p] /\ K[e] = C[e] /\ e \in DOMAIN K
  BY <1>1, <1>a, OverwritesUp
<1>7. q \in DOMAIN D /\ p \in DOMAIN D /\ e \in DOMAIN D /\ D[e].cin = C[e].cin
      /\ D[p].size = n /\ D[q].size = r
  BY <1>1, <1>6 DEF Overwrites2
<1>8. /\ D[p].pin \in BOOLEAN /\ D[p].cin \in BOOLEAN /\ D[q].pin \in BOOLEAN
      /\ D[q].cin \in BOOLEAN /\ D[e].pin \in BOOLEAN /\ C[p].pin \in BOOLEAN
  BY <1>1, <1>4, <1>7, ChunkFields
<1>9. q \in DOMAIN K => K[q].foot = Stamp
  BY <1>1, <1>2, <1>3 DEF Overwrites
<1>10. D[q].foot = Stamp /\ (D[p].pin <=> C[p].pin)
  <2>1. D[q].foot = Stamp
    BY <1>4, <1>9 DEF Overwrites
  <2> QED
    BY <1>1, <1>3, <1>6, <2>1 DEF C
<1>11. Tells(D, p, q, 0) /\ Tells(D, q, e, 0)
  BY <1>3, <1>5, <1>6, <1>7, <1>8, <1>9, <1>10 DEF Tells, C
<1>12. D[p].pin = C[p].pin /\ D[p].cin /\ ~D[q].cin /\ D[q].pin
  BY <1>3, <1>5, <1>6, <1>8, <1>9, <1>10 DEF C
<1>13. SameBut(g, h, {"chunk"})
  BY <1>2, <1>4 DEF SameBut
<1>14. Sound(g, (L \ (p .. e - 1)) \cup {a \in {p, q} : D[a].cin},
                (U \ (p .. e - 1)) \cup {a \in {p, q} : ~D[a].cin})
  BY <1>1, <1>4, <1>6, <1>11, <1>12, <1>13, TwoPieces DEF C, D
<1>15. {a \in {p, q} : D[a].cin} = {p} /\ {a \in {p, q} : ~D[a].cin} = {q}
  BY <1>12
<1>16. Sound(g, (L \ (p .. e - 1)) \cup {p}, (U \ (p .. e - 1)) \cup {q})
  BY <1>14, <1>15
<1>17. IsHeap(g) /\ Heads(g.chunk) /\ e \in DOMAIN g.chunk /\ ~g.chunk[e].pin
  BY <1>4, <1>5, <1>6, <1>7 DEF SameBut, D, C
<1>18. SetPin(g, e, FALSE) = g
  BY <1>17, PinKept
<1> QED
  BY <1>16, <1>18 DEF g, k, q

----------------------------------------------------------------------------
(* Bins and the designated victim. *)

\* A chunk leaves a list.
LEMMA RemoveOne ==
  ASSUME NEW s \in Seq(Nat), NEW a \in Range(s),
         \A i, j \in DOMAIN s : s[i] = s[j] => i = j,
         NEW t, t = RemoveAt(s, CHOOSE i \in DOMAIN s : s[i] = a)
  PROVE  /\ t \in Seq(Nat) /\ \A i, j \in DOMAIN t : t[i] = t[j] => i = j
         /\ Range(t) = Range(s) \ {a}
<1> DEFINE k == CHOOSE i \in DOMAIN s : s[i] = a
<1>1. \E i \in DOMAIN s : s[i] = a
  BY DEF Range
<1>2. k \in DOMAIN s /\ s[k] = a
  BY <1>1
<1> HIDE DEF k
<1>3. DOMAIN s = 1 .. Len(s) /\ Len(s) \in Nat /\ k \in 1 .. Len(s)
  BY <1>2
<1>4. t = SubSeq(s, 1, k - 1) \o SubSeq(s, k + 1, Len(s))
  BY DEF RemoveAt, k
<1>5. /\ SubSeq(s, 1, k - 1) \in Seq(Nat) /\ Len(SubSeq(s, 1, k - 1)) = k - 1
      /\ \A j \in 1 .. k - 1 : SubSeq(s, 1, k - 1)[j] = s[j]
  BY <1>3
<1>6. /\ SubSeq(s, k + 1, Len(s)) \in Seq(Nat) /\ Len(SubSeq(s, k + 1, Len(s))) = Len(s) - k
      /\ \A j \in 1 .. Len(s) - k : SubSeq(s, k + 1, Len(s))[j] = s[j + k]
  <2> DEFINE m == k + 1
             u == SubSeq(s, m, Len(s))
  <2>1. m \in Int /\ Len(s) \in Int /\ \A i \in m .. Len(s) : s[i] \in Nat
    BY <1>3
  <2>2. /\ u \in Seq(Nat)
        /\ Len(u) = (IF m <= Len(s) THEN Len(s) - m + 1 ELSE 0)
        /\ \A i \in 1 .. Len(s) - m + 1 : u[i] = s[m + i - 1]
    BY <2>1, SubSeqProperties
  <2>m. m = k + 1
    OBVIOUS
  <2> HIDE DEF u, m
  <2>3. Len(u) = Len(s) - k
    <3>1. CASE k < Len(s)
      <4>1. m <= Len(s) /\ Len(s) - m + 1 = Len(s) - k
        BY <3>1, <1>3, <2>m
      <4>2. Len(u) = Len(s) - m + 1
        BY <4>1, <2>2, Zenon
      <4> QED
        BY <4>1, <4>2
    <3>2. CASE k = Len(s)
      <4>1. ~(m <= Len(s)) /\ Len(s) - k = 0
        BY <3>2, <1>3, <2>m
      <4>2. Len(u) = 0
        BY <4>1, <2>2, Zenon
      <4> QED
        BY <4>1, <4>2
    <3>3. k < Len(s) \/ k = Len(s)
      <4>1. k \in Int /\ Len(s) \in Int /\ k <= Len(s)
        BY <1>3
      <4> QED
        BY <4>1
    <3> QED
      BY <3>1, <3>2, <3>3, Zenon
  <2>4. \A j \in 1 .. Len(s) - k : j \in 1 .. Len(s) - m + 1 /\ m + j - 1 = j + k
    BY <1>3, <2>m
  <2> QED
    BY <2>2, <2>3, <2>4 DEF u, m
<1>7. /\ t \in Seq(Nat) /\ DOMAIN t = 1 .. Len(s) - 1
      /\ \A j \in 1 .. Len(s) - 1 : t[j] = s[IF j < k THEN j ELSE j + 1]
  <2> DEFINE x == SubSeq(s, 1, k - 1)
             y == SubSeq(s, k + 1, Len(s))
  <2>1. /\ x \o y \in Seq(Nat) /\ Len(x \o y) = Len(x) + Len(y)
        /\ \A i \in 1 .. Len(x) + Len(y) : (x \o y)[i] = IF i <= Len(x) THEN x[i] ELSE y[i - Len(x)]
    <3>1. x \in Seq(Nat) /\ y \in Seq(Nat)
      BY <1>5, <1>6
    <3> HIDE DEF x, y
    <3> QED
      BY <3>1, ConcatProperties, SMTT(20)
  <2>a. Len(x) = k - 1
    BY <1>5, Zenon
  <2>b. Len(y) = Len(s) - k
    BY <1>6, Zenon
  <2>c. t = x \o y
    BY <1>4, Zenon
  <2> HIDE DEF x, y
  <2>2. Len(x) = k - 1 /\ Len(y) = Len(s) - k /\ Len(x) + Len(y) = Len(s) - 1
    BY <1>3, <2>a, <2>b
  <2>3. t \in Seq(Nat) /\ Len(t) = Len(s) - 1 /\ DOMAIN t = 1 .. Len(s) - 1
    <3>1. t \in Seq(Nat)
      BY <2>1, <2>c, Zenon
    <3>2. Len(t) = Len(x) + Len(y)
      BY <2>1, <2>c, Zenon
    <3>3. Len(t) = Len(s) - 1
      BY <3>2, <2>2
    <3>4. DOMAIN t = 1 .. Len(t)
      BY <3>1
    <3> QED
      BY <3>1, <3>3, <3>4
  <2>4. ASSUME NEW j \in 1 .. Len(s) - 1 PROVE t[j] = s[IF j < k THEN j ELSE j + 1]
    <3>1. t[j] = IF j <= k - 1 THEN x[j] ELSE y[j - (k - 1)]
      BY <1>4, <2>1, <2>2 DEF x, y
    <3>2. CASE j < k
      <4>1. j \in 1 .. k - 1
        BY <3>2, <1>3
      <4> QED
        BY <3>1, <3>2, <4>1, <1>5 DEF x
    <3>3. CASE j >= k
      <4>1. j - (k - 1) \in 1 .. Len(s) - k /\ j - (k - 1) + k = j + 1 /\ ~(j <= k - 1)
            /\ ~(j < k)
        BY <3>3, <1>3
      <4> DEFINE m == j - (k - 1)
      <4>2. t[j] = y[m] /\ m \in 1 .. Len(s) - k /\ m + k = j + 1
        BY <3>1, <4>1, Zenon
      <4> HIDE DEF m
      <4>3. y[m] = s[m + k]
        BY <4>2, <1>6 DEF y
      <4> QED
        BY <4>1, <4>2, <4>3
    <3>4. j \in Int /\ k \in Int
      BY <1>3
    <3>5. j < k \/ j >= k
      BY <3>4
    <3> QED
      BY <3>2, <3>3, <3>5, Zenon
  <2> QED
    BY <2>3, <2>4
<1> DEFINE N == Len(s)
<1>n. N \in Int /\ k \in Int /\ 1 <= k /\ k <= N /\ DOMAIN s = 1 .. N
  BY <1>3
<1>t. DOMAIN t = 1 .. N - 1 /\ \A j \in 1 .. N - 1 : t[j] = s[IF j < k THEN j ELSE j + 1]
  BY <1>7
<1> HIDE DEF N
<1>8. \A j \in DOMAIN t : (IF j < k THEN j ELSE j + 1) \in DOMAIN s /\ (IF j < k THEN j ELSE j + 1) # k
  BY <1>n, <1>t
<1>9. \A i, j \in DOMAIN t : t[i] = t[j] => i = j
  <2> SUFFICES ASSUME NEW i \in DOMAIN t, NEW j \in DOMAIN t, t[i] = t[j] PROVE i = j
    OBVIOUS
  <2> DEFINE u == IF i < k THEN i ELSE i + 1
             v == IF j < k THEN j ELSE j + 1
  <2>0. u \in DOMAIN s /\ v \in DOMAIN s /\ t[i] = s[u] /\ t[j] = s[v]
    BY <1>t, <1>8
  <2> HIDE DEF u, v
  <2>a. u = v
    BY <2>0
  <2>1. (IF i < k THEN i ELSE i + 1) = (IF j < k THEN j ELSE j + 1)
    BY <2>a DEF u, v
  <2>2. i \in Int /\ j \in Int
    BY <1>n, <1>t
  <2> QED
    BY <2>1, <2>2, <1>n
<1>10. ASSUME NEW b \in Range(t) PROVE b \in Range(s) \ {a}
  <2>1. PICK j \in DOMAIN t : t[j] = b
    BY DEF Range
  <2>2. s[IF j < k THEN j ELSE j + 1] = b
    BY <2>1, <1>7
  <2>3. b # a
    BY <2>2, <1>2, <1>8
  <2> QED
    BY <2>2, <2>3, <1>8 DEF Range
<1>11. ASSUME NEW b \in Range(s) \ {a} PROVE b \in Range(t)
  <2>1. PICK i \in DOMAIN s : s[i] = b
    BY DEF Range
  <2>2. i # k
    BY <2>1, <1>2
  <2>3. CASE i < k
    <3>1. i \in DOMAIN t /\ t[i] = b
      BY <2>1, <2>3, <1>n, <1>t
    <3> QED
      BY <3>1 DEF Range
  <2>4. CASE i > k
    <3>1. i - 1 \in DOMAIN t /\ t[i - 1] = b
      <4>1. i - 1 \in 1 .. N - 1 /\ ~(i - 1 < k) /\ i - 1 + 1 = i
        BY <2>1, <2>4, <1>n
      <4> QED
        BY <2>1, <4>1, <1>t
    <3> QED
      BY <3>1 DEF Range
  <2>5. i \in Int
    BY <1>n
  <2> QED
    BY <2>2, <2>3, <2>4, <2>5, <1>n
<1> QED
  BY <1>7, <1>9, <1>10, <1>11

\* A chunk enters a list at its front.
LEMMA AddOne ==
  ASSUME NEW s \in Seq(Nat), NEW a \in Nat, a \notin Range(s),
         \A i, j \in DOMAIN s : s[i] = s[j] => i = j,
         NEW t, t = <<a>> \o s
  PROVE  /\ t \in Seq(Nat) /\ \A i, j \in DOMAIN t : t[i] = t[j] => i = j
         /\ Range(t) = Range(s) \cup {a}
<1> DEFINE x == <<a>>
<1>1. x \in Seq(Nat) /\ Len(x) = 1 /\ x[1] = a
  OBVIOUS
<1>2. t = x \o s
  OBVIOUS
<1> HIDE DEF x
<1>3. /\ x \o s \in Seq(Nat) /\ Len(x \o s) = Len(x) + Len(s)
      /\ \A i \in 1 .. Len(x) + Len(s) : (x \o s)[i] = IF i <= Len(x) THEN x[i] ELSE s[i - Len(x)]
  BY <1>1, ConcatProperties
<1> DEFINE N == Len(s)
<1>4. N \in Nat /\ DOMAIN s = 1 .. N
  OBVIOUS
<1>5. Len(t) = N + 1 /\ t \in Seq(Nat)
      /\ \A i \in 1 .. N + 1 : t[i] = IF i <= 1 THEN x[i] ELSE s[i - 1]
  <2>1. Len(x) + Len(s) = N + 1
    BY <1>1, <1>4
  <2> QED
    BY <2>1, <1>1, <1>2, <1>3, Zenon
<1>6. DOMAIN t = 1 .. N + 1
  <2>1. DOMAIN t = 1 .. Len(t)
    BY <1>5
  <2> QED
    BY <2>1, <1>5
<1> HIDE DEF N
<1>7. 1 \in DOMAIN t /\ t[1] = a
  BY <1>1, <1>4, <1>5, <1>6
<1>8. \A i \in DOMAIN t : i = 1 \/ (i - 1 \in DOMAIN s /\ t[i] = s[i - 1] /\ i \in Int)
  BY <1>4, <1>5, <1>6
<1>9. \A i \in DOMAIN s : i + 1 \in DOMAIN t /\ t[i + 1] = s[i]
  BY <1>4, <1>5, <1>6
<1>10. \A i \in DOMAIN s : s[i] # a
  BY DEF Range
<1>11. \A i, j \in DOMAIN t : t[i] = t[j] => i = j
  BY <1>7, <1>8, <1>10
<1>12. \A b \in Range(t) : b = a \/ b \in Range(s)
  BY <1>7, <1>8 DEF Range
<1>13. a \in Range(t)
  BY <1>7 DEF Range
<1>14. \A b \in Range(s) : b \in Range(t)
  <2> SUFFICES ASSUME NEW i \in DOMAIN s PROVE s[i] \in Range(t)
    BY DEF Range
  <2> QED
    BY <1>9 DEF Range
<1> QED
  BY <1>5, <1>11, <1>12, <1>13, <1>14

\* What the bins hold.
LEMMA BinnedHas ==
  ASSUME NEW small, NEW tree
  PROVE  \A b : b \in Binned_(small, tree)
                  <=> b \in tree \/ \E m \in SmallSizes : b \in Range(small[m])
BY DEF Binned_

\* Two heaps with the same fields are one.
LEMMA SameHeap ==
  ASSUME NEW g, NEW h, IsHeap(g), IsHeap(h), \A f \in HeapFields : g[f] = h[f]
  PROVE  g = h
BY DEF IsHeap

\* A loose chunk is free, no top, and not smaller than a smallest chunk.
LEMMA LooseFields ==
  ASSUME NEW h, NEW L, NEW U, Sound(h, L, U),
         NEW a \in Idle_(h.chunk), a # h.top
  PROVE  /\ a \in InHeap(h.chunk) /\ a \in DOMAIN h.chunk /\ a \in Nat \ {0}
         /\ ~h.chunk[a].cin /\ h.chunk[a].pin
         /\ h.chunk[a].size \in Nat /\ h.chunk[a].size >= MinChunk
         /\ \E i \in DOMAIN h.segs : Holds(h.segs[i], a) /\ Holds(h.segs[i], a + h.chunk[a].size)
         /\ a + h.chunk[a].size \in InHeap(h.chunk)
         /\ h.chunk[a + h.chunk[a].size].cin /\ ~h.chunk[a + h.chunk[a].size].pin
         /\ h.chunk[a + h.chunk[a].size].foot = h.chunk[a].size
<1>1. /\ a \in InHeap(h.chunk) /\ a \in DOMAIN h.chunk /\ ~h.chunk[a].cin /\ h.chunk[a].pin
  BY DEF Idle_, InHeap
<1>2. /\ Shape(h.chunk, h.segs, h.top, h.state) /\ Heads(h.chunk) /\ Segments(h.segs)
      /\ Linked(h.chunk, h.segs, h.top, h.state) /\ Ends(h.chunk, h.segs, h.top, h.state)
  BY DEF Sound, Shape
<1>3. PICK i \in DOMAIN h.segs : Holds(h.segs[i], a)
  BY <1>1, <1>2 DEF Shape
<1>4. a # LastOf(h.segs, i, h.top)
  BY <1>1, <1>2, <1>3, SegmentFields DEF LastOf, Ends
<1>5. /\ h.chunk[a].size >= MinChunk /\ a + h.chunk[a].size \in InHeap(h.chunk)
      /\ Holds(h.segs[i], a + h.chunk[a].size)
      /\ Tells(h.chunk, a, a + h.chunk[a].size, h.state)
  BY <1>1, <1>2, <1>3, <1>4 DEF Linked
<1>6. a + h.chunk[a].size \in DOMAIN h.chunk
  BY <1>5 DEF InHeap
<1>7. h.chunk[a + h.chunk[a].size].pin = h.chunk[a].cin
  BY <1>5 DEF Tells
<1>8. ~h.chunk[a + h.chunk[a].size].pin
  BY <1>1, <1>7
<1> QED
  BY <1>1, <1>2, <1>3, <1>5, <1>8, ChunkFields DEF Tells

\* The parts of a sound space that bins and victim do not touch.
Frame(h, L) ==
  /\ Shape(h.chunk, h.segs, h.top, h.state) /\ Owned(h.chunk, h.segs, h.state, L)
  /\ h.topsize = h.chunk[h.top].size
  /\ Lent(h.chunk, h.segs, h.backed, h.footprint) /\ Settings(h)

\* The frame does not depend on the bins and the victim.
LEMMA FrameKept ==
  ASSUME NEW g, NEW h, NEW L, Frame(h, L), SameBut(g, h, {"small", "tree", "dv", "dvsize"})
  PROVE  Frame(g, L) /\ IsHeap(g) /\ g.chunk = h.chunk /\ g.top = h.top /\ g.topsize = h.topsize
<1>1. /\ IsHeap(g) /\ g.chunk = h.chunk /\ g.top = h.top /\ g.topsize = h.topsize
      /\ g.segs = h.segs /\ g.state = h.state /\ g.backed = h.backed
      /\ g.footprint = h.footprint /\ g.limit = h.limit /\ g.least = h.least
      /\ g.trimcheck = h.trimcheck /\ g.checks = h.checks /\ g.mmapon = h.mmapon
  BY DEF SameBut, HeapFields
<1> QED
  BY <1>1 DEF Frame, Settings

\* A sound space is a frame whose free chunks are placed.
LEMMA FrameOfSound ==
  ASSUME NEW h, NEW L, NEW U
  PROVE  Sound(h, L, U) <=> /\ IsHeap(h) /\ Frame(h, L)
                            /\ Placed(h.chunk, h.small, h.tree, h.dv, h.top, U)
                            /\ h.dv \in Nat
                            /\ h.dvsize = IF h.dv = 0 THEN 0 ELSE h.chunk[h.dv].size
BY DEF Sound, Frame, Sizes

\* A loose chunk goes into the bin of its size.
LEMMA BinSound ==
  ASSUME NEW h, NEW L, NEW U, Sound(h, L, U), NEW a \in U, NEW n, n = h.chunk[a].size
  PROVE  Sound(Bin(h, a, n), L, U \ {a}) /\ SameBut(Bin(h, a, n), h, {"small", "tree"})
<1> DEFINE C == h.chunk
           g == Bin(h, a, n)
<1>1. /\ Frame(h, L) /\ IsHeap(h) /\ Placed(C, h.small, h.tree, h.dv, h.top, U)
      /\ h.dv \in Nat /\ h.dvsize = IF h.dv = 0 THEN 0 ELSE C[h.dv].size
  BY FrameOfSound
<1>2. a \in Idle_(C) /\ a # h.top /\ a # h.dv
      /\ a \notin h.tree /\ \A m \in SmallSizes : a \notin Range(h.small[m])
  BY <1>1 DEF Placed, Binned_
<1>3. n \in Nat /\ n >= MinChunk /\ a \in Nat
  BY <1>2, LooseFields
<1> HIDE DEF C
<1>4. CASE n < SmallLimit
  <2> DEFINE s == h.small[n]
             t == <<a>> \o s
             small == [h.small EXCEPT ![n] = t]
  <2>1. n \in SmallSizes /\ s \in Seq(Nat) /\ DOMAIN h.small = SmallSizes
    BY <1>1, <1>3, <1>4, Numbers, SMTT(30) DEF Placed, SmallSizes
  <2>2. /\ t \in Seq(Nat) /\ \A i, j \in DOMAIN t : t[i] = t[j] => i = j
        /\ Range(t) = Range(s) \cup {a}
    <3>1. a \notin Range(s) /\ \A i, j \in DOMAIN s : s[i] = s[j] => i = j
      BY <1>1, <1>2, <2>1 DEF Placed
    <3>2. s \in Seq(Nat) /\ t = <<a>> \o s
      BY <2>1
    <3> HIDE DEF s, t
    <3>3. a \in Nat
      BY <1>3
    <3>4. t \in Seq(Nat)
      BY <3>1, <3>2, <3>3, AddOne
    <3>5. \A i, j \in DOMAIN t : t[i] = t[j] => i = j
      BY <3>1, <3>2, <3>3, AddOne
    <3>6. Range(t) = Range(s) \cup {a}
      BY <3>1, <3>2, <3>3, AddOne
    <3> QED
      BY <3>4, <3>5, <3>6
  <2>3. g = [h EXCEPT !.small = small]
    BY <1>4, <2>1 DEF Bin
  <2>4. g.small = small /\ g.tree = h.tree /\ SameBut(g, h, {"small", "tree"})
        /\ g.dv = h.dv /\ g.dvsize = h.dvsize
    BY <1>1, <2>3 DEF IsHeap, SameBut, HeapFields
  <2> HIDE DEF t, s
  <2>5. small \in [SmallSizes -> Seq(Nat)] /\ small[n] = t
        /\ \A m \in SmallSizes : m # n => small[m] = h.small[m]
    BY <1>1, <2>1, <2>2 DEF Placed
  <2> HIDE DEF small, g
  <2>6. Range(t) = Range(s) \cup {a}
    BY <2>2
  <2>7. Binned_(small, h.tree) = Binned_(h.small, h.tree) \cup {a}
    <3>1. \A m \in SmallSizes : Range(small[m]) = Range(h.small[m]) \cup (IF m = n THEN {a} ELSE {})
      BY <2>1, <2>5, <2>6 DEF s
    <3>2. \A b : (\E m \in SmallSizes : b \in Range(small[m]))
                   <=> b = a \/ \E m \in SmallSizes : b \in Range(h.small[m])
      BY <2>1, <3>1
    <3> QED
      BY <3>2, BinnedHas
  <2>8. \A i, j \in DOMAIN t : t[i] = t[j] => i = j
    BY <2>2
  <2>9. Placed(C, small, h.tree, h.dv, h.top, U \ {a})
    <3>1. Idle_(C) = {h.top} \cup Binned_(small, h.tree) \cup ({h.dv} \ {0}) \cup (U \ {a})
      BY <1>1, <2>7 DEF Placed
    <3>2. /\ h.top # h.dv /\ {h.top, h.dv} \cap (Binned_(small, h.tree) \cup (U \ {a})) = {}
          /\ (U \ {a}) \cap Binned_(small, h.tree) = {}
      BY <1>1, <1>2, <2>7 DEF Placed
    <3>3. \A m \in SmallSizes : /\ \A i, j \in DOMAIN small[m] : small[m][i] = small[m][j] => i = j
                                /\ \A b \in Range(small[m]) : C[b].size = m
      <4> SUFFICES ASSUME NEW m \in SmallSizes
                   PROVE  /\ \A i, j \in DOMAIN small[m] : small[m][i] = small[m][j] => i = j
                          /\ \A b \in Range(small[m]) : C[b].size = m
        OBVIOUS
      <4>1. CASE m = n
        BY <4>1, <1>1, <2>1, <2>5, <2>6, <2>8 DEF Placed, s, C
      <4>2. CASE m # n
        BY <4>2, <1>1, <2>5 DEF Placed
      <4> QED
        BY <4>1, <4>2
    <3> QED
      BY <1>1, <2>5, <3>1, <3>2, <3>3 DEF Placed
  <2>10. SameBut(g, h, {"small", "tree", "dv", "dvsize"})
    BY <2>4 DEF SameBut
  <2>11. Frame(g, L) /\ IsHeap(g) /\ g.chunk = h.chunk /\ g.top = h.top
    BY <1>1, <2>10, FrameKept
  <2>12. Sound(g, L, U \ {a})
    BY <1>1, <2>4, <2>9, <2>11, FrameOfSound DEF C
  <2> QED
    BY <2>4, <2>12 DEF g
<1>5. CASE ~(n < SmallLimit)
  <2> DEFINE tree == h.tree \cup {a}
  <2>1. g = [h EXCEPT !.tree = tree]
    BY <1>5 DEF Bin
  <2>2. g.small = h.small /\ g.tree = tree /\ SameBut(g, h, {"small", "tree"})
        /\ g.dv = h.dv /\ g.dvsize = h.dvsize
    BY <1>1, <2>1 DEF IsHeap, SameBut, HeapFields
  <2> HIDE DEF g
  <2>3. Binned_(h.small, tree) = Binned_(h.small, h.tree) \cup {a}
    BY DEF Binned_
  <2>4. n >= SmallLimit
    BY <1>3, <1>5, Numbers
  <2>5. Placed(C, h.small, tree, h.dv, h.top, U \ {a})
    <3>1. Idle_(C) = {h.top} \cup Binned_(h.small, tree) \cup ({h.dv} \ {0}) \cup (U \ {a})
      BY <1>1, <2>3 DEF Placed
    <3>2. /\ h.top # h.dv /\ {h.top, h.dv} \cap (Binned_(h.small, tree) \cup (U \ {a})) = {}
          /\ (U \ {a}) \cap Binned_(h.small, tree) = {}
      BY <1>1, <1>2, <2>3 DEF Placed
    <3> QED
      BY <1>1, <2>4, <3>1, <3>2 DEF Placed, C
  <2>10. SameBut(g, h, {"small", "tree", "dv", "dvsize"})
    BY <2>2 DEF SameBut
  <2>11. Frame(g, L) /\ IsHeap(g) /\ g.chunk = h.chunk /\ g.top = h.top
    BY <1>1, <2>10, FrameKept
  <2>12. Sound(g, L, U \ {a})
    BY <1>1, <2>2, <2>5, <2>11, FrameOfSound DEF C
  <2> QED
    BY <2>2, <2>12 DEF g
<1> QED
  BY <1>4, <1>5

\* A chunk taken out of its bin is loose.
LEMMA UnbinSound ==
  ASSUME NEW h, NEW L, NEW U, Sound(h, L, U), NEW a \in Binned_(h.small, h.tree),
         NEW n, n = h.chunk[a].size
  PROVE  Sound(Unbin(h, a, n), L, U \cup {a}) /\ SameBut(Unbin(h, a, n), h, {"small", "tree"})
<1> DEFINE C == h.chunk
           g == Unbin(h, a, n)
<1>1. /\ Frame(h, L) /\ IsHeap(h) /\ Placed(C, h.small, h.tree, h.dv, h.top, U)
      /\ h.dv \in Nat /\ h.dvsize = IF h.dv = 0 THEN 0 ELSE C[h.dv].size
  BY FrameOfSound
<1>2. a \in Idle_(C) /\ a # h.top /\ a # h.dv /\ a \notin U
  BY <1>1 DEF Placed
<1>3. n \in Nat /\ n >= MinChunk /\ a \in Nat
  BY <1>2, LooseFields
<1> HIDE DEF C
<1>a. /\ \A m \in SmallSizes : \A b \in Range(h.small[m]) : C[b].size = m
      /\ \A b \in h.tree : C[b].size >= SmallLimit
  BY <1>1 DEF Placed
<1>b. a \in h.tree \/ \E m \in SmallSizes : a \in Range(h.small[m])
  BY BinnedHas
<1>c. SmallSizes = 2 .. (SmallLimit - 1) /\ SmallLimit \in Nat
  BY Numbers DEF SmallSizes
<1>4. CASE n < SmallLimit
  <2> DEFINE s == h.small[n]
             t == RemoveAt(s, CHOOSE i \in DOMAIN s : s[i] = a)
             small == [h.small EXCEPT ![n] = t]
  <2>1. n \in SmallSizes /\ s \in Seq(Nat) /\ DOMAIN h.small = SmallSizes
    BY <1>1, <1>3, <1>4, Numbers, SMTT(30) DEF Placed, SmallSizes
  <2>0. a \notin h.tree
    BY <1>a, <1>4, <1>c, <1>3 DEF C
  <2>b. a \in Range(s)
    BY <1>a, <1>b, <2>0 DEF C
  <2>2. /\ t \in Seq(Nat) /\ \A i, j \in DOMAIN t : t[i] = t[j] => i = j
        /\ Range(t) = Range(s) \ {a}
    <3>1. \A i, j \in DOMAIN s : s[i] = s[j] => i = j
      BY <1>1, <2>1 DEF Placed
    <3>2. s \in Seq(Nat) /\ t = RemoveAt(s, CHOOSE i \in DOMAIN s : s[i] = a) /\ a \in Range(s)
      BY <2>1, <2>b
    <3> HIDE DEF s, t
    <3>4. t \in Seq(Nat)
      BY <3>1, <3>2, RemoveOne
    <3>5. \A i, j \in DOMAIN t : t[i] = t[j] => i = j
      BY <3>1, <3>2, RemoveOne
    <3>6. Range(t) = Range(s) \ {a}
      BY <3>1, <3>2, RemoveOne
    <3> QED
      BY <3>4, <3>5, <3>6
  <2>3. g = [h EXCEPT !.small = small]
    BY <1>4, <2>1 DEF Unbin
  <2>4. g.small = small /\ g.tree = h.tree /\ SameBut(g, h, {"small", "tree"})
        /\ g.dv = h.dv /\ g.dvsize = h.dvsize
    BY <1>1, <2>3 DEF IsHeap, SameBut, HeapFields
  <2> HIDE DEF t, s
  <2>5. small \in [SmallSizes -> Seq(Nat)] /\ small[n] = t
        /\ \A m \in SmallSizes : m # n => small[m] = h.small[m]
    BY <1>1, <2>1, <2>2 DEF Placed
  <2> HIDE DEF small, g
  <2>6. \A m \in SmallSizes : Range(small[m]) = Range(h.small[m]) \ (IF m = n THEN {a} ELSE {})
    BY <2>1, <2>2, <2>5 DEF s
  <2>7. Binned_(small, h.tree) = Binned_(h.small, h.tree) \ {a}
    <3>1. \A m \in SmallSizes : m # n => a \notin Range(h.small[m])
      BY <1>a DEF C
    <3>2. \A b : (\E m \in SmallSizes : b \in Range(small[m]))
                   <=> b # a /\ \E m \in SmallSizes : b \in Range(h.small[m])
      BY <2>1, <2>6, <3>1
    <3> QED
      BY <2>0, <3>2, BinnedHas
  <2>9. Placed(C, small, h.tree, h.dv, h.top, U \cup {a})
    <3>1. Idle_(C) = {h.top} \cup Binned_(small, h.tree) \cup ({h.dv} \ {0}) \cup (U \cup {a})
      BY <1>1, <2>7 DEF Placed
    <3>2. /\ h.top # h.dv /\ {h.top, h.dv} \cap (Binned_(small, h.tree) \cup (U \cup {a})) = {}
          /\ (U \cup {a}) \cap Binned_(small, h.tree) = {}
      BY <1>1, <1>2, <2>7 DEF Placed
    <3>3. \A m \in SmallSizes : /\ \A i, j \in DOMAIN small[m] : small[m][i] = small[m][j] => i = j
                                /\ \A b \in Range(small[m]) : C[b].size = m
      <4> SUFFICES ASSUME NEW m \in SmallSizes
                   PROVE  /\ \A i, j \in DOMAIN small[m] : small[m][i] = small[m][j] => i = j
                          /\ \A b \in Range(small[m]) : C[b].size = m
        OBVIOUS
      <4>1. CASE m = n
        BY <4>1, <1>1, <2>1, <2>2, <2>5, <2>6 DEF Placed, s
      <4>2. CASE m # n
        BY <4>2, <1>1, <2>5 DEF Placed
      <4> QED
        BY <4>1, <4>2
    <3> QED
      BY <1>1, <2>5, <3>1, <3>2, <3>3 DEF Placed
  <2>10. SameBut(g, h, {"small", "tree", "dv", "dvsize"})
    BY <2>4 DEF SameBut
  <2>11. Frame(g, L) /\ IsHeap(g) /\ g.chunk = h.chunk /\ g.top = h.top
    BY <1>1, <2>10, FrameKept
  <2>12. Sound(g, L, U \cup {a})
    BY <1>1, <2>4, <2>9, <2>11, FrameOfSound DEF C
  <2> QED
    BY <2>4, <2>12 DEF g
<1>5. CASE ~(n < SmallLimit)
  <2> DEFINE tree == h.tree \ {a}
  <2>0. a \in h.tree
    BY <1>5, <1>a, <1>b, <1>c, <1>3 DEF C
  <2>1. g = [h EXCEPT !.tree = tree]
    BY <1>5 DEF Unbin
  <2>2. g.small = h.small /\ g.tree = tree /\ SameBut(g, h, {"small", "tree"})
        /\ g.dv = h.dv /\ g.dvsize = h.dvsize
    BY <1>1, <2>1 DEF IsHeap, SameBut, HeapFields
  <2> HIDE DEF g
  <2>3. Binned_(h.small, tree) = Binned_(h.small, h.tree) \ {a}
    <3>1. \A m \in SmallSizes : a \notin Range(h.small[m])
      BY <1>a, <1>c, <1>5, <1>3 DEF C
    <3> QED
      BY <3>1, BinnedHas
  <2>5. Placed(C, h.small, tree, h.dv, h.top, U \cup {a})
    <3>1. Idle_(C) = {h.top} \cup Binned_(h.small, tree) \cup ({h.dv} \ {0}) \cup (U \cup {a})
      BY <1>1, <2>3 DEF Placed
    <3>2. /\ h.top # h.dv /\ {h.top, h.dv} \cap (Binned_(h.small, tree) \cup (U \cup {a})) = {}
          /\ (U \cup {a}) \cap Binned_(h.small, tree) = {}
      BY <1>1, <1>2, <2>3 DEF Placed
    <3> QED
      BY <1>1, <3>1, <3>2 DEF Placed
  <2>10. SameBut(g, h, {"small", "tree", "dv", "dvsize"})
    BY <2>2 DEF SameBut
  <2>11. Frame(g, L) /\ IsHeap(g) /\ g.chunk = h.chunk /\ g.top = h.top
    BY <1>1, <2>10, FrameKept
  <2>12. Sound(g, L, U \cup {a})
    BY <1>1, <2>2, <2>5, <2>11, FrameOfSound DEF C
  <2> QED
    BY <2>2, <2>12 DEF g
<1> QED
  BY <1>4, <1>5

\* Without the designated victim; with another one.
NoVictim(h) == [h EXCEPT !.dv = 0, !.dvsize = 0]
Victim(h, a, n) == [h EXCEPT !.dv = a, !.dvsize = n]

\* The victim put aside is loose.
LEMMA VictimOut ==
  ASSUME NEW h, NEW L, NEW U, Sound(h, L, U), h.dv # 0
  PROVE  /\ Sound(NoVictim(h), L, U \cup {h.dv}) /\ SameBut(NoVictim(h), h, {"dv", "dvsize"})
         /\ h.dv \in Idle_(h.chunk) /\ h.dv # h.top /\ h.dvsize = h.chunk[h.dv].size
<1> DEFINE g == NoVictim(h)
<1>1. /\ Frame(h, L) /\ IsHeap(h) /\ Placed(h.chunk, h.small, h.tree, h.dv, h.top, U)
      /\ h.dv \in Nat /\ h.dvsize = h.chunk[h.dv].size
  BY FrameOfSound
<1>2. /\ SameBut(g, h, {"dv", "dvsize"}) /\ SameBut(g, h, {"small", "tree", "dv", "dvsize"})
      /\ g.dv = 0 /\ g.dvsize = 0 /\ g.small = h.small /\ g.tree = h.tree
  BY <1>1 DEF NoVictim, IsHeap, SameBut, HeapFields
<1>3. Frame(g, L) /\ IsHeap(g) /\ g.chunk = h.chunk /\ g.top = h.top
  BY <1>1, <1>2, FrameKept
<1>4. 0 \notin Idle_(h.chunk)
  BY <1>1 DEF Frame, Shape, Heads, Idle_
<1>5. Placed(h.chunk, h.small, h.tree, 0, h.top, U \cup {h.dv})
  BY <1>1, <1>4 DEF Placed
<1>6. Sound(g, L, U \cup {h.dv})
  BY <1>2, <1>3, <1>5, FrameOfSound
<1>7. h.dv \in Idle_(h.chunk) /\ h.dv # h.top
  BY <1>1 DEF Placed
<1> QED
  BY <1>1, <1>2, <1>6, <1>7

\* A loose chunk becomes the victim.
LEMMA VictimIn ==
  ASSUME NEW h, NEW L, NEW U, Sound(h, L, U), h.dv = 0, NEW a \in U,
         NEW n, n = h.chunk[a].size
  PROVE  Sound(Victim(h, a, n), L, U \ {a}) /\ SameBut(Victim(h, a, n), h, {"dv", "dvsize"})
<1> DEFINE g == Victim(h, a, n)
<1>1. Frame(h, L) /\ IsHeap(h) /\ Placed(h.chunk, h.small, h.tree, h.dv, h.top, U)
  BY FrameOfSound
<1>2. /\ SameBut(g, h, {"dv", "dvsize"}) /\ SameBut(g, h, {"small", "tree", "dv", "dvsize"})
      /\ g.dv = a /\ g.dvsize = n /\ g.small = h.small /\ g.tree = h.tree
  BY <1>1 DEF Victim, IsHeap, SameBut, HeapFields
<1>3. Frame(g, L) /\ IsHeap(g) /\ g.chunk = h.chunk /\ g.top = h.top
  BY <1>1, <1>2, FrameKept
<1>4. a \in Idle_(h.chunk) /\ a # h.top
  BY <1>1 DEF Placed
<1>5. a \in Nat /\ a # 0
  BY <1>4, LooseFields
<1>6. Placed(h.chunk, h.small, h.tree, a, h.top, U \ {a})
  BY <1>1, <1>4, <1>5 DEF Placed
<1>7. Sound(g, L, U \ {a})
  BY <1>2, <1>3, <1>5, <1>6, FrameOfSound
<1> QED
  BY <1>2, <1>7

\* A loose chunk takes the place of the victim, which goes into its bin.
LEMMA ReplaceDvSound ==
  ASSUME NEW h, NEW L, NEW U, Sound(h, L, U), NEW a \in U, NEW n, n = h.chunk[a].size
  PROVE  /\ Sound(ReplaceDv(h, a, n), L, U \ {a})
         /\ SameBut(ReplaceDv(h, a, n), h, {"small", "tree", "dv", "dvsize"})
<1>1. /\ Frame(h, L) /\ IsHeap(h) /\ Placed(h.chunk, h.small, h.tree, h.dv, h.top, U)
      /\ h.dv \in Nat /\ h.dvsize = IF h.dv = 0 THEN 0 ELSE h.chunk[h.dv].size
  BY FrameOfSound
<1>2. CASE h.dvsize = 0
  <2>1. h.dv = 0
    <3> SUFFICES ASSUME h.dv # 0 PROVE FALSE
      OBVIOUS
    <3>1. h.dv \in Idle_(h.chunk) /\ h.dv # h.top
      BY <1>1 DEF Placed
    <3> QED
      BY <1>1, <1>2, <3>1, LooseFields, Numbers
  <2>2. ReplaceDv(h, a, n) = Victim(h, a, n)
    BY <1>2 DEF ReplaceDv, Victim
  <2> QED
    BY <2>1, <2>2, VictimIn DEF SameBut
<1>3. CASE h.dvsize # 0
  <2> DEFINE k == Bin(NoVictim(h), h.dv, h.dvsize)
             g == Bin(h, h.dv, h.dvsize)
  <2>1. h.dv # 0
    BY <1>1, <1>3
  <2>2. /\ Sound(NoVictim(h), L, U \cup {h.dv}) /\ SameBut(NoVictim(h), h, {"dv", "dvsize"})
        /\ h.dvsize = h.chunk[h.dv].size /\ NoVictim(h).chunk = h.chunk
        /\ h.dv \notin U
    BY <1>1, <2>1, VictimOut DEF SameBut, HeapFields, Placed
  <2>3. Sound(k, L, (U \cup {h.dv}) \ {h.dv}) /\ SameBut(k, NoVictim(h), {"small", "tree"})
    BY <2>2, BinSound
  <2>4. (U \cup {h.dv}) \ {h.dv} = U /\ k.dv = 0 /\ k.chunk = h.chunk
    BY <1>1, <2>2, <2>3, ZenonT(30) DEF SameBut, HeapFields, NoVictim, IsHeap
  <2>5. Sound(Victim(k, a, n), L, U \ {a}) /\ SameBut(Victim(k, a, n), k, {"dv", "dvsize"})
    BY <2>3, <2>4, VictimIn
  <2>6. Victim(k, a, n) = [g EXCEPT !.dv = a, !.dvsize = n]
    <3>1. h = [f \in HeapFields |-> h[f]]
      BY <1>1 DEF IsHeap
    <3>2. CASE h.dvsize < SmallLimit
      BY <3>1, <3>2 DEF Victim, NoVictim, Bin, HeapFields
    <3>3. CASE ~(h.dvsize < SmallLimit)
      BY <3>1, <3>3 DEF Victim, NoVictim, Bin, HeapFields
    <3> QED
      BY <3>2, <3>3
  <2>7. ReplaceDv(h, a, n) = Victim(k, a, n)
    BY <1>3, <2>6 DEF ReplaceDv
  <2>8. SameBut(Victim(k, a, n), h, {"small", "tree", "dv", "dvsize"})
    BY <2>2, <2>3, <2>5 DEF SameBut
  <2> QED
    BY <2>5, <2>7, <2>8
<1> QED
  BY <1>2, <1>3

----------------------------------------------------------------------------
(* Spans of one chunk, and of neighbours.                                  *)

\* A loose chunk.
LEMMA LooseSpan ==
  ASSUME NEW h, NEW L, NEW U, Sound(h, L, U), NEW a \in U, NEW e, e = a + h.chunk[a].size
  PROVE  /\ Span(h, a, e, L, U) /\ a \in Idle_(h.chunk) /\ a # h.top /\ a # h.dv
         /\ a \in Nat \ {0} /\ h.chunk[a].size \in Nat \ {0} /\ h.chunk[a].size >= MinChunk
         /\ h.chunk[a].pin /\ ~h.chunk[a].cin /\ h.chunk[e].cin /\ ~h.chunk[e].pin
<1>1. a \in Idle_(h.chunk) /\ a # h.top /\ a # h.dv
  BY DEF Sound, Placed
<1>2. /\ a \in InHeap(h.chunk) /\ a \in DOMAIN h.chunk /\ a \in Nat \ {0}
      /\ ~h.chunk[a].cin /\ h.chunk[a].pin
      /\ h.chunk[a].size \in Nat /\ h.chunk[a].size >= MinChunk
      /\ \E i \in DOMAIN h.segs : Holds(h.segs[i], a) /\ Holds(h.segs[i], e)
      /\ e \in InHeap(h.chunk) /\ h.chunk[e].cin /\ ~h.chunk[e].pin
  BY <1>1, LooseFields
<1>3. h.chunk[a].size > 0 /\ a < e
  BY <1>2, Numbers
<1>4. \A b \in DOMAIN h.chunk : a <= b /\ b < e => b = a
  BY <1>2, ChunkFields DEF Sound, Shape, Apart
<1>5. Span(h, a, e, L, U)
  BY <1>2, <1>3, <1>4 DEF Span
<1> QED
  BY <1>1, <1>2, <1>3, <1>5

\* What is in use, and what is a block.
LEMMA BlockUse ==
  ASSUME NEW h, NEW L, NEW U, Sound(h, L, U), NEW a \in L
  PROVE  /\ a \in DOMAIN h.chunk /\ (h.chunk[a].cin \/ ~h.chunk[a].pin)
         /\ a # h.state /\ a \notin Records_(h.segs) /\ a # h.top /\ a # h.dv /\ a \notin U
         /\ a \notin Idle_(h.chunk)
         /\ h.chunk[a].cin \in BOOLEAN /\ h.chunk[a].pin \in BOOLEAN
         /\ IsMapped(h.chunk[a]) <=> ~h.chunk[a].cin
         /\ a \in InHeap(h.chunk) <=> h.chunk[a].cin
<1>1. /\ a \in DOMAIN h.chunk /\ (h.chunk[a].cin \/ ~h.chunk[a].pin)
  BY DEF Sound, Owned
<1>2. /\ a # h.state /\ a \notin Records_(h.segs)
  BY DEF Sound, Owned
<1>3. a \notin Idle_(h.chunk)
  BY <1>1 DEF Idle_
<1>4. a # h.top /\ a \notin U /\ (a = h.dv => h.dv = 0)
  BY <1>3 DEF Sound, Placed
<1>5. a # 0 /\ h.chunk[a].cin \in BOOLEAN /\ h.chunk[a].pin \in BOOLEAN
  <2>1. Heads(h.chunk)
    BY DEF Sound, Shape
  <2> QED
    BY <1>1, <2>1, ChunkFields
<1>6. IsMapped(h.chunk[a]) <=> ~h.chunk[a].cin
  BY <1>1, <1>5 DEF IsMapped
<1>7. a \in InHeap(h.chunk) <=> h.chunk[a].cin
  BY <1>1 DEF InHeap
<1> QED
  BY <1>1, <1>2, <1>3, <1>4, <1>5, <1>6, <1>7

\* A block of a segment.
LEMMA BlockSpan ==
  ASSUME NEW h, NEW L, NEW U, Sound(h, L, U), NEW a \in L, h.chunk[a].cin,
         NEW e, e = a + h.chunk[a].size
  PROVE  /\ Span(h, a, e, L, U) /\ a \in InHeap(h.chunk) /\ a \in DOMAIN h.chunk
         /\ a \in Nat \ {0} /\ h.chunk[a].size \in Nat \ {0} /\ h.chunk[a].size >= MinChunk
         /\ e \in InHeap(h.chunk) /\ e \in DOMAIN h.chunk /\ h.chunk[e].pin
         /\ h.chunk[e].foot = Stamp
         /\ \A b \in DOMAIN h.chunk : a <= b /\ b < e => b = a
<1>1. /\ a \in DOMAIN h.chunk /\ a # h.state /\ a \notin Records_(h.segs) /\ a # h.top
      /\ a \in InHeap(h.chunk)
  BY BlockUse
<1>2. /\ Shape(h.chunk, h.segs, h.top, h.state) /\ Heads(h.chunk) /\ Segments(h.segs)
      /\ Linked(h.chunk, h.segs, h.top, h.state)
  BY DEF Sound, Shape
<1>3. PICK i \in DOMAIN h.segs : Holds(h.segs[i], a)
  BY <1>1, <1>2 DEF Shape
<1>4. a # LastOf(h.segs, i, h.top)
  BY <1>1, <1>2, <1>3, SegmentFields DEF LastOf, Records_
<1>5. /\ h.chunk[a].size >= MinChunk /\ e \in InHeap(h.chunk) /\ Holds(h.segs[i], e)
      /\ Tells(h.chunk, a, e, h.state)
  BY <1>1, <1>2, <1>3, <1>4 DEF Linked
<1>6. e \in DOMAIN h.chunk
  BY <1>5 DEF InHeap
<1>7. h.chunk[e].pin = h.chunk[a].cin /\ h.chunk[e].foot = Stamp
  BY <1>1, <1>5 DEF Tells
<1>8. h.chunk[e].pin
  BY <1>7
<1>9. a \in Nat \ {0} /\ h.chunk[a].size \in Nat \ {0}
  BY <1>1, <1>2, ChunkFields
<1>10. \A b \in DOMAIN h.chunk : a <= b /\ b < e => b = a
  BY <1>1, <1>2, <1>9, ChunkFields DEF Shape, Apart
<1>11. Span(h, a, e, L, U)
  BY <1>1, <1>3, <1>5, <1>9, <1>10 DEF Span
<1> QED
  BY <1>1, <1>5, <1>6, <1>7, <1>8, <1>9, <1>10, <1>11

\* The chunk below one that says it is free.
LEMMA Predecessor ==
  ASSUME NEW h, NEW L, NEW U, Sound(h, L, U), NEW a \in InHeap(h.chunk), ~h.chunk[a].pin,
         NEW b, b = a - h.chunk[a].foot
  PROVE  /\ b \in Idle_(h.chunk) /\ b # h.top /\ b \in DOMAIN h.chunk /\ b \in Nat \ {0} /\ b < a
         /\ h.chunk[b].size = h.chunk[a].foot /\ b + h.chunk[b].size = a
<1>1. /\ Shape(h.chunk, h.segs, h.top, h.state) /\ Heads(h.chunk) /\ Segments(h.segs)
      /\ Linked(h.chunk, h.segs, h.top, h.state) /\ Ends(h.chunk, h.segs, h.top, h.state)
  BY DEF Sound, Shape
<1>2. PICK i \in DOMAIN h.segs : Holds(h.segs[i], a)
  BY <1>1 DEF Shape, InHeap
<1>3. a # h.segs[i].base /\ a <= LastOf(h.segs, i, h.top)
  BY <1>1, <1>2 DEF Shape, Linked
<1>4. PICK k \in InHeap(h.chunk) : k + h.chunk[k].size = a /\ Holds(h.segs[i], k)
  BY <1>1, <1>2, <1>3 DEF Linked
<1>5. k \in DOMAIN h.chunk /\ a \in DOMAIN h.chunk
  BY DEF InHeap
<1>6. /\ k \in Nat /\ h.chunk[k].size \in Nat /\ h.chunk[k].size > 0 /\ a \in Nat /\ k < a /\ k # 0
      /\ h.chunk[k].cin \in BOOLEAN /\ h.chunk[k].pin \in BOOLEAN
  BY <1>1, <1>4, <1>5, ChunkFields
<1>7. LastOf(h.segs, i, h.top) \in Nat
  BY <1>1, SegmentFields, TopIsLast DEF LastOf
<1>8. k # LastOf(h.segs, i, h.top)
  BY <1>3, <1>6, <1>7
<1>9. Tells(h.chunk, k, a, h.state)
  BY <1>1, <1>4, <1>8 DEF Linked
<1>10. h.chunk[a].pin = h.chunk[k].cin
  BY <1>9 DEF Tells
<1>11. ~h.chunk[k].cin
  BY <1>10
<1>12. h.chunk[a].foot = h.chunk[k].size
  BY <1>9, <1>11 DEF Tells
<1>13. k = b
  BY <1>4, <1>6, <1>12
<1>14. k \in Idle_(h.chunk)
  BY <1>4, <1>5, <1>11 DEF Idle_, InHeap
<1>15. k # h.top
  <2> SUFFICES ASSUME k = h.top PROVE FALSE
    OBVIOUS
  <2>1. 1 \in DOMAIN h.segs /\ Holds(h.segs[1], h.top)
    BY <1>1, TopIsLast
  <2>2. i = 1
    BY <1>1, <1>4, <1>6, <2>1, OneSegment
  <2> QED
    BY <1>8, <2>2 DEF LastOf
<1> QED
  BY <1>4, <1>5, <1>6, <1>12, <1>13, <1>14, <1>15

\* Two neighbours are one span.
LEMMA SpanJoin ==
  ASSUME NEW h, NEW L, NEW U, NEW p, NEW q, NEW e, Sound(h, L, U),
         Span(h, p, q, L, U), Span(h, q, e, L, U)
  PROVE  Span(h, p, e, L, U)
<1>1. p \in Nat /\ q \in Nat /\ e \in Nat /\ p < q /\ q < e /\ q \in DOMAIN h.chunk
  BY SpanFields
<1>2. Segments(h.segs) /\ DOMAIN h.chunk \subseteq Nat
  BY DEF Sound, Shape, Heads
<1>3. PICK i \in DOMAIN h.segs : Holds(h.segs[i], p) /\ Holds(h.segs[i], q)
  BY DEF Span
<1>4. PICK j \in DOMAIN h.segs : Holds(h.segs[j], q) /\ Holds(h.segs[j], e)
  BY DEF Span
<1>5. i = j
  BY <1>1, <1>2, <1>3, <1>4, OneSegment
<1>6. \A a \in DOMAIN h.chunk : p <= a /\ a < e => a \in L \cup U
  <2> TAKE a \in DOMAIN h.chunk
  <2>1. CASE a < q
    BY <2>1 DEF Span
  <2>2. CASE q <= a
    BY <2>2 DEF Span
  <2> QED
    BY <1>1, <1>2, <2>1, <2>2
<1> QED
  BY <1>1, <1>3, <1>4, <1>5, <1>6 DEF Span

\* A span stays one when more chunks are loose.
LEMMA SpanLoose ==
  ASSUME NEW h, NEW g, NEW L, NEW U, NEW V, NEW p, NEW e, Span(h, p, e, L, U), U \subseteq V,
         g.chunk = h.chunk, g.segs = h.segs
  PROVE  Span(g, p, e, L, V)
BY DEF Span

----------------------------------------------------------------------------
(* What the operations write. *)

\* What an operation writes depends on the chunks alone.
SameChunks(g, h) == IsHeap(g) /\ IsHeap(h) /\ g.chunk = h.chunk

\* What Put writes depends on the chunks alone.
LEMMA PutSame ==
  ASSUME NEW g, NEW h, SameChunks(g, h), NEW a, NEW n, NEW cin, NEW pin
  PROVE  SameChunks(Put(g, a, n, cin, pin), Put(h, a, n, cin, pin))
BY DEF SameChunks, Put, IsHeap, HeapFields

\* So does what SetPin writes.
LEMMA SetPinSame ==
  ASSUME NEW g, NEW h, SameChunks(g, h), NEW a, NEW v
  PROVE  SameChunks(SetPin(g, a, v), SetPin(h, a, v))
BY DEF SameChunks, SetPin, IsHeap, HeapFields

\* So does what SetFoot writes.
LEMMA SetFootSame ==
  ASSUME NEW g, NEW h, SameChunks(g, h), NEW a, NEW v
  PROVE  SameChunks(SetFoot(g, a, v), SetFoot(h, a, v))
BY DEF SameChunks, SetFoot, IsHeap, HeapFields

\* So does what the other writers of heads and feet write.
LEMMA WritesSame ==
  ASSUME NEW g, NEW h, SameChunks(g, h), NEW a, NEW n
  PROVE  /\ SameChunks(SetInUse(g, a, n), SetInUse(h, a, n))
         /\ SameChunks(SetInUseWhole(g, a, n), SetInUseWhole(h, a, n))
         /\ SameChunks(SetInUsePart(g, a, n), SetInUsePart(h, a, n))
         /\ SameChunks(SetFree(g, a, n), SetFree(h, a, n))
         /\ \A e : SameChunks(SetFreeBefore(g, a, n, e), SetFreeBefore(h, a, n, e))
<1>1. g.chunk = h.chunk
  BY DEF SameChunks
<1>2. SameChunks(SetInUse(g, a, n), SetInUse(h, a, n))
  BY <1>1, PutSame, SetPinSame, SetFootSame DEF SetInUse
<1>3. SameChunks(SetInUseWhole(g, a, n), SetInUseWhole(h, a, n))
  BY PutSame, SetPinSame, SetFootSame DEF SetInUseWhole
<1>4. SameChunks(SetInUsePart(g, a, n), SetInUsePart(h, a, n))
  BY PutSame, SetFootSame DEF SetInUsePart
<1>5. SameChunks(SetFree(g, a, n), SetFree(h, a, n))
  BY PutSame, SetFootSame DEF SetFree
<1>6. ASSUME NEW e PROVE SameChunks(SetFreeBefore(g, a, n, e), SetFreeBefore(h, a, n, e))
  <2>1. SameChunks(SetPin(g, e, FALSE), SetPin(h, e, FALSE))
    BY SetPinSame
  <2> QED
    BY <2>1, PutSame, SetFootSame DEF SetFreeBefore, SetFree
<1> QED
  BY <1>2, <1>3, <1>4, <1>5, <1>6

\* The blocks that an operation leaves as they are.
Spares(h, g, B) ==
  \A a \in B : a \in DOMAIN g.chunk /\ g.chunk[a].size = h.chunk[a].size
                                    /\ g.chunk[a].cin = h.chunk[a].cin
\* What two steps spare, both spare.
LEMMA SparesChain ==
  ASSUME NEW h, NEW g, NEW k, NEW B, Spares(h, g, B), Spares(g, k, B)
  PROVE  Spares(h, k, B)
BY DEF Spares

\* Where no chunk changes, all blocks are spared.
LEMMA SparesSame ==
  ASSUME NEW h, NEW g, NEW B, B \subseteq DOMAIN h.chunk, g.chunk = h.chunk
  PROVE  Spares(h, g, B)
BY DEF Spares

\* Writing a head spares what lies outside the chunk.
LEMMA SparesOutside ==
  ASSUME NEW h, NEW g, NEW B, B \subseteq DOMAIN h.chunk, NEW p \in Nat, NEW n \in Nat,
         DOMAIN h.chunk \subseteq Nat, Overwrites(h.chunk, g.chunk, p, n), n > 0,
         \A a \in B : a < p \/ a >= p + n
  PROVE  Spares(h, g, B)
<1> SUFFICES ASSUME NEW a \in B
             PROVE  a \in DOMAIN g.chunk /\ g.chunk[a].size = h.chunk[a].size
                                         /\ g.chunk[a].cin = h.chunk[a].cin
  BY DEF Spares
<1>1. a \in DOMAIN h.chunk /\ a \in Nat /\ (a < p \/ a >= p + n) /\ a # p
  OBVIOUS
<1>2. a \in DOMAIN g.chunk
  BY <1>1 DEF Overwrites
<1>3. CASE a = p + n
  BY <1>1, <1>2, <1>3 DEF Overwrites
<1>4. CASE a # p + n
  BY <1>1, <1>2, <1>4 DEF Overwrites
<1> QED
  BY <1>2, <1>3, <1>4

(* The chunks before the end of the top. *)
\* The top as a place where spans end.
LEMMA TopFields ==
  ASSUME NEW h, NEW L, NEW U, Sound(h, L, U), NEW E, E = h.top + h.topsize
  PROVE  /\ h.top \in Nat \ {0} /\ h.top \in InHeap(h.chunk) /\ h.top \in DOMAIN h.chunk
         /\ h.topsize = h.chunk[h.top].size /\ h.topsize \in Nat \ {0} /\ E \in Nat
         /\ ~h.chunk[h.top].cin /\ h.chunk[h.top].pin /\ h.top \in Idle_(h.chunk)
         /\ 1 \in DOMAIN h.segs /\ Holds(h.segs[1], h.top)
         /\ E = End(h.segs[1]) - TopFoot /\ End(h.segs[1]) \in Nat /\ E < End(h.segs[1])
         /\ \A a \in DOMAIN h.chunk : a <= h.top \/ a >= End(h.segs[1])
         /\ h.top \notin L /\ h.top \notin U
<1>1. /\ Shape(h.chunk, h.segs, h.top, h.state) /\ Heads(h.chunk) /\ Segments(h.segs)
      /\ Ends(h.chunk, h.segs, h.top, h.state)
      /\ h.topsize = h.chunk[h.top].size
  BY DEF Sound, Shape, Sizes
<1>2. /\ 1 \in DOMAIN h.segs /\ Holds(h.segs[1], h.top) /\ h.top \in DOMAIN h.chunk
      /\ h.top + h.chunk[h.top].size = End(h.segs[1]) - TopFoot
      /\ \A a \in DOMAIN h.chunk : a <= h.top \/ a >= End(h.segs[1])
  BY <1>1, TopIsLast
<1>3. h.top \in Nat \ {0} /\ h.topsize \in Nat \ {0}
  BY <1>1, <1>2, ChunkFields
<1>4. End(h.segs[1]) \in Nat
  BY <1>1, <1>2, SegmentFields
<1>5. h.top \in InHeap(h.chunk) /\ ~h.chunk[h.top].cin /\ h.chunk[h.top].pin
  BY <1>1 DEF Ends, InHeap
<1>6. h.top \in Idle_(h.chunk)
  BY <1>2, <1>5 DEF Idle_
<1>7. h.top \notin L /\ h.top \notin U
  <2>1. h.top \notin L
    BY BlockUse
  <2>2. h.top \notin U
    BY LooseSpan
  <2> QED
    BY <2>1, <2>2
<1> QED
  BY <1>1, <1>2, <1>3, <1>4, <1>5, <1>6, <1>7, Numbers

\* Everything from p on becomes the top.
LEMMA TopAlone ==
  ASSUME NEW h, NEW g, NEW L, NEW U, Sound(h, L, U), SameBut(g, h, {"chunk", "top", "topsize"}),
         NEW p \in InHeap(h.chunk), Holds(h.segs[1], p), p <= h.top,
         \A a \in DOMAIN h.chunk : p <= a /\ a < h.top => a \in L \cup U,
         NEW E, E = h.top + h.topsize,
         Heads(g.chunk), Overwrites(h.chunk, g.chunk, p, E - p), g.top = p, g.topsize = E - p,
         h.chunk[p].pin, g.chunk[p].pin, ~g.chunk[p].cin
  PROVE  Sound(g, L \ (p .. E - 1), U \ (p .. E - 1))
<1> DEFINE C == h.chunk
           D == g.chunk
<1>1. /\ h.top \in Nat /\ E \in Nat /\ E = End(h.segs[1]) - TopFoot /\ End(h.segs[1]) \in Nat
      /\ E < End(h.segs[1]) /\ h.top < E /\ h.top \in DOMAIN C /\ h.top \notin L /\ h.top \notin U
      /\ \A a \in DOMAIN C : a <= h.top \/ a >= End(h.segs[1])
  BY TopFields
<1>2. p \in DOMAIN C /\ DOMAIN C \subseteq Nat \ {0} /\ Heads(C)
  BY DEF InHeap, Sound, Shape, Heads
<1>3. p \in Nat /\ p < E /\ E - p \in Nat /\ p + (E - p) = E
  BY <1>1, <1>2
<1>4. /\ DOMAIN D = {b \in DOMAIN C : b < p \/ b >= E} \cup {p}
      /\ \A b \in DOMAIN D : b # p /\ b # E => D[b] = C[b]
      /\ D[p].size = E - p /\ D[p].foot = C[p].foot /\ E \notin DOMAIN C
  BY <1>1, <1>2, <1>3 DEF Overwrites
<1>5. D[p].pin = C[p].pin
  BY <1>2, <1>4, ChunkFields
<1> HIDE DEF C, D
<1>6. Between(C, D, p, E)
  BY <1>1, <1>2, <1>3, <1>4, <1>5 DEF Between
<1>7. \A a \in DOMAIN C : p <= a /\ a < End(h.segs[1]) => a \in L \cup U \cup {h.top}
  BY <1>1, <1>2, <1>3 DEF C
<1>8. \A a \in DOMAIN D : a <= p \/ a >= E
  BY <1>2, <1>3, <1>4
<1>9. /\ p \in DOMAIN D /\ g.top = p /\ g.topsize = D[p].size /\ D[p].pin /\ ~D[p].cin
      /\ p + D[p].size = E
  BY <1>3, <1>4 DEF D
<1>10. Sound(g, UsedOf(D, L, p, E), LooseOf(D, U, p, E, p))
  BY <1>1, <1>6, <1>7, <1>8, <1>9, SoundSpliceTop DEF C, D
<1>11. L \subseteq DOMAIN C /\ U \subseteq DOMAIN C
  BY BlockUse, LooseSpan DEF C, Idle_
<1>12. /\ DOMAIN D \subseteq Nat /\ p \in Nat /\ E \in Nat
       /\ \A a \in DOMAIN D : p <= a /\ a < E => a = p
  BY <1>1, <1>3, <1>8 DEF D, Heads
<1>13. \A a \in DOMAIN C : a \in p .. E - 1 <=> ~(a < p \/ a >= E)
  BY <1>2, <1>12
<1>14. UsedOf(D, L, p, E) = L \ (p .. E - 1)
  BY <1>9, <1>11, <1>12, <1>13 DEF UsedOf
<1>15. LooseOf(D, U, p, E, p) = U \ (p .. E - 1)
  BY <1>9, <1>11, <1>12, <1>13 DEF LooseOf
<1> QED
  BY <1>10, <1>14, <1>15

\* From p on there is a chunk in use, and the top behind it at q.
LEMMA TopBehind ==
  ASSUME NEW h, NEW g, NEW L, NEW U, Sound(h, L, U), SameBut(g, h, {"chunk", "top", "topsize"}),
         NEW p \in InHeap(h.chunk), Holds(h.segs[1], p), p <= h.top,
         \A a \in DOMAIN h.chunk : p <= a /\ a < h.top => a \in L \cup U,
         NEW E, E = h.top + h.topsize, NEW q \in Nat, p + MinChunk <= q, q < E,
         Heads(g.chunk), g.top = q, g.topsize = E - q,
         DOMAIN g.chunk = {b \in DOMAIN h.chunk : b < p \/ b >= E} \cup {p, q},
         \A b \in DOMAIN g.chunk : b # p /\ b # q => g.chunk[b] = h.chunk[b],
         g.chunk[p].size = q - p, g.chunk[p].foot = h.chunk[p].foot, g.chunk[p].pin = h.chunk[p].pin,
         g.chunk[p].cin, g.chunk[q].size = E - q, g.chunk[q].pin, ~g.chunk[q].cin,
         g.chunk[q].foot = Stamp
  PROVE  Sound(g, (L \ (p .. E - 1)) \cup {p}, U \ (p .. E - 1))
<1> DEFINE C == h.chunk
           D == g.chunk
<1>1. /\ h.top \in Nat /\ E \in Nat /\ E = End(h.segs[1]) - TopFoot /\ End(h.segs[1]) \in Nat
      /\ E < End(h.segs[1]) /\ h.top < E /\ h.top \in DOMAIN C /\ h.top \notin L /\ h.top \notin U
      /\ \A a \in DOMAIN C : a <= h.top \/ a >= End(h.segs[1])
  BY TopFields
<1>2. p \in DOMAIN C /\ DOMAIN C \subseteq Nat \ {0} /\ Heads(C)
  BY DEF InHeap, Sound, Shape, Heads
<1>3. /\ p \in Nat /\ p < q /\ q < E /\ p \in DOMAIN D /\ q \in DOMAIN D /\ p + D[p].size = q
      /\ q + D[q].size = E /\ D[p].size >= MinChunk
  BY <1>1, <1>2, Numbers
<1>4. p \in InHeap(D) /\ q \in InHeap(D)
  BY <1>3 DEF InHeap
<1>5. D[p].cin \in BOOLEAN /\ D[q].pin \in BOOLEAN /\ D[q].cin \in BOOLEAN
  BY <1>3, ChunkFields
<1>6. D[q].pin = D[p].cin
  BY <1>5
<1>7. Tells(D, p, q, 0)
  BY <1>6 DEF Tells
<1> HIDE DEF C, D
<1>8. \A a \in DOMAIN D : a <= q \/ a >= E
  BY <1>1, <1>2, <1>3 DEF C, D
<1>9. \A a \in DOMAIN D : p <= a /\ a < q => a = p
  BY <1>1, <1>2, <1>3 DEF C, D
<1>10. Chained(D, p, q)
  <2>1. ASSUME NEW a \in DOMAIN D, p <= a, a < q
        PROVE  /\ a \in InHeap(D) /\ D[a].size >= MinChunk
               /\ a + D[a].size \in DOMAIN D /\ a + D[a].size <= q
               /\ Tells(D, a, a + D[a].size, 0)
               /\ a # p => \E b \in DOMAIN D : p <= b /\ b + D[b].size = a
    BY <1>3, <1>4, <1>7, <1>9, <2>1
  <2>2. \A a, b \in DOMAIN D : p <= a /\ a < b /\ b < q => a + D[a].size <= b
    <3>1. DOMAIN D \subseteq Nat
      BY DEF D, Heads
    <3> QED
      BY <1>3, <1>9, <3>1
  <2>3. \E b \in DOMAIN D : p <= b /\ b < q /\ b + D[b].size = q
    BY <1>3
  <2> QED
    BY <2>1, <2>2, <2>3 DEF Chained
<1>11. Between(C, D, p, E)
  BY <1>1, <1>2, <1>3 DEF Between, C, D
<1>12. \A a \in DOMAIN C : p <= a /\ a < End(h.segs[1]) => a \in L \cup U \cup {h.top}
  BY <1>1, <1>2, <1>3 DEF C
<1>13. /\ q \in DOMAIN D /\ g.top = q /\ g.topsize = D[q].size /\ D[q].pin /\ ~D[q].cin
  BY <1>3 DEF D
<1>14. Sound(g, UsedOf(D, L, p, E), LooseOf(D, U, p, E, q))
  BY <1>1, <1>3, <1>8, <1>10, <1>11, <1>12, <1>13, SoundSpliceTop DEF C, D
<1>15. L \subseteq DOMAIN C /\ U \subseteq DOMAIN C
  BY BlockUse, LooseSpan DEF C, Idle_
<1>16. \A a \in DOMAIN D : p <= a /\ a < E => a \in {p, q}
  BY <1>1, <1>2, <1>3 DEF C, D
<1>17. UsedOf(D, L, p, E) = (L \ (p .. E - 1)) \cup {p}
  <2>1. D[p].cin
    BY DEF D
  <2> QED
    BY <1>1, <1>2, <1>3, <1>13, <1>15, <1>16, <2>1 DEF UsedOf
<1>18. LooseOf(D, U, p, E, q) = U \ (p .. E - 1)
  <2>1. D[p].cin
    BY DEF D
  <2> QED
    BY <1>1, <1>2, <1>3, <1>13, <1>15, <1>16, <2>1 DEF LooseOf
<1> QED
  BY <1>14, <1>17, <1>18

\* Nothing but the top lies between it and the end of its segment.
LEMMA TopClear ==
  ASSUME NEW h, NEW L, NEW U, Sound(h, L, U), NEW p \in Nat, p <= h.top,
         NEW E, E = h.top + h.topsize, NEW B, B \subseteq L \cup U
  PROVE  B \ (p .. E - 1) = B \ (p .. h.top - 1)
<1>1. /\ h.top \in Nat /\ E \in Nat /\ h.top < E /\ E < End(h.segs[1]) /\ End(h.segs[1]) \in Nat
      /\ h.top \notin L /\ h.top \notin U
      /\ \A a \in DOMAIN h.chunk : a <= h.top \/ a >= End(h.segs[1])
  BY TopFields
<1>2. L \subseteq DOMAIN h.chunk /\ U \subseteq DOMAIN h.chunk
  BY BlockUse, LooseSpan DEF Idle_
<1>3. DOMAIN h.chunk \subseteq Nat
  BY DEF Sound, Shape, Heads
<1>4. \A b \in B : b \in Nat /\ (b < h.top \/ b >= E)
  BY <1>1, <1>2, <1>3
<1>5. \A b \in B : b \in p .. E - 1 <=> b \in p .. h.top - 1
  BY <1>1, <1>4
<1> QED
  BY <1>5

\* The chunks below the top become part of it.
LEMMA MergeTopSound ==
  ASSUME NEW h, NEW L, NEW U, Sound(h, L, U), NEW p, Span(h, p, h.top, L, U),
         NEW n, n = h.top - p, h.chunk[p].pin,
         NEW g, g = MergeTop(h, p, n)
  PROVE  /\ Sound(g, L \ (p .. h.top - 1), U \ (p .. h.top - 1))
         /\ Overwrites(h.chunk, g.chunk, p, h.topsize + n)
         /\ SameBut(g, h, {"chunk", "top", "topsize"})
<1> DEFINE E == h.top + h.topsize
           K == Put(h, p, h.topsize + n, FALSE, TRUE)
<1>1. /\ p \in Nat \ {0} /\ p \in DOMAIN h.chunk /\ p < h.top /\ Heads(h.chunk) /\ IsHeap(h)
      /\ n \in Nat \ {0} /\ p + n = h.top
  BY SpanFields
<1>2. /\ h.top \in Nat \ {0} /\ h.topsize \in Nat \ {0} /\ 1 \in DOMAIN h.segs
      /\ Holds(h.segs[1], h.top) /\ E \in Nat
  BY TopFields
<1>3. E - p = h.topsize + n /\ h.topsize + n \in Nat \ {0} /\ p <= h.top
  BY <1>1, <1>2
<1>4. /\ SameBut(K, h, {"chunk"}) /\ IsHeap(K) /\ Heads(K.chunk)
      /\ Overwrites(h.chunk, K.chunk, p, h.topsize + n) /\ ~K.chunk[p].cin /\ K.chunk[p].pin
  BY <1>1, <1>3, PutOf
<1>5. h.dv # p
  <2>1. p \in L \cup U
    BY <1>1, <1>2 DEF Span
  <2> QED
    BY <2>1, BlockUse, LooseSpan
<1>6. /\ g.chunk = K.chunk /\ g.top = p /\ g.topsize = h.topsize + n
      /\ SameBut(g, h, {"chunk", "top", "topsize"})
  BY <1>4, <1>5 DEF MergeTop, SameBut, IsHeap, HeapFields
<1>7. p \in InHeap(h.chunk) /\ Holds(h.segs[1], p)
  <2>1. PICK i \in DOMAIN h.segs : Holds(h.segs[i], p) /\ Holds(h.segs[i], h.top)
    BY DEF Span
  <2>2. i = 1
    BY <1>2, <2>1, OneSegment DEF Sound, Shape
  <2> QED
    BY <2>1, <2>2 DEF Span
<1>8. \A a \in DOMAIN h.chunk : p <= a /\ a < h.top => a \in L \cup U
  BY DEF Span
<1>9. Sound(g, L \ (p .. E - 1), U \ (p .. E - 1))
  <2> HIDE DEF K
  <2>1. Overwrites(h.chunk, g.chunk, p, E - p) /\ g.topsize = E - p /\ Heads(g.chunk)
        /\ g.chunk[p].pin /\ ~g.chunk[p].cin
    BY <1>3, <1>4, <1>6
  <2> QED
    BY <1>3, <1>6, <1>7, <1>8, <2>1, TopAlone
<1>10. L \ (p .. E - 1) = L \ (p .. h.top - 1) /\ U \ (p .. E - 1) = U \ (p .. h.top - 1)
  BY <1>1, <1>3, TopClear
<1> QED
  BY <1>4, <1>6, <1>9, <1>10

\* A block from the front of the top.
LEMMA FromTopSound ==
  ASSUME NEW h, NEW L, NEW U, Sound(h, L, U), NEW n, n \in Nat, n >= MinChunk, n < h.topsize,
         NEW g, g = FromTop(h, n).heap
  PROVE  /\ Sound(g, L \cup {h.top}, U) /\ FromTop(h, n).at = h.top /\ g.chunk[h.top].size >= n
         /\ g.chunk[h.top].cin /\ g.chunk[h.top].pin
         /\ Spares(h, g, L) /\ SameBut(g, h, {"chunk", "top", "topsize"})
<1> DEFINE p == h.top
           rest == h.topsize - n
           E == h.top + h.topsize
           K == Put(h, p + n, rest, FALSE, TRUE)
           H == [K EXCEPT !.top = p + n, !.topsize = rest]
<1>1. /\ p \in Nat \ {0} /\ h.topsize \in Nat \ {0} /\ 1 \in DOMAIN h.segs
      /\ Holds(h.segs[1], p) /\ E \in Nat /\ p \in InHeap(h.chunk) /\ p \in DOMAIN h.chunk
      /\ h.topsize = h.chunk[p].size /\ h.chunk[p].pin
      /\ E < End(h.segs[1]) /\ End(h.segs[1]) \in Nat /\ p \notin L /\ p \notin U
      /\ \A a \in DOMAIN h.chunk : a <= p \/ a >= End(h.segs[1])
  BY TopFields
<1>2. Heads(h.chunk) /\ IsHeap(h) /\ DOMAIN h.chunk \subseteq Nat \ {0}
  BY DEF Sound, Shape, Heads
<1>3. /\ n \in Nat \ {0} /\ rest \in Nat \ {0} /\ p + n \in Nat \ {0} /\ p + n + rest = E
      /\ p < p + n /\ p + n < E /\ p + MinChunk <= p + n
  BY <1>1, Numbers
<1>4. /\ SameBut(K, h, {"chunk"}) /\ IsHeap(K) /\ Heads(K.chunk)
      /\ Overwrites(h.chunk, K.chunk, p + n, rest) /\ ~K.chunk[p + n].cin /\ K.chunk[p + n].pin
  <2> HIDE DEF p, rest
  <2> QED
    BY <1>2, <1>3, PutOf
<1>5. /\ H.chunk = K.chunk /\ H.top = p + n /\ H.topsize = rest /\ IsHeap(H)
      /\ SameBut(H, h, {"chunk", "top", "topsize"})
  BY <1>4 DEF SameBut, IsHeap, HeapFields
<1>6. g = SetInUsePart(H, p, n) /\ FromTop(h, n).at = p
  BY DEF FromTop, Outcome
<1> HIDE DEF H, K, p, rest, E
<1>7. /\ SameBut(g, H, {"chunk"}) /\ Heads(g.chunk)
      /\ Overwrites(K.chunk, g.chunk, p, n) /\ g.chunk[p].cin /\ g.chunk[p].pin
      /\ p + n \in DOMAIN K.chunk => g.chunk[p + n].pin = K.chunk[p + n].pin /\ g.chunk[p + n].foot = Stamp
  <2> DEFINE e == p + n
             D == SetInUsePart(H, p, n).chunk
  <2>1. e = p + n /\ D = SetInUsePart(H, p, n).chunk
    OBVIOUS
  <2> HIDE DEF e, D
  <2>2. /\ SameBut(SetInUsePart(H, p, n), H, {"chunk"}) /\ Heads(D)
        /\ Overwrites(H.chunk, D, p, n) /\ D[p].cin /\ D[p].pin
        /\ e \in DOMAIN H.chunk => D[e].pin = H.chunk[e].pin /\ D[e].foot = Stamp
    BY <1>1, <1>3, <1>4, <1>5, <2>1, UsePartOf
  <2> QED
    BY <1>5, <1>6, <2>1, <2>2
<1>8. /\ SameBut(g, h, {"chunk", "top", "topsize"}) /\ g.top = p + n /\ g.topsize = rest
  BY <1>5, <1>7 DEF SameBut, HeapFields
<1>9. /\ DOMAIN K.chunk = {b \in DOMAIN h.chunk : b < p + n \/ b >= E} \cup {p + n}
      /\ \A b \in DOMAIN K.chunk : b # p + n => K.chunk[b] = h.chunk[b]
      /\ K.chunk[p + n].size = rest /\ p + n \notin DOMAIN h.chunk
  BY <1>1, <1>2, <1>3, <1>4 DEF Overwrites
<1>10. /\ DOMAIN g.chunk = {b \in DOMAIN h.chunk : b < p \/ b >= E} \cup {p, p + n}
       /\ \A b \in DOMAIN g.chunk : b # p /\ b # p + n => g.chunk[b] = h.chunk[b]
       /\ g.chunk[p].size = n /\ g.chunk[p].foot = h.chunk[p].foot
       /\ g.chunk[p + n].size = rest /\ g.chunk[p + n].foot = Stamp
       /\ g.chunk[p + n].pin /\ ~g.chunk[p + n].cin
  <2>1. /\ DOMAIN g.chunk = {b \in DOMAIN K.chunk : b < p \/ b >= p + n} \cup {p}
        /\ \A b \in DOMAIN g.chunk : b # p /\ b # p + n => g.chunk[b] = K.chunk[b]
        /\ g.chunk[p].size = n /\ p \in DOMAIN K.chunk /\ g.chunk[p].foot = K.chunk[p].foot
        /\ p + n \in DOMAIN K.chunk
        /\ g.chunk[p + n].size = K.chunk[p + n].size /\ g.chunk[p + n].cin = K.chunk[p + n].cin
    BY <1>1, <1>3, <1>7, <1>9 DEF Overwrites
  <2>2. /\ DOMAIN g.chunk = {b \in DOMAIN h.chunk : b < p \/ b >= E} \cup {p, p + n}
    BY <1>1, <1>2, <1>3, <1>9, <2>1
  <2>3. \A b \in DOMAIN g.chunk : b # p /\ b # p + n => g.chunk[b] = h.chunk[b]
    BY <1>9, <2>1
  <2>4. g.chunk[p].size = n /\ g.chunk[p].foot = h.chunk[p].foot
        /\ g.chunk[p + n].size = rest /\ ~g.chunk[p + n].cin
    BY <1>3, <1>4, <1>9, <2>1
  <2>5. g.chunk[p + n].pin /\ g.chunk[p + n].foot = Stamp
    BY <1>4, <1>7, <2>1
  <2> QED
    BY <2>2, <2>3, <2>4, <2>5
<1>11. g.chunk[p].pin = h.chunk[p].pin
  BY <1>1, <1>2, <1>7, <1>10, ChunkFields
<1>12. Sound(g, (L \ (p .. E - 1)) \cup {p}, U \ (p .. E - 1))
  <2>1. \A a \in DOMAIN h.chunk : p <= a /\ a < h.top => a \in L \cup U
    BY <1>1, <1>2 DEF p
  <2>2. /\ p <= h.top /\ E = h.top + h.topsize /\ rest = E - (p + n) /\ n = (p + n) - p
    BY <1>1, <1>3 DEF p, E, rest
  <2>3. p + n \in Nat /\ p + MinChunk <= p + n /\ p + n < E
    BY <1>3
  <2> DEFINE q == p + n
  <2> HIDE DEF q
  <2>4. /\ DOMAIN g.chunk = {b \in DOMAIN h.chunk : b < p \/ b >= E} \cup {p, q}
        /\ \A b \in DOMAIN g.chunk : b # p /\ b # q => g.chunk[b] = h.chunk[b]
        /\ g.chunk[p].size = q - p /\ g.chunk[p].foot = h.chunk[p].foot
        /\ g.chunk[q].size = E - q /\ g.chunk[q].foot = Stamp
        /\ g.chunk[q].pin /\ ~g.chunk[q].cin /\ g.top = q /\ g.topsize = E - q
        /\ q \in Nat /\ p + MinChunk <= q /\ q < E
    BY <1>8, <1>10, <2>2, <2>3 DEF q
  <2>5. /\ p \in InHeap(h.chunk) /\ Holds(h.segs[1], p) /\ p <= h.top /\ Heads(g.chunk)
        /\ g.chunk[p].cin /\ SameBut(g, h, {"chunk", "top", "topsize"})
    BY <1>1, <1>7, <1>8, <2>2
  <2>6. E = h.top + h.topsize
    BY <2>2
  <2> QED
    BY <1>11, <2>1, <2>4, <2>5, <2>6, TopBehind
<1>13. L \ (p .. E - 1) = L /\ U \ (p .. E - 1) = U
  <2>1. L \ (p .. E - 1) = L \ (p .. p - 1) /\ U \ (p .. E - 1) = U \ (p .. p - 1)
    BY <1>1, TopClear DEF p, E
  <2>2. p .. p - 1 = {}
    BY <1>1
  <2> QED
    BY <2>1, <2>2
<1>14. Spares(h, g, L)
  <2>1. L \subseteq DOMAIN h.chunk
    BY BlockUse
  <2>2. \A b \in L : b \in DOMAIN g.chunk /\ b # p /\ b # p + n
    BY <1>1, <1>2, <1>3, <1>9, <1>10, <2>1
  <2> QED
    BY <1>10, <2>2 DEF Spares
<1>15. g.chunk[p].size >= n
  BY <1>10
<1> QED
  BY <1>15, <1>6, <1>7, <1>8, <1>10, <1>12, <1>13, <1>14 DEF p

\* A block grows into the top behind it.
LEMMA GrowIntoTopSound ==
  ASSUME NEW h, NEW L, NEW U, Sound(h, L, U), NEW a \in L, h.chunk[a].cin,
         a + h.chunk[a].size = h.top,
         NEW n \in Nat, h.chunk[a].size < n, n < h.chunk[a].size + h.topsize,
         NEW g, g = GrowIntoTop(h, a, n)
  PROVE  /\ Sound(g, L, U) /\ g.chunk[a].size = n /\ g.chunk[a].cin
         /\ Spares(h, g, L \ {a}) /\ SameBut(g, h, {"chunk", "top", "topsize"})
<1> DEFINE E == h.top + h.topsize
           q == a + n
           rest == h.chunk[a].size + h.topsize - n
           K == SetInUse(h, a, n)
           M == Put(K, q, rest, FALSE, TRUE)
<1>1. /\ h.top \in Nat \ {0} /\ h.topsize \in Nat \ {0} /\ 1 \in DOMAIN h.segs
      /\ Holds(h.segs[1], h.top) /\ E \in Nat /\ h.top \in DOMAIN h.chunk
      /\ E < End(h.segs[1]) /\ End(h.segs[1]) \in Nat /\ h.top \notin L /\ h.top \notin U
      /\ \A b \in DOMAIN h.chunk : b <= h.top \/ b >= End(h.segs[1])
  BY TopFields
<1>2. /\ Heads(h.chunk) /\ IsHeap(h) /\ DOMAIN h.chunk \subseteq Nat \ {0} /\ Segments(h.segs)
      /\ L \subseteq DOMAIN h.chunk
  BY BlockUse DEF Sound, Shape, Heads
<1>3. /\ Span(h, a, h.top, L, U) /\ a \in InHeap(h.chunk) /\ a \in DOMAIN h.chunk
      /\ a \in Nat \ {0} /\ h.chunk[a].size \in Nat \ {0} /\ h.chunk[a].size >= MinChunk
      /\ \A b \in DOMAIN h.chunk : a <= b /\ b < h.top => b = a
  BY BlockSpan
<1>4. /\ n \in Nat \ {0} /\ rest \in Nat \ {0} /\ q \in Nat \ {0} /\ q + rest = E
      /\ a < h.top /\ h.top < q /\ q < E /\ a + MinChunk <= q /\ q = a + n
  BY <1>1, <1>3, Numbers
<1>5. /\ SameBut(K, h, {"chunk"}) /\ IsHeap(K) /\ Heads(K.chunk)
      /\ Overwrites(h.chunk, K.chunk, a, n) /\ K.chunk[a].cin
      /\ (K.chunk[a].pin <=> a \in DOMAIN h.chunk /\ h.chunk[a].pin)
  <2> DEFINE e == a + n
             D == SetInUse(h, a, n).chunk
  <2>1. e = a + n /\ D = SetInUse(h, a, n).chunk
    OBVIOUS
  <2> HIDE DEF e, D
  <2>2. n \in Nat \ {0} /\ a \in Nat \ {0} /\ IsHeap(h) /\ Heads(h.chunk)
    BY <1>2, <1>3, <1>4
  <2>3. /\ SameBut(SetInUse(h, a, n), h, {"chunk"}) /\ IsHeap(SetInUse(h, a, n)) /\ Heads(D)
        /\ Overwrites(h.chunk, D, a, n) /\ D[a].cin /\ (D[a].pin <=> a \in DOMAIN h.chunk /\ h.chunk[a].pin)
    BY <2>1, <2>2, UseOf
  <2> QED
    BY <2>1, <2>3
<1> HIDE DEF K, rest, q, E
<1>6. /\ SameBut(M, K, {"chunk"}) /\ Heads(M.chunk) /\ IsHeap(M)
      /\ Overwrites(K.chunk, M.chunk, q, rest) /\ ~M.chunk[q].cin /\ M.chunk[q].pin
  BY <1>4, <1>5, PutOf
<1>7. g = [M EXCEPT !.top = q, !.topsize = rest]
  BY DEF GrowIntoTop, SizeOf, K, q, rest
<1> HIDE DEF M
<1>8. /\ g.chunk = M.chunk /\ g.top = q /\ g.topsize = rest
      /\ SameBut(g, h, {"chunk", "top", "topsize"})
  BY <1>5, <1>6, <1>7 DEF SameBut, IsHeap, HeapFields
<1>9. /\ DOMAIN K.chunk = {b \in DOMAIN h.chunk : b < a \/ b >= E} \cup {a}
      /\ \A b \in DOMAIN K.chunk : b # a => K.chunk[b] = h.chunk[b]
      /\ K.chunk[a].size = n /\ q \notin DOMAIN h.chunk /\ K.chunk[a].foot = h.chunk[a].foot
  BY <1>1, <1>2, <1>3, <1>4, <1>5 DEF Overwrites
<1>10. /\ DOMAIN g.chunk = {b \in DOMAIN h.chunk : b < a \/ b >= E} \cup {a, q}
       /\ \A b \in DOMAIN g.chunk : b # a /\ b # q => g.chunk[b] = h.chunk[b]
       /\ g.chunk[a] = K.chunk[a] /\ g.chunk[q].size = rest /\ g.chunk[q].foot = Stamp
  <2>1. q \notin DOMAIN K.chunk /\ E \notin DOMAIN K.chunk
    BY <1>1, <1>2, <1>3, <1>4, <1>9
  <2>2. /\ DOMAIN g.chunk = {b \in DOMAIN K.chunk : b < q \/ b >= E} \cup {q}
        /\ \A b \in DOMAIN g.chunk : b # q /\ b # E => g.chunk[b] = K.chunk[b]
        /\ g.chunk[q].size = rest /\ g.chunk[q].foot = Stamp
    BY <1>4, <1>6, <1>8, <2>1 DEF Overwrites
  <2>3. DOMAIN g.chunk = {b \in DOMAIN h.chunk : b < a \/ b >= E} \cup {a, q}
    BY <1>1, <1>2, <1>3, <1>4, <1>9, <2>2
  <2>4. E \notin DOMAIN h.chunk
    BY <1>1, <1>2, <1>4
  <2>5. \A b \in DOMAIN g.chunk : b # q => g.chunk[b] = K.chunk[b]
    BY <1>3, <1>4, <2>2, <2>3, <2>4
  <2> QED
    BY <1>3, <1>4, <1>9, <2>2, <2>3, <2>5
<1>11. g.chunk[a].pin = h.chunk[a].pin /\ g.chunk[a].cin
  <2>1. K.chunk[a].pin \in BOOLEAN /\ h.chunk[a].pin \in BOOLEAN
    BY <1>2, <1>3, <1>5, <1>9, ChunkFields
  <2> QED
    BY <1>3, <1>5, <1>10, <2>1
<1>12. Sound(g, (L \ (a .. E - 1)) \cup {a}, U \ (a .. E - 1))
  <2>1. \A b \in DOMAIN h.chunk : a <= b /\ b < h.top => b \in L \cup U
    BY <1>3
  <2>2. E = h.top + h.topsize /\ a <= h.top
    BY <1>1, <1>3, <1>4 DEF E
  <2>3. Holds(h.segs[1], a)
    <3>1. PICK i \in DOMAIN h.segs : Holds(h.segs[i], a) /\ Holds(h.segs[i], h.top)
      BY <1>3 DEF Span
    <3>2. i = 1
      BY <1>1, <1>2, <3>1, OneSegment
    <3> QED
      BY <3>1, <3>2
  <2>4. /\ a \in InHeap(h.chunk) /\ Heads(g.chunk) /\ q \in Nat /\ a + MinChunk <= q /\ q < E
        /\ g.top = q /\ g.topsize = E - q
    BY <1>1, <1>3, <1>4, <1>6, <1>8
  <2>5. /\ g.chunk[a].size = q - a /\ g.chunk[a].foot = h.chunk[a].foot
        /\ g.chunk[q].size = E - q /\ g.chunk[q].pin /\ ~g.chunk[q].cin
    BY <1>1, <1>3, <1>4, <1>6, <1>8, <1>9, <1>10
  <2> QED
    BY <1>8, <1>10, <1>11, <2>1, <2>2, <2>3, <2>4, <2>5, TopBehind
<1>13. (L \ (a .. E - 1)) \cup {a} = L /\ U \ (a .. E - 1) = U
  <2>1. L \ (a .. E - 1) = L \ (a .. h.top - 1) /\ U \ (a .. E - 1) = U \ (a .. h.top - 1)
    BY <1>3, <1>4, TopClear DEF E
  <2>2. \A b \in L : b \in a .. h.top - 1 => b = a
    BY <1>1, <1>2, <1>3
  <2>3. \A b \in U : b \notin a .. h.top - 1
    <3> TAKE b \in U
    <3>1. b \in DOMAIN h.chunk /\ b # a
      BY LooseSpan, BlockUse DEF Idle_
    <3> QED
      BY <1>1, <1>2, <1>3, <3>1
  <2> QED
    BY <2>1, <2>2, <2>3
<1>14. Spares(h, g, L \ {a})
  <2>1. \A b \in L \ {a} : b \in DOMAIN h.chunk /\ (b < a \/ b >= E)
    BY <1>1, <1>2, <1>3, <1>4
  <2>2. \A b \in L \ {a} : b \in DOMAIN g.chunk /\ b # a /\ b # q
    BY <1>2, <1>3, <1>4, <1>9, <1>10, <2>1
  <2> QED
    BY <1>10, <2>2 DEF Spares
<1> QED
  BY <1>8, <1>9, <1>10, <1>11, <1>12, <1>13, <1>14

\* Writing a chunk spares the others.
LEMMA WriteSpares ==
  ASSUME NEW h, IsHeap(h), Heads(h.chunk), NEW a \in Nat \ {0}, NEW n \in Nat \ {0},
         NEW B, B \subseteq DOMAIN h.chunk, \A b \in B : b < a \/ b >= a + n,
         NEW g,
         \/ g = SetInUse(h, a, n) \/ g = SetInUseWhole(h, a, n) \/ g = SetInUsePart(h, a, n)
         \/ g = SetFree(h, a, n) \/ g = SetFreeBefore(h, a, n, a + n)
  PROVE  /\ Spares(h, g, B) /\ SameBut(g, h, {"chunk"}) /\ IsHeap(g) /\ Heads(g.chunk)
         /\ Overwrites(h.chunk, g.chunk, a, n)
<1> DEFINE e == a + n
<1>1. e = a + n
  OBVIOUS
<1> HIDE DEF e
<1>2. /\ SameBut(g, h, {"chunk"}) /\ IsHeap(g) /\ Heads(g.chunk)
      /\ Overwrites(h.chunk, g.chunk, a, n)
  <2>1. CASE g = SetInUse(h, a, n)
    BY <1>1, <2>1, UseOf
  <2>2. CASE g = SetInUseWhole(h, a, n)
    BY <1>1, <2>2, UseWholeOf
  <2>3. CASE g = SetInUsePart(h, a, n)
    BY <1>1, <2>3, UsePartOf
  <2>4. CASE g = SetFree(h, a, n)
    BY <1>1, <2>4, FreeOf
  <2>5. CASE g = SetFreeBefore(h, a, n, a + n)
    <3>1. g = SetFreeBefore(h, a, n, e)
      BY <1>1, <2>5
    <3> QED
      BY <1>1, <3>1, FreeBeforeOf
  <2> QED
    BY <2>1, <2>2, <2>3, <2>4, <2>5
<1>3. DOMAIN h.chunk \subseteq Nat
  BY DEF Heads
<1>4. Spares(h, g, B)
  BY <1>2, <1>3, SparesOutside
<1> QED
  BY <1>2, <1>4

\* Writing a span over spares the blocks outside it.
LEMMA WriteSparesSpan ==
  ASSUME NEW h, NEW L, NEW U, NEW p, NEW e, Sound(h, L, U), Span(h, p, e, L, U),
         NEW n, n = e - p, NEW g,
         \/ g = SetInUse(h, p, n) \/ g = SetInUseWhole(h, p, n)
         \/ g = SetFree(h, p, n) \/ g = SetFreeBefore(h, p, n, e)
  PROVE  Spares(h, g, L \ (p .. e - 1)) /\ SameBut(g, h, {"chunk"})
<1>1. /\ p \in Nat \ {0} /\ e \in Nat \ {0} /\ p < e /\ n \in Nat \ {0} /\ p + n = e
      /\ Heads(h.chunk) /\ IsHeap(h) /\ L \subseteq DOMAIN h.chunk /\ DOMAIN h.chunk \subseteq Nat
  BY SpanFields
<1>2. \A b \in L \ (p .. e - 1) : b < p \/ b >= p + n
  BY <1>1
<1>3. SetFreeBefore(h, p, n, e) = SetFreeBefore(h, p, n, p + n)
  BY <1>1
<1>4. L \ (p .. e - 1) \subseteq DOMAIN h.chunk
  BY <1>1
<1> QED
  BY <1>1, <1>2, <1>3, <1>4, WriteSpares

\* Two chunks written inside a span, in either order.
LEMMA WritesSpareSpan ==
  ASSUME NEW h, NEW L, NEW U, NEW p, NEW e, Sound(h, L, U), Span(h, p, e, L, U),
         NEW n \in Nat \ {0}, NEW r \in Nat \ {0}, p + n + r = e, NEW g,
         \/ g = SetFree(SetInUsePart(h, p, n), p + n, r)
         \/ g = SetFree(SetInUse(h, p, n), p + n, r)
         \/ g = SetInUsePart(SetFree(h, p + n, r), p, n)
         \/ g = SetInUseWhole(SetInUse(h, p, n), p + n, r)
         \/ g = SetInUse(SetInUse(h, p + n, r), p, n)
  PROVE  /\ Spares(h, g, L \ (p .. e - 1)) /\ SameBut(g, h, {"chunk"}) /\ IsHeap(g) /\ Heads(g.chunk)
<1> DEFINE B == L \ (p .. e - 1)
           q == p + n
<1>1. /\ p \in Nat \ {0} /\ e \in Nat \ {0} /\ p < e
      /\ Heads(h.chunk) /\ IsHeap(h) /\ B \subseteq DOMAIN h.chunk /\ DOMAIN h.chunk \subseteq Nat
  BY SpanFields
<1>2. /\ q \in Nat \ {0} /\ q = p + n
      /\ \A b \in B : (b < p \/ b >= p + n) /\ (b < q \/ b >= q + r)
  BY <1>1
<1> HIDE DEF B, q
<1>3. ASSUME NEW k,
             \/ k = SetInUse(h, p, n) \/ k = SetInUsePart(h, p, n),
             \/ g = SetFree(k, q, r) \/ g = SetInUseWhole(k, q, r)
      PROVE  /\ Spares(h, g, B) /\ SameBut(g, h, {"chunk"}) /\ IsHeap(g) /\ Heads(g.chunk)
  <2>1. /\ Spares(h, k, B) /\ SameBut(k, h, {"chunk"}) /\ IsHeap(k) /\ Heads(k.chunk)
    BY <1>1, <1>2, <1>3, WriteSpares
  <2>2. B \subseteq DOMAIN k.chunk
    BY <2>1 DEF Spares
  <2>3. /\ Spares(k, g, B) /\ SameBut(g, k, {"chunk"}) /\ IsHeap(g) /\ Heads(g.chunk)
    BY <1>2, <1>3, <2>1, <2>2, WriteSpares
  <2> QED
    BY <2>1, <2>3, SparesChain DEF SameBut
<1>4. ASSUME NEW k,
             \/ k = SetInUse(h, q, r) \/ k = SetFree(h, q, r),
             \/ g = SetInUse(k, p, n) \/ g = SetInUsePart(k, p, n)
      PROVE  /\ Spares(h, g, B) /\ SameBut(g, h, {"chunk"}) /\ IsHeap(g) /\ Heads(g.chunk)
  <2>1. /\ Spares(h, k, B) /\ SameBut(k, h, {"chunk"}) /\ IsHeap(k) /\ Heads(k.chunk)
    BY <1>1, <1>2, <1>4, WriteSpares
  <2>2. B \subseteq DOMAIN k.chunk
    BY <2>1 DEF Spares
  <2>3. /\ Spares(k, g, B) /\ SameBut(g, k, {"chunk"}) /\ IsHeap(g) /\ Heads(g.chunk)
    BY <1>1, <1>2, <1>4, <2>1, <2>2, WriteSpares
  <2> QED
    BY <2>1, <2>3, SparesChain DEF SameBut
<1> QED
  BY <1>3, <1>4 DEF B, q

\* What a sound space is made of.
LEMMA Inside ==
  ASSUME NEW h, NEW L, NEW U, Sound(h, L, U)
  PROVE  /\ IsHeap(h) /\ Heads(h.chunk) /\ DOMAIN h.chunk \subseteq Nat \ {0}
         /\ L \subseteq DOMAIN h.chunk /\ U \subseteq DOMAIN h.chunk /\ L \cap U = {}
         /\ Segments(h.segs)
<1>1. L \subseteq DOMAIN h.chunk /\ L \cap U = {}
  BY BlockUse
<1>2. U \subseteq DOMAIN h.chunk
  BY LooseSpan DEF Idle_
<1> QED
  BY <1>1, <1>2 DEF Sound, Shape, Heads

\* Chunks of L that a span takes in.
LEMMA OneOf ==
  ASSUME NEW h, NEW L, NEW U, Sound(h, L, U), NEW a \in L, h.chunk[a].cin,
         NEW e, e = a + h.chunk[a].size
  PROVE  L \ (a .. e - 1) = L \ {a} /\ U \ (a .. e - 1) = U
<1>1. /\ a \in Nat \ {0} /\ h.chunk[a].size \in Nat \ {0}
      /\ \A b \in DOMAIN h.chunk : a <= b /\ b < e => b = a
  BY BlockSpan
<1>2. /\ L \subseteq DOMAIN h.chunk /\ U \subseteq DOMAIN h.chunk /\ DOMAIN h.chunk \subseteq Nat
      /\ a \notin U
  BY Inside
<1> QED
  BY <1>1, <1>2

\* Heads written without the victim, which then changes.
LEMMA VictimLater ==
  ASSUME NEW h, NEW k, NEW g, IsHeap(h), SameBut(k, NoVictim(h), {"chunk"}),
         SameBut(g, h, {"chunk"}), SameChunks(k, g), NEW a, NEW m
  PROVE  Victim(g, a, m) = Victim(k, a, m)
<1>1. /\ IsHeap(g) /\ IsHeap(k) /\ IsHeap(NoVictim(h)) /\ k.chunk = g.chunk
      /\ \A f \in HeapFields \ {"dv", "dvsize"} : NoVictim(h)[f] = h[f]
  BY DEF SameBut, SameChunks, NoVictim, IsHeap, HeapFields
<1>2. \A f \in HeapFields \ {"dv", "dvsize"} : g[f] = k[f]
  BY <1>1 DEF SameBut, HeapFields
<1> DEFINE x == Victim(g, a, m)
           y == Victim(k, a, m)
<1>3. /\ IsHeap(x) /\ IsHeap(y) /\ x.dv = a /\ y.dv = a /\ x.dvsize = m /\ y.dvsize = m
      /\ \A f \in HeapFields \ {"dv", "dvsize"} : x[f] = g[f] /\ y[f] = k[f]
  BY <1>1 DEF IsHeap, HeapFields, Victim
<1> HIDE DEF x, y
<1>4. \A f \in HeapFields : x[f] = y[f]
  BY <1>2, <1>3 DEF HeapFields
<1>5. x = y
  BY <1>3, <1>4, SameHeap
<1> QED
  BY <1>5 DEF x, y

\* A span joins the victim behind it.
LEMMA MergeDvSound ==
  ASSUME NEW h, NEW L, NEW U, Sound(h, L, U), NEW p, h.dv # 0, Span(h, p, h.dv, L, U),
         NEW n, n = h.dv - p, h.chunk[p].pin, NEW g, g = MergeDv(h, p, n)
  PROVE  /\ Sound(g, L \ (p .. h.dv - 1), U \ (p .. h.dv - 1))
         /\ Spares(h, g, L \ (p .. h.dv - 1)) /\ SameBut(g, h, {"chunk", "dv", "dvsize"})
<1> DEFINE k == NoVictim(h)
           v == h.dv
           m == h.dvsize + n
           e == v + h.dvsize
<1>1. /\ Sound(k, L, U \cup {v}) /\ SameBut(k, h, {"dv", "dvsize"})
      /\ v \in Idle_(h.chunk) /\ v # h.top /\ h.dvsize = h.chunk[v].size
  BY VictimOut
<1>2. k.chunk = h.chunk /\ k.segs = h.segs /\ k.dv = 0 /\ IsHeap(k) /\ IsHeap(h)
  BY <1>1 DEF SameBut, HeapFields, NoVictim, Sound, IsHeap
<1>3. v \in U \cup {v}
  OBVIOUS
<1>4. e = v + k.chunk[v].size
  BY <1>1, <1>2
<1> HIDE DEF k, v, m, e
<1>5. /\ Span(k, v, e, L, U \cup {v}) /\ v \in Nat \ {0} /\ k.chunk[v].size \in Nat \ {0}
      /\ k.chunk[e].cin /\ ~k.chunk[e].pin
  BY <1>1, <1>3, <1>4, LooseSpan
<1>6. /\ Span(k, p, v, L, U \cup {v})
  BY <1>2, SpanLoose DEF v
<1>7. Span(k, p, e, L, U \cup {v})
  BY <1>1, <1>5, <1>6, SpanJoin
<1>8. /\ p \in Nat \ {0} /\ e \in Nat \ {0} /\ p < v
  BY <1>1, <1>5, <1>6, <1>7, SpanFields
<1>9. m = e - p
  BY <1>1, <1>2, <1>5, <1>8 DEF m, e, v
<1>10. Sound(SetFree(k, p, m), L \ (p .. e - 1), ((U \cup {v}) \ (p .. e - 1)) \cup {p})
  BY <1>1, <1>2, <1>5, <1>7, <1>9, FreeSpan
<1>11. Spares(k, SetFree(k, p, m), L \ (p .. e - 1)) /\ SameBut(SetFree(k, p, m), k, {"chunk"})
  BY <1>1, <1>7, <1>9, WriteSparesSpan
<1>12. SetFree(k, p, m).chunk[p].size = m
  <2>1. /\ m \in Nat \ {0} /\ IsHeap(k) /\ Heads(k.chunk) /\ e = p + m
    BY <1>1, <1>5, <1>7, <1>8, <1>9, SpanFields
  <2>2. Overwrites(k.chunk, SetFree(k, p, m).chunk, p, m)
    BY <1>8, <2>1, FreeOf
  <2> QED
    BY <2>2 DEF Overwrites
<1>13. SetFree(k, p, m).dv = 0
  BY <1>2, <1>11 DEF SameBut, HeapFields
<1> DEFINE V == ((U \cup {v}) \ (p .. e - 1)) \cup {p}
<1>14. p \in V
  OBVIOUS
<1>15. /\ Sound(Victim(SetFree(k, p, m), p, m), L \ (p .. e - 1), V \ {p})
       /\ SameBut(Victim(SetFree(k, p, m), p, m), SetFree(k, p, m), {"dv", "dvsize"})
  <2> HIDE DEF V
  <2>1. Sound(SetFree(k, p, m), L \ (p .. e - 1), V)
    BY <1>10 DEF V
  <2> QED
    BY <1>12, <1>13, <1>14, <2>1, VictimIn
<1>16. g = Victim(SetFree(k, p, m), p, m)
  <2>1. SameChunks(SetFree(k, p, m), SetFree(h, p, m))
    BY <1>2, WritesSame DEF SameChunks
  <2>2. SameBut(SetFree(h, p, m), h, {"chunk"})
    <3>1. /\ m \in Nat \ {0} /\ IsHeap(h) /\ Heads(h.chunk) /\ e = p + m
      BY <1>1, <1>2, <1>5, <1>7, <1>8, <1>9, SpanFields
    <3> QED
      BY <1>8, <3>1, FreeOf
  <2>3. SameBut(SetFree(k, p, m), NoVictim(h), {"chunk"})
    BY <1>11 DEF k
  <2>4. [SetFree(h, p, m) EXCEPT !.dv = p, !.dvsize = m] = Victim(SetFree(k, p, m), p, m)
    <3> DEFINE G == SetFree(h, p, m)
               K == SetFree(k, p, m)
    <3>1. SameChunks(K, G) /\ SameBut(G, h, {"chunk"}) /\ SameBut(K, NoVictim(h), {"chunk"})
      BY <2>1, <2>2, <2>3
    <3> HIDE DEF G, K
    <3>2. Victim(G, p, m) = Victim(K, p, m)
      BY <1>2, <3>1, VictimLater
    <3> QED
      BY <3>2 DEF G, K, Victim
  <2>5. SetFree(h, p, m).dvsize = h.dvsize
    BY <2>2 DEF SameBut, HeapFields
  <2>6. g = [SetFree(h, p, m) EXCEPT !.dv = p, !.dvsize = m]
    BY <2>5 DEF MergeDv, m
  <2> QED
    BY <2>4, <2>6
<1>17. L \ (p .. e - 1) = L \ (p .. v - 1) /\ V \ {p} = U \ (p .. v - 1)
  <2>1. /\ \A b \in DOMAIN k.chunk : v <= b /\ b < e => b = v
    <3>1. Apart(k.chunk)
      BY <1>1 DEF Sound, Shape
    <3>2. v \in DOMAIN k.chunk /\ DOMAIN k.chunk \subseteq Nat
      BY <1>1, <1>5, Inside DEF Span, InHeap
    <3> QED
      BY <1>4, <1>5, <1>8, <3>1, <3>2 DEF Apart
  <2>2. /\ L \subseteq DOMAIN k.chunk /\ U \cup {v} \subseteq DOMAIN k.chunk /\ v \notin L
        /\ DOMAIN k.chunk \subseteq Nat
    BY <1>1, Inside
  <2>3. v \notin U
    BY LooseSpan DEF v
  <2>4. p # v /\ p \in p .. v - 1
    BY <1>5, <1>8
  <2>5. \A b \in DOMAIN k.chunk \ {v} : b \in p .. e - 1 <=> b \in p .. v - 1
    BY <1>4, <1>5, <1>8, <2>1, <2>2
  <2>6. v \in p .. e - 1 /\ p \in p .. e - 1 /\ v \notin p .. v - 1
    BY <1>4, <1>5, <1>8
  <2> QED
    BY <2>2, <2>3, <2>4, <2>5, <2>6
<1>18. SameBut(g, h, {"chunk", "dv", "dvsize"}) /\ g.chunk = SetFree(k, p, m).chunk
  BY <1>1, <1>11, <1>15, <1>16 DEF SameBut, HeapFields
<1>19. Spares(h, g, L \ (p .. v - 1))
  BY <1>2, <1>11, <1>17, <1>18 DEF Spares
<1> QED
  BY <1>15, <1>16, <1>17, <1>18, <1>19 DEF v

\* A span of L and U, with no other loose chunk, is freed into its bin.
LEMMA BinFreedSound ==
  ASSUME NEW h, NEW L, NEW U, Sound(h, L, U), NEW p, U = {p}, NEW n, n = h.chunk[p].size
  PROVE  /\ Sound(BinFreed(h, p, n).heap, L, {})
         /\ SameBut(BinFreed(h, p, n).heap, h, {"small", "tree"})
<1>1. p \in U /\ U \ {p} = {}
  OBVIOUS
<1>2. Sound(Bin(h, p, n), L, U \ {p}) /\ SameBut(Bin(h, p, n), h, {"small", "tree"})
  BY <1>1, BinSound
<1>3. BinFreed(h, p, n).heap = Bin(h, p, n)
  BY DEF BinFreed, Disposed
<1> QED
  BY <1>1, <1>2, <1>3

FreeFields == {"chunk", "small", "tree", "dv", "dvsize", "top", "topsize"}

\* What an operation on the free chunks does to the blocks.
Frees(h, g, L, M) == Sound(g, M, {}) /\ Spares(h, g, M) /\ SameBut(g, h, FreeFields)

\* A span is freed, and joined with what is free behind it.
LEMMA ForwardSound ==
  ASSUME NEW h, NEW L, NEW U, Sound(h, L, U), NEW p, NEW next, Span(h, p, next, L, U),
         U \subseteq p .. next - 1, NEW n, n = next - p, h.chunk[p].pin,
         NEW d, d = Forward(h, p, n, next)
  PROVE  Frees(h, d.heap, L, L \ (p .. next - 1))
<1> DEFINE M == L \ (p .. next - 1)
<1>1. /\ p \in Nat \ {0} /\ next \in Nat \ {0} /\ p < next /\ next \in DOMAIN h.chunk
      /\ n \in Nat \ {0} /\ p + n = next /\ next \in InHeap(h.chunk) /\ p \in InHeap(h.chunk)
  BY SpanFields DEF Span
<1>2. U \ (p .. next - 1) = {}
  OBVIOUS
<1>3. h.chunk[next].cin => next # h.top /\ next # h.dv
  <2>1. ASSUME next = h.top PROVE ~h.chunk[next].cin
    BY <2>1, TopFields
  <2>2. ASSUME next = h.dv PROVE ~h.chunk[next].cin
    BY <1>1, <2>2, VictimOut DEF Idle_
  <2> QED
    BY <2>1, <2>2
<1>4. h.top # h.dv
  BY DEF Sound, Placed
<1>5. IsHeap(h)
  BY Inside
<1>6. CASE h.chunk[next].cin
  <2> DEFINE k == SetFreeBefore(h, p, n, next)
  <2>1. d = BinFreed(k, p, n)
    BY <1>3, <1>6 DEF Forward
  <2>2. Sound(k, M, (U \ (p .. next - 1)) \cup {p})
    BY <1>6, FreeSpanBefore
  <2>3. Sound(k, M, {p})
    BY <1>2, <2>2
  <2>4. Spares(h, k, M) /\ SameBut(k, h, {"chunk"})
    BY WriteSparesSpan
  <2>5. k.chunk[p].size = n
    <3>1. Overwrites(h.chunk, k.chunk, p, n)
      BY <1>1, Inside, FreeBeforeOf
    <3> QED
      BY <3>1 DEF Overwrites
  <2> HIDE DEF k
  <2>6. Sound(d.heap, M, {}) /\ SameBut(d.heap, k, {"small", "tree"})
    BY <2>1, <2>3, <2>5, BinFreedSound
  <2>7. d.heap.chunk = k.chunk /\ SameBut(d.heap, h, FreeFields)
    BY <2>4, <2>6 DEF SameBut, HeapFields, FreeFields
  <2> QED
    BY <2>4, <2>6, <2>7 DEF Spares, Frees
<1>7. CASE next = h.top
  <2>1. d.heap = MergeTop(h, p, n)
    BY <1>3, <1>4, <1>7 DEF Forward, Disposed
  <2>2. /\ Sound(d.heap, M, U \ (p .. next - 1))
        /\ Overwrites(h.chunk, d.heap.chunk, p, h.topsize + n)
        /\ SameBut(d.heap, h, {"chunk", "top", "topsize"})
    BY <1>7, <2>1, MergeTopSound
  <2>3. Spares(h, d.heap, M)
    <3> DEFINE E == h.top + h.topsize
    <3>1. /\ h.topsize + n \in Nat /\ h.topsize + n > 0 /\ p + (h.topsize + n) = E
          /\ E \in Nat /\ p <= h.top /\ p \in Nat /\ L \subseteq L \cup U
      BY <1>1, <1>7, TopFields
    <3>2. M = L \ (p .. E - 1)
      <4>1. E = h.top + h.topsize
        OBVIOUS
      <4> HIDE DEF E
      <4> QED
        BY <1>7, <3>1, <4>1, TopClear
    <3> HIDE DEF E
    <3>3. M \subseteq DOMAIN h.chunk /\ DOMAIN h.chunk \subseteq Nat
      BY Inside
    <3>4. \A a \in M : a < p \/ a >= p + (h.topsize + n)
      <4>1. \A a \in M : a \in Nat /\ a \notin p .. E - 1
        BY <3>2, <3>3
      <4> HIDE DEF M
      <4> QED
        BY <3>1, <4>1
    <3> HIDE DEF M
    <3> QED
      BY <1>1, <2>2, <3>1, <3>3, <3>4, SparesOutside
  <2>4. SameBut(d.heap, h, FreeFields)
    BY <2>2 DEF SameBut, FreeFields
  <2> QED
    BY <1>2, <2>2, <2>3, <2>4 DEF Frees
<1>8. CASE ~h.chunk[next].cin /\ next # h.top /\ next = h.dv
  <2>1. d.heap = MergeDv(h, p, n)
    BY <1>8 DEF Forward, Disposed
  <2>2. /\ Sound(d.heap, M, U \ (p .. next - 1))
        /\ Spares(h, d.heap, M) /\ SameBut(d.heap, h, {"chunk", "dv", "dvsize"})
    BY <1>1, <1>8, <2>1, MergeDvSound
  <2>3. SameBut(d.heap, h, FreeFields)
    BY <2>2 DEF SameBut, FreeFields
  <2> QED
    BY <1>2, <2>2, <2>3 DEF Frees
<1>9. CASE ~h.chunk[next].cin /\ next # h.top /\ next # h.dv
  <2> DEFINE m == SizeOf(h, next)
             all == n + m
             k == Unbin(h, next, m)
             f == SetFree(k, p, all)
             e == next + m
             V == U \cup {next}
  <2>1. p # h.dv
    <3>1. p \in L \cup U
      BY <1>1 DEF Span, InHeap
    <3> QED
      BY <3>1, BlockUse, LooseSpan
  <2>2. d = BinFreed(f, p, all)
    BY <1>9, <2>1 DEF Forward
  <2>3. next \in Idle_(h.chunk) /\ next \notin U
    BY <1>1, <1>9 DEF Idle_, InHeap
  <2>4. next \in Binned_(h.small, h.tree)
    BY <1>9, <2>3 DEF Sound, Placed
  <2>5. m = h.chunk[next].size
    BY DEF SizeOf
  <2> HIDE DEF m, all, k, f, e, V
  <2>6. Sound(k, L, V) /\ SameBut(k, h, {"small", "tree"})
    BY <2>4, <2>5, UnbinSound DEF k, V
  <2>7. k.chunk = h.chunk /\ k.segs = h.segs /\ next \in V
    BY <2>6 DEF SameBut, HeapFields, V
  <2>8. e = next + k.chunk[next].size
    BY <2>5, <2>7 DEF e
  <2>9. /\ Span(k, next, e, L, V) /\ k.chunk[next].size \in Nat \ {0}
        /\ k.chunk[e].cin /\ ~k.chunk[e].pin
    BY <2>6, <2>7, <2>8, LooseSpan
  <2>10. Span(k, p, next, L, V)
    BY <2>7, SpanLoose DEF V
  <2>11. Span(k, p, e, L, V)
    BY <2>6, <2>9, <2>10, SpanJoin
  <2>12. e \in Nat \ {0} /\ all = e - p /\ all \in Nat \ {0} /\ p + all = e
    BY <1>1, <2>5, <2>7, <2>8, <2>9 DEF all, e
  <2>13. Sound(f, L \ (p .. e - 1), (V \ (p .. e - 1)) \cup {p})
    BY <2>6, <2>7, <2>9, <2>11, <2>12, FreeSpan DEF f
  <2>14. Spares(k, f, L \ (p .. e - 1)) /\ SameBut(f, k, {"chunk"})
    BY <2>6, <2>11, <2>12, WriteSparesSpan DEF f
  <2>15. f.chunk[p].size = all
    <3>1. IsHeap(k) /\ Heads(k.chunk)
      BY <2>6, Inside
    <3>2. Overwrites(k.chunk, f.chunk, p, all)
      BY <1>1, <2>12, <3>1, FreeOf DEF f
    <3> QED
      BY <3>2 DEF Overwrites
  <2>16. L \ (p .. e - 1) = M
    <3>1. L \subseteq DOMAIN h.chunk /\ DOMAIN h.chunk \subseteq Nat /\ Apart(h.chunk) /\ next \notin L
      BY <2>3, Inside, BlockUse DEF Sound, Shape
    <3>2. \A b \in DOMAIN h.chunk : next <= b /\ b < e => b = next
      BY <1>1, <2>7, <2>8, <2>9, <2>12, <3>1 DEF Apart
    <3>3. \A b \in L : b \in p .. e - 1 <=> b \in p .. next - 1
      BY <1>1, <2>7, <2>8, <2>9, <2>12, <3>1, <3>2
    <3> QED
      BY <3>3
  <2>17. (V \ (p .. e - 1)) \cup {p} = {p}
    <3>1. next < e
      BY <1>1, <2>8, <2>9, <2>12
    <3>2. next \in p .. e - 1 /\ \A b \in p .. next - 1 : b \in p .. e - 1
      BY <1>1, <2>12, <3>1
    <3> QED
      BY <3>2 DEF V
  <2>18. Sound(f, M, {p})
    BY <2>13, <2>16, <2>17
  <2>19. Sound(d.heap, M, {}) /\ SameBut(d.heap, f, {"small", "tree"})
    BY <2>2, <2>15, <2>18, BinFreedSound
  <2>20. d.heap.chunk = f.chunk /\ SameBut(d.heap, h, FreeFields)
    BY <2>6, <2>14, <2>19 DEF SameBut, HeapFields, FreeFields
  <2>21. Spares(h, d.heap, M)
    BY <2>7, <2>14, <2>16, <2>20 DEF Spares
  <2> QED
    BY <2>19, <2>20, <2>21 DEF Frees
<1> QED
  BY <1>3, <1>6, <1>7, <1>8, <1>9

\* Heaps are equal when their chunks and victims are and the rest was untouched.
LEMMA VictimSame ==
  ASSUME NEW x, NEW y, NEW h, SameChunks(x, y), x.dv = y.dv, x.dvsize = y.dvsize,
         SameBut(x, h, {"chunk", "dv", "dvsize"}), SameBut(y, h, {"chunk", "dv", "dvsize"})
  PROVE  x = y
<1>1. IsHeap(x) /\ IsHeap(y) /\ x.chunk = y.chunk
  BY DEF SameChunks
<1>2. \A f \in HeapFields : x[f] = y[f]
  BY <1>1 DEF SameBut, HeapFields
<1> QED
  BY <1>1, <1>2, SameHeap

\* A victim that takes in the block behind it, before a chunk in use.
LEMMA VictimGrows ==
  ASSUME NEW h, NEW L, Sound(h, L, {}), NEW p, h.dv = p, p # 0, NEW e,
         Span(NoVictim(h), p, e, L, {p}), h.chunk[e].cin, NEW n, n = e - p,
         NEW g, g = SetFreeBefore([h EXCEPT !.dvsize = n], p, n, e)
  PROVE  Frees(h, g, L, L \ (p .. e - 1))
<1> DEFINE k == NoVictim(h)
           f == SetFreeBefore(k, p, n, e)
           M == L \ (p .. e - 1)
<1>1. /\ Sound(k, L, {p}) /\ SameBut(k, h, {"dv", "dvsize"}) /\ p \in Idle_(h.chunk)
  <2>1. {} \cup {p} = {p}
    OBVIOUS
  <2>2. Sound(NoVictim(h), L, {} \cup {h.dv})
    BY VictimOut
  <2> QED
    BY <2>1, <2>2, VictimOut
<1>2. IsHeap(h) /\ IsHeap(k) /\ k.chunk = h.chunk /\ k.dv = 0 /\ k.segs = h.segs
  BY <1>1, Inside DEF SameBut, HeapFields, NoVictim, IsHeap
<1> HIDE DEF k, M
<1>3. Span(k, p, e, L, {p}) /\ k.chunk[p].pin /\ k.chunk[e].cin
  BY <1>1, <1>2 DEF k, Idle_
<1>4. Sound(f, L \ (p .. e - 1), ({p} \ (p .. e - 1)) \cup {p})
  BY <1>1, <1>3, FreeSpanBefore
<1>5. /\ p \in Nat \ {0} /\ e \in Nat \ {0} /\ p < e /\ n \in Nat \ {0} /\ e = p + n
  BY <1>1, <1>3, SpanFields
<1>6. Spares(k, f, L \ (p .. e - 1)) /\ SameBut(f, k, {"chunk"})
  BY <1>1, <1>3, WriteSparesSpan
<1>7. f.chunk[p].size = n
  <2>1. IsHeap(k) /\ Heads(k.chunk)
    BY <1>1, Inside
  <2>2. Overwrites(k.chunk, f.chunk, p, n)
    BY <1>5, <2>1, FreeBeforeOf
  <2> QED
    BY <2>2 DEF Overwrites
<1>8. Sound(f, M, {p}) /\ f.dv = 0 /\ p \in {p} /\ {p} \ {p} = {}
  <2>1. ({p} \ (p .. e - 1)) \cup {p} = {p}
    OBVIOUS
  <2> QED
    BY <1>2, <1>4, <1>6, <2>1 DEF M, SameBut, HeapFields
<1>9. Sound(Victim(f, p, n), M, {}) /\ SameBut(Victim(f, p, n), f, {"dv", "dvsize"})
  <2> HIDE DEF f
  <2>1. Sound(Victim(f, p, n), M, {p} \ {p}) /\ SameBut(Victim(f, p, n), f, {"dv", "dvsize"})
    BY <1>7, <1>8, VictimIn
  <2> QED
    BY <1>8, <2>1
<1>10. g = Victim(f, p, n)
  <2> DEFINE j == [h EXCEPT !.dvsize = n]
  <2>1. IsHeap(j) /\ j.chunk = h.chunk /\ j.dv = p /\ j.dvsize = n /\ SameBut(j, h, {"dvsize"})
    BY <1>2 DEF IsHeap, HeapFields, SameBut
  <2> HIDE DEF j
  <2>2. Heads(j.chunk)
    BY <2>1, Inside
  <2>3. g = SetFreeBefore(j, p, n, e)
    BY DEF j
  <2>4. SameBut(g, j, {"chunk"})
    BY <1>5, <2>1, <2>2, <2>3, FreeBeforeOf
  <2>5. SameChunks(g, f)
    <3>1. SameChunks(j, k)
      BY <1>2, <2>1 DEF SameChunks
    <3> QED
      BY <2>3, <3>1, WritesSame
  <2> HIDE DEF f
  <2>6. /\ SameBut(g, h, {"chunk", "dv", "dvsize"}) /\ g.dv = p /\ g.dvsize = n
    BY <2>1, <2>4 DEF SameBut, HeapFields
  <2>7. /\ SameBut(Victim(f, p, n), h, {"chunk", "dv", "dvsize"}) /\ Victim(f, p, n).dv = p
        /\ Victim(f, p, n).dvsize = n /\ Victim(f, p, n).chunk = f.chunk
    <3>1. IsHeap(f) /\ Victim(f, p, n).dv = p /\ Victim(f, p, n).dvsize = n
      BY <1>6 DEF SameBut, IsHeap, HeapFields, Victim
    <3> QED
      BY <1>1, <1>6, <1>9, <3>1 DEF SameBut, HeapFields
  <2>8. SameChunks(g, Victim(f, p, n))
    BY <2>5, <2>7 DEF SameChunks, SameBut
  <2> QED
    BY <2>6, <2>7, <2>8, VictimSame
<1>11. g.chunk = f.chunk /\ SameBut(g, h, FreeFields)
  BY <1>1, <1>6, <1>9, <1>10 DEF SameBut, HeapFields, FreeFields
<1> QED
  BY <1>2, <1>6, <1>9, <1>10, <1>11 DEF Spares, Frees, M

\* The bins change in the same way whoever is the victim.
LEMMA UnbinSame ==
  ASSUME NEW h, IsHeap(h), NEW a, NEW n
  PROVE  /\ IsHeap(Unbin(h, a, n)) /\ IsHeap(Unbin(NoVictim(h), a, n))
         /\ SameBut(Unbin(h, a, n), h, {"small", "tree"})
         /\ Unbin(NoVictim(h), a, n).small = Unbin(h, a, n).small
         /\ Unbin(NoVictim(h), a, n).tree = Unbin(h, a, n).tree
         /\ SameBut(Unbin(NoVictim(h), a, n), h, {"small", "tree", "dv", "dvsize"})
<1>1. CASE n < SmallLimit
  <2> DEFINE t == RemoveAt(h.small[n], CHOOSE i \in DOMAIN h.small[n] : h.small[n][i] = a)
             S == [h.small EXCEPT ![n] = t]
             k == NoVictim(h)
  <2>1. /\ IsHeap(k) /\ k.small = h.small /\ k.tree = h.tree
        /\ SameBut(k, h, {"dv", "dvsize"})
    BY DEF NoVictim, IsHeap, HeapFields, SameBut
  <2> HIDE DEF k
  <2>2. Unbin(h, a, n) = [h EXCEPT !.small = S]
    BY <1>1 DEF Unbin
  <2>3. Unbin(k, a, n) = [k EXCEPT !.small = S]
    BY <1>1, <2>1 DEF Unbin
  <2> HIDE DEF S
  <2>4. /\ IsHeap(Unbin(h, a, n)) /\ Unbin(h, a, n).small = S /\ Unbin(h, a, n).tree = h.tree
        /\ SameBut(Unbin(h, a, n), h, {"small", "tree"})
    BY <2>2 DEF IsHeap, HeapFields, SameBut
  <2>5. /\ IsHeap(Unbin(k, a, n)) /\ Unbin(k, a, n).small = S /\ Unbin(k, a, n).tree = k.tree
        /\ SameBut(Unbin(k, a, n), k, {"small", "tree"})
    BY <2>1, <2>3 DEF IsHeap, HeapFields, SameBut
  <2>6. SameBut(Unbin(k, a, n), h, {"small", "tree", "dv", "dvsize"})
    BY <2>1, <2>5 DEF SameBut
  <2> QED
    BY <2>1, <2>4, <2>5, <2>6 DEF k
<1>2. CASE ~(n < SmallLimit)
  BY <1>2 DEF Unbin, NoVictim, IsHeap, HeapFields, SameBut
<1> QED
  BY <1>1, <1>2

\* A victim that takes in what follows it is joined with what is free behind that.
LEMMA ForwardVictim ==
  ASSUME NEW h, NEW L, Sound(h, L, {}), NEW p, h.dv = p, p # 0, NEW next,
         Span(NoVictim(h), p, next, L, {p}), ~h.chunk[next].cin, NEW n, n = next - p,
         NEW d, d = Forward(h, p, n, next)
  PROVE  Frees(h, d.heap, L, L \ (p .. next - 1))
<1> DEFINE k == NoVictim(h)
           M == L \ (p .. next - 1)
<1>1. /\ Sound(k, L, {p}) /\ SameBut(k, h, {"dv", "dvsize"}) /\ p \in Idle_(h.chunk)
  <2>1. {} \cup {p} = {p}
    OBVIOUS
  <2>2. Sound(NoVictim(h), L, {} \cup {h.dv})
    BY VictimOut
  <2> QED
    BY <2>1, <2>2, VictimOut
<1>2. /\ IsHeap(h) /\ IsHeap(k) /\ k.chunk = h.chunk /\ k.dv = 0 /\ k.segs = h.segs
      /\ k.top = h.top /\ k.topsize = h.topsize /\ k.dvsize = 0
  BY <1>1, Inside DEF SameBut, HeapFields, NoVictim, IsHeap
<1> HIDE DEF k
<1>3. /\ p \in Nat \ {0} /\ next \in Nat \ {0} /\ p < next /\ n \in Nat \ {0} /\ next = p + n
      /\ Span(k, p, next, L, {p}) /\ next \in DOMAIN h.chunk /\ next \in InHeap(h.chunk)
  BY <1>1, <1>2, SpanFields DEF k, Span
<1>4. k.chunk[p].pin /\ {p} \ (p .. next - 1) = {}
  BY <1>1, <1>2, <1>3 DEF Idle_
<1>5. h.top # h.dv
  BY DEF Sound, Placed
<1>6. CASE next = h.top
  <2> DEFINE g == MergeTop(h, p, n)
             f == MergeTop(k, p, n)
  <2>1. d.heap = g
    BY <1>5, <1>6 DEF Forward, Disposed
  <2>2. /\ Sound(f, M, {p} \ (p .. next - 1))
        /\ Overwrites(k.chunk, f.chunk, p, k.topsize + n)
        /\ SameBut(f, k, {"chunk", "top", "topsize"})
    BY <1>1, <1>2, <1>3, <1>4, <1>6, MergeTopSound
  <2>3. g = f
    <3>1. SameChunks(Put(h, p, h.topsize + n, FALSE, TRUE), Put(k, p, h.topsize + n, FALSE, TRUE))
      <4>1. SameChunks(h, k)
        BY <1>2 DEF SameChunks
      <4> QED
        BY <4>1, PutSame
    <3>2. /\ SameBut(Put(h, p, h.topsize + n, FALSE, TRUE), h, {"chunk"})
          /\ SameBut(Put(k, p, h.topsize + n, FALSE, TRUE), k, {"chunk"})
      <4>1. h.topsize + n \in Nat \ {0}
        BY <1>3, TopFields
      <4>2. Heads(h.chunk) /\ Heads(k.chunk)
        BY <1>1, Inside
      <4> QED
        BY <1>2, <1>3, <4>1, <4>2, PutOf
    <3> DEFINE x == Put(h, p, h.topsize + n, FALSE, TRUE)
               y == Put(k, p, h.topsize + n, FALSE, TRUE)
    <3>3. /\ g = [x EXCEPT !.top = p, !.topsize = @ + n, !.dv = IF @ = p THEN 0 ELSE @,
                           !.dvsize = IF h.dv = p THEN 0 ELSE @]
          /\ f = [y EXCEPT !.top = p, !.topsize = @ + n, !.dv = IF @ = p THEN 0 ELSE @,
                           !.dvsize = IF k.dv = p THEN 0 ELSE @]
      <4>1. g = [x EXCEPT !.top = p, !.topsize = @ + n, !.dv = IF @ = p THEN 0 ELSE @,
                          !.dvsize = IF h.dv = p THEN 0 ELSE @]
        BY DEF MergeTop, g, x
      <4>2. f = [Put(k, p, k.topsize + n, FALSE, TRUE) EXCEPT !.top = p, !.topsize = @ + n,
                          !.dv = IF @ = p THEN 0 ELSE @, !.dvsize = IF k.dv = p THEN 0 ELSE @]
        BY DEF MergeTop, f
      <4>3. k.topsize = h.topsize
        BY <1>2
      <4> QED
        BY ONLY <4>1, <4>2, <4>3 DEF y
    <3>7. SameChunks(x, y) /\ SameBut(x, h, {"chunk"}) /\ SameBut(y, k, {"chunk"})
      BY <3>1, <3>2 DEF x, y
    <3> HIDE DEF x, y
    <3>4. /\ IsHeap(x) /\ IsHeap(y) /\ x.chunk = y.chunk /\ x.dv = p /\ y.dv = 0 /\ y.dvsize = 0
          /\ x.topsize = h.topsize /\ y.topsize = h.topsize
          /\ \A z \in HeapFields \ {"chunk", "dv", "dvsize"} : x[z] = y[z]
      <4>1. /\ IsHeap(x) /\ IsHeap(y) /\ x.chunk = y.chunk
            /\ \A z \in HeapFields \ {"chunk"} : x[z] = h[z] /\ y[z] = k[z]
        BY <3>7 DEF SameChunks, SameBut
      <4>2. /\ x.dv = h.dv /\ y.dv = k.dv /\ y.dvsize = k.dvsize
            /\ x.topsize = h.topsize /\ y.topsize = k.topsize
        BY <4>1 DEF HeapFields
      <4>3. \A z \in HeapFields \ {"chunk", "dv", "dvsize"} : x[z] = y[z]
        <5>1. \A z \in HeapFields \ {"dv", "dvsize"} : k[z] = h[z]
          BY <1>1 DEF SameBut
        <5> QED
          BY ONLY <4>1, <5>1
      <4> QED
        BY <4>1, <4>2, <4>3, <1>2
    <3> DEFINE E == h.topsize + n
    <3>0. /\ g = [x EXCEPT !.top = p, !.topsize = E, !.dv = 0, !.dvsize = 0]
          /\ f = [y EXCEPT !.top = p, !.topsize = E, !.dv = 0, !.dvsize = 0]
      <4>1. x.topsize + n = E /\ y.topsize + n = E
        BY <3>4
      <4>2. /\ (IF x.dv = p THEN 0 ELSE x.dv) = 0 /\ (IF h.dv = p THEN 0 ELSE x.dvsize) = 0
            /\ (IF y.dv = p THEN 0 ELSE y.dv) = 0 /\ (IF k.dv = p THEN 0 ELSE y.dvsize) = 0
        BY <3>4, <1>2
      <4> HIDE DEF E, f, g
      <4> QED
        BY <3>3, <4>1, <4>2
    <3> HIDE DEF E, f, g
    <3>5. /\ IsHeap(g) /\ IsHeap(f) /\ g.chunk = f.chunk /\ g.top = p /\ f.top = p
          /\ g.topsize = E /\ f.topsize = E /\ g.dv = 0 /\ f.dv = 0
          /\ g.dvsize = 0 /\ f.dvsize = 0
          /\ \A z \in HeapFields \ {"chunk", "dv", "dvsize", "top", "topsize"} : g[z] = x[z] /\ f[z] = y[z]
      BY <3>0, <3>4 DEF IsHeap, HeapFields
    <3>6. \A z \in HeapFields : g[z] = f[z]
      BY <3>4, <3>5 DEF HeapFields
    <3> QED
      BY <3>5, <3>6, SameHeap
  <2> HIDE DEF f, g
  <2>4. Spares(k, f, M)
    <3> DEFINE E == h.top + h.topsize
    <3>1. /\ h.topsize + n \in Nat /\ h.topsize + n > 0 /\ p + (h.topsize + n) = E
          /\ E \in Nat /\ p <= h.top /\ L \subseteq L \cup {p}
      BY <1>3, <1>6, TopFields
    <3>2. M = L \ (p .. E - 1)
      <4>1. E = k.top + k.topsize
        BY <1>2
      <4> HIDE DEF E
      <4> QED
        BY <1>1, <1>2, <1>3, <1>6, <3>1, <4>1, TopClear
    <3> HIDE DEF E
    <3>3. M \subseteq DOMAIN k.chunk /\ DOMAIN k.chunk \subseteq Nat
      BY <1>1, Inside
    <3>4. \A a \in M : a < p \/ a >= p + (h.topsize + n)
      <4>1. \A a \in M : a \in Nat /\ a \notin p .. E - 1
        BY <3>2, <3>3
      <4> HIDE DEF M
      <4> QED
        BY <1>3, <3>1, <4>1
    <3> HIDE DEF M
    <3> QED
      BY <1>2, <1>3, <2>2, <3>1, <3>3, <3>4, SparesOutside
  <2>5. d.heap = f
    BY <2>1, <2>3
  <2>6. SameBut(f, h, FreeFields)
    BY <1>1, <2>2 DEF SameBut, FreeFields, HeapFields
  <2>7. Spares(h, f, M)
    BY <1>2, <2>4 DEF Spares
  <2> QED
    BY <1>4, <2>2, <2>5, <2>6, <2>7 DEF Frees
<1>7. CASE next # h.top
  <2> DEFINE m == SizeOf(h, next)
             all == n + m
             j == Unbin(k, next, m)
             f == SetFree(j, p, all)
             e == next + m
             V == {p, next}
             g == [SetFree(Unbin(h, next, m), p, all) EXCEPT !.dvsize = all]
  <2>1. next # h.dv
    BY <1>3
  <2>2. d.heap = g
    BY <1>7, <2>1 DEF Forward, Disposed
  <2>3. next \in Idle_(h.chunk)
    BY <1>3 DEF Idle_, InHeap
  <2>4. next \in Binned_(k.small, k.tree)
    <3>1. next \in Binned_(h.small, h.tree)
      BY <1>7, <2>1, <2>3 DEF Sound, Placed
    <3> QED
      BY <1>1, <3>1 DEF SameBut, HeapFields
  <2>5. m = k.chunk[next].size
    BY <1>2 DEF SizeOf
  <2> HIDE DEF m, all, j, f, e, V, g
  <2>6. Sound(j, L, V) /\ SameBut(j, k, {"small", "tree"})
    <3>1. Sound(j, L, {p} \cup {next}) /\ SameBut(j, k, {"small", "tree"})
      BY <1>1, <2>4, <2>5, UnbinSound DEF j
    <3>2. {p} \cup {next} = V
      BY DEF V
    <3> QED
      BY <3>1, <3>2
  <2>7. j.chunk = h.chunk /\ j.segs = h.segs /\ next \in V /\ p \in V /\ {p} \subseteq V
    BY <1>2, <2>6 DEF SameBut, HeapFields, V
  <2>8. e = next + j.chunk[next].size
    BY <1>2, <2>5, <2>7 DEF e
  <2>9. /\ Span(j, next, e, L, V) /\ j.chunk[next].size \in Nat \ {0}
        /\ j.chunk[e].cin /\ ~j.chunk[e].pin
    BY <2>6, <2>7, <2>8, LooseSpan
  <2>10. Span(j, p, next, L, V)
    BY <1>2, <1>3, <2>7, SpanLoose
  <2>11. Span(j, p, e, L, V)
    BY <2>6, <2>9, <2>10, SpanJoin
  <2>12. e \in Nat \ {0} /\ all = e - p /\ all \in Nat \ {0} /\ e = p + all /\ next < e
    BY <1>2, <1>3, <2>5, <2>7, <2>8, <2>9 DEF all, e
  <2>13. Sound(f, L \ (p .. e - 1), (V \ (p .. e - 1)) \cup {p})
    BY <1>2, <1>4, <2>6, <2>7, <2>9, <2>11, <2>12, FreeSpan DEF f
  <2>14. Spares(j, f, L \ (p .. e - 1)) /\ SameBut(f, j, {"chunk"})
    BY <2>6, <2>11, <2>12, WriteSparesSpan DEF f
  <2>15. f.chunk[p].size = all
    <3>1. IsHeap(j) /\ Heads(j.chunk)
      BY <2>6, Inside
    <3>2. Overwrites(j.chunk, f.chunk, p, all)
      BY <1>3, <2>12, <3>1, FreeOf DEF f
    <3> QED
      BY <3>2 DEF Overwrites
  <2>16. L \ (p .. e - 1) = M
    <3>1. L \subseteq DOMAIN h.chunk /\ DOMAIN h.chunk \subseteq Nat /\ Apart(h.chunk) /\ next \notin L
      BY <2>3, Inside, BlockUse DEF Sound, Shape
    <3>2. \A b \in DOMAIN h.chunk : next <= b /\ b < e => b = next
      BY <1>3, <2>7, <2>8, <2>9, <2>12, <3>1 DEF Apart
    <3>3. \A b \in L : b \in p .. e - 1 <=> b \in p .. next - 1
      BY <1>3, <2>7, <2>8, <2>9, <2>12, <3>1, <3>2
    <3> QED
      BY <3>3
  <2>17. (V \ (p .. e - 1)) \cup {p} = {p} /\ {p} \ {p} = {} /\ p \in {p}
    <3>1. next \in p .. e - 1
      BY <1>3, <2>12
    <3> QED
      BY <3>1 DEF V
  <2>18. Sound(f, M, {p}) /\ f.dv = 0
    BY <1>2, <2>6, <2>13, <2>14, <2>16, <2>17 DEF SameBut, HeapFields
  <2>19. Sound(Victim(f, p, all), M, {}) /\ SameBut(Victim(f, p, all), f, {"dv", "dvsize"})
    <3>1. Sound(Victim(f, p, all), M, {p} \ {p}) /\ SameBut(Victim(f, p, all), f, {"dv", "dvsize"})
      BY <2>15, <2>17, <2>18, VictimIn
    <3> QED
      BY <2>17, <3>1
  <2>20. g = Victim(f, p, all)
    <3> DEFINE i == Unbin(h, next, m)
    <3>1. /\ IsHeap(i) /\ IsHeap(j) /\ SameBut(i, h, {"small", "tree"})
          /\ j.small = i.small /\ j.tree = i.tree
      BY <1>2, UnbinSame DEF j, k
    <3> HIDE DEF i
    <3>2. SameChunks(i, j) /\ SameBut(j, i, {"dv", "dvsize"}) /\ i.dv = p
      BY <1>1, <2>6, <2>7, <3>1 DEF SameChunks, SameBut, HeapFields
    <3>3. SameChunks(SetFree(i, p, all), f)
      BY <3>2, WritesSame DEF f
    <3>4. SameBut(SetFree(i, p, all), i, {"chunk"})
      <4>1. Heads(i.chunk)
        BY <2>6, <3>2, Inside DEF SameChunks
      <4> QED
        BY <1>3, <2>12, <3>1, <4>1, FreeOf
    <3> DEFINE x == SetFree(i, p, all)
    <3>5. g = [x EXCEPT !.dvsize = all]
      BY DEF g, i
    <3> HIDE DEF x
    <3>6. /\ IsHeap(g) /\ g.dv = p /\ g.dvsize = all /\ g.chunk = x.chunk
          /\ SameBut(g, x, {"dvsize"})
      <4>1. IsHeap(x) /\ x.dv = p
        BY <3>2, <3>4 DEF SameBut, HeapFields, x
      <4> QED
        BY <3>5, <4>1 DEF IsHeap, HeapFields, SameBut
    <3>7. SameBut(g, i, {"chunk", "dv", "dvsize"})
      BY <3>4, <3>6 DEF SameBut, HeapFields, x
    <3>8. /\ Victim(f, p, all).dv = p /\ Victim(f, p, all).dvsize = all
          /\ Victim(f, p, all).chunk = f.chunk /\ IsHeap(Victim(f, p, all))
      <4>1. IsHeap(f)
        BY <2>14 DEF SameBut
      <4> QED
        BY <4>1 DEF Victim, IsHeap, HeapFields
    <3>9. SameBut(Victim(f, p, all), i, {"chunk", "dv", "dvsize"})
      BY <2>14, <2>19, <3>2 DEF SameBut, HeapFields
    <3>10. SameChunks(g, Victim(f, p, all))
      BY <3>3, <3>6, <3>8 DEF SameChunks, x
    <3> QED
      BY <3>6, <3>7, <3>8, <3>9, <3>10, VictimSame
  <2>21. g.chunk = f.chunk /\ SameBut(g, h, FreeFields)
    BY <1>1, <2>6, <2>14, <2>19, <2>20 DEF SameBut, HeapFields, FreeFields
  <2>22. Spares(h, g, M)
    BY <2>7, <2>14, <2>16, <2>21 DEF Spares
  <2> QED
    BY <2>2, <2>19, <2>20, <2>21, <2>22 DEF Frees
<1> QED
  BY <1>6, <1>7

\* A block of a segment is disposed of: freed, and joined with its free neighbours.
LEMMA DisposeInHeap ==
  ASSUME NEW h, NEW L, Sound(h, L, {}), NEW a \in L, h.chunk[a].cin,
         NEW n, n = h.chunk[a].size, NEW d \in Dispose(h, a, n)
  PROVE  Frees(h, d.heap, L, L \ {a})
<1> DEFINE c == h.chunk[a]
           prev == a - c.foot
           next == a + n
<1>1. /\ Span(h, a, next, L, {}) /\ a \in InHeap(h.chunk) /\ a \in DOMAIN h.chunk
      /\ a \in Nat \ {0} /\ n \in Nat \ {0} /\ next \in DOMAIN h.chunk /\ h.chunk[next].pin
      /\ \A b \in DOMAIN h.chunk : a <= b /\ b < next => b = a
  BY BlockSpan
<1>2. ~IsMapped(c) /\ a \notin Idle_(h.chunk)
  BY BlockUse
<1>3. L \ (a .. next - 1) = L \ {a}
  BY OneOf
<1>4. CASE c.pin
  <2>1. d = Forward(h, a, n, next)
    BY <1>2, <1>4 DEF Dispose
  <2>2. {} \subseteq a .. next - 1 /\ n = next - a
    BY <1>1
  <2>3. Frees(h, d.heap, L, L \ (a .. next - 1))
    <3> HIDE DEF next
    <3> QED
      BY <1>1, <1>4, <2>1, <2>2, ForwardSound
  <2> QED
    BY <1>3, <2>3
<1>5. CASE ~c.pin
  <2> HIDE DEF prev, next
  <2>1. /\ prev \in Idle_(h.chunk) /\ prev # h.top /\ prev \in DOMAIN h.chunk /\ prev \in Nat \ {0}
        /\ prev < a /\ h.chunk[prev].size = c.foot /\ prev + h.chunk[prev].size = a
    BY <1>1, <1>5, Predecessor DEF prev
  <2>2. /\ next \in Nat /\ a < next /\ n + c.foot = next - prev /\ next = a + n /\ c.foot \in Nat
        /\ h.chunk[prev].pin
    <3>1. h.chunk[prev].size \in Nat
      BY <2>1, ChunkFields, Inside
    <3> QED
      BY <1>1, <2>1, <3>1 DEF next, Idle_
  <2>3. L \ (prev .. next - 1) = L \ {a}
    <3>1. L \subseteq DOMAIN h.chunk /\ DOMAIN h.chunk \subseteq Nat /\ Apart(h.chunk) /\ prev \notin L
      BY <2>1, Inside, BlockUse DEF Sound, Shape
    <3>2. \A b \in DOMAIN h.chunk : prev <= b /\ b < a => b = prev
      BY <1>1, <2>1, <3>1 DEF Apart
    <3>3. \A b \in L : b \in prev .. next - 1 <=> b = a
      BY <1>1, <2>1, <2>2, <3>1, <3>2 DEF next
    <3> QED
      BY <3>3
  <2>4. CASE prev = h.dv
    <3> DEFINE k == NoVictim(h)
    <3>1. /\ Sound(k, L, {prev}) /\ k.chunk = h.chunk /\ k.segs = h.segs
      <4>1. {} \cup {prev} = {prev}
        OBVIOUS
      <4>2. Sound(k, L, {} \cup {h.dv}) /\ SameBut(k, h, {"dv", "dvsize"})
        BY <2>1, <2>4, VictimOut
      <4> QED
        BY <2>4, <4>1, <4>2 DEF SameBut, HeapFields
    <3> HIDE DEF k
    <3>2. prev \in {prev} /\ a = prev + k.chunk[prev].size
      BY <2>1, <3>1
    <3>3. Span(k, prev, a, L, {prev})
      BY <3>1, <3>2, LooseSpan
    <3>4. Span(k, a, next, L, {prev})
      <4>1. {} \subseteq {prev}
        OBVIOUS
      <4> QED
        BY <1>1, <3>1, <4>1, SpanLoose DEF next
    <3>5. Span(k, prev, next, L, {prev})
      BY <3>1, <3>3, <3>4, SpanJoin
    <3>6. Span(NoVictim(h), h.dv, next, L, {h.dv}) /\ h.dv # 0
      BY <2>1, <2>4, <3>5 DEF k
    <3>7. CASE h.chunk[next].cin
      <4> DEFINE m == next - prev
      <4>1. d.heap = SetFreeBefore([h EXCEPT !.dvsize = n + c.foot], prev, n + c.foot, next)
        BY <1>1, <1>2, <1>5, <2>4, <3>7, BlockUse DEF Dispose, Disposed, next, prev
      <4>2. d.heap = SetFreeBefore([h EXCEPT !.dvsize = m], prev, m, next)
        BY <2>2, <4>1
      <4> HIDE DEF m
      <4>3. m = next - prev
        BY DEF m
      <4>4. Frees(h, d.heap, L, L \ (prev .. next - 1))
        BY <2>1, <2>4, <3>6, <3>7, <4>2, <4>3, VictimGrows
      <4> QED
        BY <2>3, <4>4
    <3>8. CASE ~h.chunk[next].cin
      <4> DEFINE m == next - prev
      <4>1. d = Forward(h, prev, n + c.foot, next)
        BY <1>1, <1>2, <1>5, <2>4, <3>8 DEF Dispose, next, prev
      <4>2. d = Forward(h, prev, m, next)
        BY <2>2, <4>1
      <4> HIDE DEF m
      <4>3. m = next - prev
        BY DEF m
      <4>4. Frees(h, d.heap, L, L \ (prev .. next - 1))
        BY <2>1, <2>4, <3>6, <3>8, <4>2, <4>3, ForwardVictim
      <4> QED
        BY <2>3, <4>4
    <3> QED
      BY <3>7, <3>8
  <2>5. CASE prev # h.dv
    <3> DEFINE k == Unbin(h, prev, c.foot)
               m == next - prev
    <3>1. d = Forward(k, prev, m, next)
      <4>1. d = Forward(k, prev, n + c.foot, next)
        BY <1>1, <1>2, <1>5, <2>5 DEF Dispose, next, prev
      <4> QED
        BY <2>2, <4>1
    <3>2. prev \in Binned_(h.small, h.tree)
      BY <2>1, <2>5 DEF Sound, Placed
    <3>3. Sound(k, L, {prev}) /\ SameBut(k, h, {"small", "tree"})
      <4>1. Sound(k, L, {} \cup {prev}) /\ SameBut(k, h, {"small", "tree"})
        BY <2>1, <3>2, UnbinSound
      <4>2. {} \cup {prev} = {prev}
        OBVIOUS
      <4> QED
        BY <4>1, <4>2
    <3> HIDE DEF k, m
    <3>4. k.chunk = h.chunk /\ k.segs = h.segs
      BY <3>3 DEF SameBut, HeapFields
    <3>5. prev \in {prev} /\ a = prev + k.chunk[prev].size
      BY <2>1, <3>4
    <3>6. Span(k, prev, a, L, {prev})
      BY <3>3, <3>5, LooseSpan
    <3>7. Span(k, a, next, L, {prev})
      <4>1. {} \subseteq {prev}
        OBVIOUS
      <4> QED
        BY <1>1, <3>4, <4>1, SpanLoose DEF next
    <3>8. Span(k, prev, next, L, {prev})
      BY <3>3, <3>6, <3>7, SpanJoin
    <3>9. {prev} \subseteq prev .. next - 1 /\ m = next - prev
      BY <1>1, <2>1, <2>2 DEF m
    <3>10. Frees(k, d.heap, L, L \ (prev .. next - 1))
      BY <2>2, <3>1, <3>3, <3>4, <3>8, <3>9, ForwardSound
    <3>11. Frees(h, d.heap, L, L \ {a})
      BY <2>3, <3>3, <3>4, <3>10 DEF Frees, Spares, SameBut, FreeFields
    <3> QED
      BY <3>11
  <2> QED
    BY <2>4, <2>5
<1> QED
  BY <1>4, <1>5, <1>1, <1>2

\* The sizes of two chunks written one after the other.
LEMMA WritesSizes ==
  ASSUME NEW h, IsHeap(h), Heads(h.chunk), NEW p \in Nat \ {0},
         NEW n \in Nat \ {0}, NEW r \in Nat \ {0}, NEW g,
         \/ g = SetFree(SetInUsePart(h, p, n), p + n, r)
         \/ g = SetFree(SetInUse(h, p, n), p + n, r)
         \/ g = SetInUsePart(SetFree(h, p + n, r), p, n)
         \/ g = SetInUseWhole(SetInUse(h, p, n), p + n, r)
         \/ g = SetInUse(SetInUse(h, p + n, r), p, n)
  PROVE  /\ g.chunk[p].size = n /\ g.chunk[p + n].size = r /\ g.chunk[p].cin
         /\ p \in DOMAIN g.chunk /\ p + n \in DOMAIN g.chunk
<1> DEFINE q == p + n
           e == q + r
<1>1. q = p + n /\ e = q + r /\ q \in Nat \ {0} /\ q # p /\ p < q /\ p # q + r
  OBVIOUS
<1> HIDE DEF q, e
<1>2. ASSUME NEW k, k = SetInUse(h, p, n) \/ k = SetInUsePart(h, p, n),
             g = SetFree(k, q, r) \/ g = SetInUseWhole(k, q, r)
      PROVE  /\ g.chunk[p].size = n /\ g.chunk[q].size = r /\ g.chunk[p].cin
             /\ p \in DOMAIN g.chunk /\ q \in DOMAIN g.chunk
  <2>1. /\ IsHeap(k) /\ Heads(k.chunk) /\ Overwrites(h.chunk, k.chunk, p, n) /\ k.chunk[p].cin
    <3>1. CASE k = SetInUse(h, p, n)
      BY <1>1, <3>1, UseOf
    <3>2. CASE k = SetInUsePart(h, p, n)
      BY <1>1, <3>2, UsePartOf
    <3> QED
      BY <1>2, <3>1, <3>2
  <2>2. Overwrites(k.chunk, g.chunk, q, r)
    <3>1. CASE g = SetFree(k, q, r)
      BY <1>1, <2>1, <3>1, FreeOf
    <3>2. CASE g = SetInUseWhole(k, q, r)
      BY <1>1, <2>1, <3>2, UseWholeOf
    <3> QED
      BY <1>2, <3>1, <3>2
  <2> QED
    BY <1>1, <2>1, <2>2 DEF Overwrites
<1>3. ASSUME NEW k, k = SetInUse(h, q, r) \/ k = SetFree(h, q, r),
             g = SetInUse(k, p, n) \/ g = SetInUsePart(k, p, n)
      PROVE  /\ g.chunk[p].size = n /\ g.chunk[q].size = r /\ g.chunk[p].cin
             /\ p \in DOMAIN g.chunk /\ q \in DOMAIN g.chunk
  <2>1. /\ IsHeap(k) /\ Heads(k.chunk) /\ Overwrites(h.chunk, k.chunk, q, r)
    <3>1. CASE k = SetInUse(h, q, r)
      BY <1>1, <3>1, UseOf
    <3>2. CASE k = SetFree(h, q, r)
      BY <1>1, <3>2, FreeOf
    <3> QED
      BY <1>3, <3>1, <3>2
  <2>2. Overwrites(k.chunk, g.chunk, p, n) /\ g.chunk[p].cin
    <3>1. CASE g = SetInUse(k, p, n)
      BY <1>1, <2>1, <3>1, UseOf
    <3>2. CASE g = SetInUsePart(k, p, n)
      BY <1>1, <2>1, <3>2, UsePartOf
    <3> QED
      BY <1>3, <3>1, <3>2
  <2>3. q \in DOMAIN k.chunk /\ k.chunk[q].size = r
    BY <2>1 DEF Overwrites
  <2>4. q \in DOMAIN g.chunk /\ g.chunk[q].size = r /\ p \in DOMAIN g.chunk /\ g.chunk[p].size = n
    BY <1>1, <2>2, <2>3 DEF Overwrites
  <2> QED
    BY <2>2, <2>4
<1> QED
  BY <1>2, <1>3 DEF q

\* The first of two pieces, cut off in use, says so of the chunk below it.
LEMMA WritesPin ==
  ASSUME NEW h, IsHeap(h), Heads(h.chunk), NEW p \in Nat \ {0},
         NEW n \in Nat \ {0}, NEW r \in Nat \ {0}, NEW g,
         \/ g = SetFree(SetInUsePart(h, p, n), p + n, r)
         \/ g = SetInUsePart(SetFree(h, p + n, r), p, n)
  PROVE  g.chunk[p].pin
<1> DEFINE q == p + n
           e == q + r
<1>1. q = p + n /\ e = q + r /\ q \in Nat \ {0} /\ p < q /\ p # e
  OBVIOUS
<1> HIDE DEF q, e
<1>2. CASE g = SetFree(SetInUsePart(h, p, n), q, r)
  <2> DEFINE k == SetInUsePart(h, p, n)
  <2>1. /\ IsHeap(k) /\ Heads(k.chunk) /\ Overwrites(h.chunk, k.chunk, p, n) /\ k.chunk[p].pin
    BY <1>1, UsePartOf
  <2>2. g = SetFree(k, q, r)
    BY <1>2
  <2> HIDE DEF k
  <2>3. Overwrites(k.chunk, g.chunk, q, r)
    BY <1>1, <2>1, <2>2, FreeOf
  <2>4. p \in DOMAIN k.chunk
    BY <2>1 DEF Overwrites
  <2> QED
    BY <1>1, <2>1, <2>3, <2>4 DEF Overwrites
<1>3. CASE g = SetInUsePart(SetFree(h, q, r), p, n)
  <2> DEFINE k == SetFree(h, q, r)
  <2>1. IsHeap(k) /\ Heads(k.chunk)
    BY <1>1, FreeOf
  <2>2. g = SetInUsePart(k, p, n)
    BY <1>3
  <2> HIDE DEF k
  <2> QED
    BY <1>1, <2>1, <2>2, UsePartOf
<1> QED
  BY <1>1, <1>2, <1>3

\* The size of one.
LEMMA WriteSize ==
  ASSUME NEW h, IsHeap(h), Heads(h.chunk), NEW p \in Nat \ {0}, NEW n \in Nat \ {0}, NEW g,
         g = SetInUse(h, p, n) \/ g = SetInUseWhole(h, p, n)
  PROVE  g.chunk[p].size = n /\ g.chunk[p].cin /\ p \in DOMAIN g.chunk
<1> DEFINE e == p + n
<1>1. e = p + n
  OBVIOUS
<1> HIDE DEF e
<1>2. CASE g = SetInUse(h, p, n)
  <2>1. Overwrites(h.chunk, g.chunk, p, n) /\ g.chunk[p].cin
    BY <1>1, <1>2, UseOf
  <2> QED
    BY <2>1 DEF Overwrites
<1>3. CASE g = SetInUseWhole(h, p, n)
  <2>1. Overwrites(h.chunk, g.chunk, p, n) /\ g.chunk[p].cin
    BY <1>1, <1>3, UseWholeOf
  <2> QED
    BY <2>1 DEF Overwrites
<1> QED
  BY <1>2, <1>3

\* A loose chunk alone.
LEMMA LooseOne ==
  ASSUME NEW h, NEW L, NEW U, Sound(h, L, U), NEW a \in U, NEW e, e = a + h.chunk[a].size
  PROVE  L \ (a .. e - 1) = L /\ U \ (a .. e - 1) = U \ {a} /\ a \notin L
<1>1. /\ a \in Nat \ {0} /\ h.chunk[a].size \in Nat \ {0}
  BY LooseSpan
<1>2. /\ L \subseteq DOMAIN h.chunk /\ U \subseteq DOMAIN h.chunk /\ DOMAIN h.chunk \subseteq Nat
      /\ a \notin L /\ Apart(h.chunk)
  BY Inside DEF Sound, Shape
<1>3. \A b \in DOMAIN h.chunk : a <= b /\ b < e => b = a
  BY <1>1, <1>2 DEF Apart
<1> QED
  BY <1>1, <1>2, <1>3

\* What an allocation does: a block of at least n units more.
Gives(h, g, L, a, n) ==
  /\ Sound(g, L \cup {a}, {}) /\ a \notin L /\ a # 0
  /\ g.chunk[a].size >= n /\ g.chunk[a].cin /\ g.chunk[a].pin
  /\ Spares(h, g, L) /\ SameBut(g, h, FreeFields)

\* The whole of a loose chunk is handed out.
LEMMA UseWholeLoose ==
  ASSUME NEW h, NEW L, NEW a, Sound(h, L, {a}), NEW n \in Nat, n <= h.chunk[a].size,
         NEW g, g = SetInUseWhole(h, a, h.chunk[a].size)
  PROVE  Gives(h, g, L, a, n)
<1> DEFINE m == h.chunk[a].size
           e == a + m
<1>1. /\ a \in {a} /\ e = a + h.chunk[a].size
  OBVIOUS
<1>2. /\ Span(h, a, e, L, {a}) /\ a \in Nat \ {0} /\ m \in Nat \ {0} /\ h.chunk[a].pin
  BY <1>1, LooseSpan
<1>3. L \ (a .. e - 1) = L /\ {a} \ (a .. e - 1) = {} /\ a \notin L
  <2>1. L \ (a .. e - 1) = L /\ {a} \ (a .. e - 1) = {a} \ {a} /\ a \notin L
    BY <1>1, LooseOne
  <2> QED
    BY <2>1
<1>4. g = SetInUseWhole(h, a, m)
  OBVIOUS
<1>5. m = e - a
  BY <1>2
<1> HIDE DEF m, e
<1>6. Sound(g, (L \ (a .. e - 1)) \cup {a}, {a} \ (a .. e - 1))
  BY <1>2, <1>4, <1>5, UseSpanWhole
<1>7. Spares(h, g, L \ (a .. e - 1)) /\ SameBut(g, h, {"chunk"})
  BY <1>2, <1>4, <1>5, WriteSparesSpan
<1>8. g.chunk[a].size = m /\ g.chunk[a].cin /\ g.chunk[a].pin
  <2>1. IsHeap(h) /\ Heads(h.chunk)
    BY Inside
  <2>2. g.chunk[a].size = m /\ g.chunk[a].cin
    BY <1>2, <1>4, <2>1, WriteSize
  <2>3. g.chunk[a].pin
    BY <1>2, <1>4, <2>1, UseWholeOf
  <2> QED
    BY <2>2, <2>3
<1>9. g.chunk[a].size >= n
  BY <1>8 DEF m
<1> QED
  BY <1>2, <1>3, <1>6, <1>7, <1>8, <1>9 DEF Gives, SameBut, FreeFields

\* The front of one is, and the rest is loose.
LEMMA SplitLoose ==
  ASSUME NEW h, NEW L, NEW a, Sound(h, L, {a}), NEW n \in Nat, n >= MinChunk,
         NEW r \in Nat, r >= MinChunk, n + r = h.chunk[a].size,
         NEW g, \/ g = SetFree(SetInUsePart(h, a, n), a + n, r)
                \/ g = SetInUsePart(SetFree(h, a + n, r), a, n)
  PROVE  /\ Sound(g, L \cup {a}, {a + n}) /\ a \notin L /\ a # 0 /\ a \in Nat /\ a + n \in Nat \ {0}
         /\ g.chunk[a].size = n /\ g.chunk[a].cin /\ g.chunk[a].pin
         /\ g.chunk[a + n].size = r /\ Spares(h, g, L) /\ SameBut(g, h, {"chunk"})
<1> DEFINE m == h.chunk[a].size
           e == a + m
<1>1. /\ a \in {a} /\ e = a + h.chunk[a].size
  OBVIOUS
<1>2. /\ Span(h, a, e, L, {a}) /\ a \in Nat \ {0} /\ m \in Nat \ {0} /\ h.chunk[a].pin
      /\ h.chunk[e].cin /\ ~h.chunk[e].pin
  BY <1>1, LooseSpan
<1>3. L \ (a .. e - 1) = L /\ {a} \ (a .. e - 1) = {} /\ a \notin L
  <2>1. L \ (a .. e - 1) = L /\ {a} \ (a .. e - 1) = {a} \ {a} /\ a \notin L
    BY <1>1, LooseOne
  <2> QED
    BY <2>1
<1>4. a + n + r = e /\ n \in Nat \ {0} /\ r \in Nat \ {0}
  BY <1>2, Numbers
<1> HIDE DEF m, e
<1>5. Sound(g, (L \ (a .. e - 1)) \cup {a}, ({a} \ (a .. e - 1)) \cup {a + n})
  <2>1. CASE g = SetFree(SetInUsePart(h, a, n), a + n, r)
    BY <1>2, <1>4, <2>1, SplitSpan
  <2>2. CASE g = SetInUsePart(SetFree(h, a + n, r), a, n)
    BY <1>2, <1>4, <2>2, SplitVictim
  <2> QED
    BY <2>1, <2>2
<1>6. Spares(h, g, L \ (a .. e - 1)) /\ SameBut(g, h, {"chunk"})
  BY <1>2, <1>4, WritesSpareSpan
<1>7. g.chunk[a].size = n /\ g.chunk[a].cin /\ g.chunk[a + n].size = r
  BY <1>2, <1>4, Inside, WritesSizes, SMTT(30)
<1>8. (L \ (a .. e - 1)) \cup {a} = L \cup {a} /\ ({a} \ (a .. e - 1)) \cup {a + n} = {a + n}
  BY <1>3
<1>9. Sound(g, L \cup {a}, {a + n}) /\ Spares(h, g, L)
  BY <1>3, <1>5, <1>6, <1>8
<1>10. a + n \in Nat \ {0}
  BY <1>2
<1>11. g.chunk[a].pin
  <2>1. IsHeap(h) /\ Heads(h.chunk)
    BY Inside
  <2> QED
    BY <1>2, <1>4, <2>1, WritesPin
<1> QED
  BY <1>2, <1>3, <1>6, <1>7, <1>9, <1>10, <1>11

\* The bins and the victim may change before a chunk is handed out, and after.
LEMMA GivesAfter ==
  ASSUME NEW h, NEW k, NEW g, NEW L, NEW a, NEW n, SameBut(k, h, FreeFields), k.chunk = h.chunk,
         Gives(k, g, L, a, n)
  PROVE  Gives(h, g, L, a, n)
BY DEF Gives, Spares, SameBut

\* The remainder of a small split becomes the victim.
LEMMA SplitToDvSound ==
  ASSUME NEW h, NEW L, NEW a, Sound(h, L, {a}), NEW n \in Nat, n >= MinChunk, n <= h.chunk[a].size,
         NEW g, g = SplitToDv(h, a, n)
  PROVE  Gives(h, g, L, a, n)
<1> DEFINE rest == h.chunk[a].size - n
<1>1. h.chunk[a].size \in Nat /\ rest \in Nat /\ n + rest = h.chunk[a].size
  BY LooseSpan
<1>2. CASE rest < MinChunk
  <2>1. g = SetInUseWhole(h, a, h.chunk[a].size)
    BY <1>2 DEF SplitToDv, SizeOf
  <2> QED
    BY <2>1, UseWholeLoose
<1>3. CASE ~(rest < MinChunk)
  <2> DEFINE k == SetFree(SetInUsePart(h, a, n), a + n, rest)
  <2>1. g = ReplaceDv(k, a + n, rest)
    BY <1>3 DEF SplitToDv, SizeOf
  <2>2. rest >= MinChunk
    BY <1>1, <1>3, Numbers
  <2> HIDE DEF rest
  <2>3. /\ Sound(k, L \cup {a}, {a + n}) /\ a \notin L /\ a # 0
        /\ k.chunk[a].size = n /\ k.chunk[a].cin /\ k.chunk[a].pin
        /\ k.chunk[a + n].size = rest /\ Spares(h, k, L) /\ SameBut(k, h, {"chunk"})
    BY <1>1, <2>2, SplitLoose
  <2> HIDE DEF k
  <2>4. /\ Sound(g, L \cup {a}, {a + n} \ {a + n}) /\ SameBut(g, k, {"small", "tree", "dv", "dvsize"})
    BY <2>1, <2>3, ReplaceDvSound
  <2>5. {a + n} \ {a + n} = {} /\ g.chunk = k.chunk /\ n >= n
    BY <2>4 DEF SameBut, HeapFields
  <2>6. SameBut(g, h, FreeFields)
    BY <2>3, <2>4 DEF SameBut, HeapFields, FreeFields
  <2> QED
    BY <2>3, <2>4, <2>5, <2>6 DEF Gives, Spares
<1> QED
  BY <1>2, <1>3

\* That of a large split goes into its bin.
LEMMA SplitToBinSound ==
  ASSUME NEW h, NEW L, NEW a, Sound(h, L, {a}), NEW n \in Nat, n >= MinChunk, n <= h.chunk[a].size,
         NEW g, g = SplitToBin(h, a, n)
  PROVE  Gives(h, g, L, a, n)
<1> DEFINE rest == h.chunk[a].size - n
<1>1. h.chunk[a].size \in Nat /\ rest \in Nat /\ n + rest = h.chunk[a].size
  BY LooseSpan
<1>2. CASE rest < MinChunk
  <2>1. g = SetInUseWhole(h, a, h.chunk[a].size)
    BY <1>2 DEF SplitToBin, SizeOf
  <2> QED
    BY <2>1, UseWholeLoose
<1>3. CASE ~(rest < MinChunk)
  <2> DEFINE k == SetFree(SetInUsePart(h, a, n), a + n, rest)
  <2>1. g = Bin(k, a + n, rest)
    BY <1>3 DEF SplitToBin, SizeOf
  <2>2. rest >= MinChunk
    BY <1>1, <1>3, Numbers
  <2> HIDE DEF rest
  <2>3. /\ Sound(k, L \cup {a}, {a + n}) /\ a \notin L /\ a # 0
        /\ k.chunk[a].size = n /\ k.chunk[a].cin /\ k.chunk[a].pin
        /\ k.chunk[a + n].size = rest /\ Spares(h, k, L) /\ SameBut(k, h, {"chunk"})
    BY <1>1, <2>2, SplitLoose
  <2> HIDE DEF k
  <2>4. /\ Sound(g, L \cup {a}, {a + n} \ {a + n}) /\ SameBut(g, k, {"small", "tree"})
    BY <2>1, <2>3, BinSound
  <2>5. {a + n} \ {a + n} = {} /\ g.chunk = k.chunk /\ n >= n
    BY <2>4 DEF SameBut, HeapFields
  <2>6. SameBut(g, h, FreeFields)
    BY <2>3, <2>4 DEF SameBut, HeapFields, FreeFields
  <2> QED
    BY <2>3, <2>4, <2>5, <2>6 DEF Gives, Spares
<1> QED
  BY <1>2, <1>3

\* A binned chunk that is large enough is handed out.
LEMMA FromBinned ==
  ASSUME NEW h, NEW L, Sound(h, L, {}), NEW a \in Binned_(h.small, h.tree),
         NEW m, m = h.chunk[a].size, NEW n \in Nat, n >= MinChunk, n <= m,
         NEW g, g = SplitToDv(Unbin(h, a, m), a, n) \/ g = SplitToBin(Unbin(h, a, m), a, n)
  PROVE  Gives(h, g, L, a, n)
<1> DEFINE k == Unbin(h, a, m)
<1>1. Sound(k, L, {a}) /\ SameBut(k, h, {"small", "tree"})
  <2>1. Sound(k, L, {} \cup {a}) /\ SameBut(k, h, {"small", "tree"})
    BY UnbinSound
  <2>2. {} \cup {a} = {a}
    OBVIOUS
  <2> QED
    BY <2>1, <2>2
<1> HIDE DEF k
<1>2. k.chunk = h.chunk /\ SameBut(k, h, FreeFields)
  BY <1>1 DEF SameBut, HeapFields, FreeFields
<1>3. n <= k.chunk[a].size
  BY <1>2
<1>4. Gives(k, g, L, a, n)
  <2>1. CASE g = SplitToDv(k, a, n)
    BY <1>1, <1>3, <2>1, SplitToDvSound
  <2>2. CASE g = SplitToBin(k, a, n)
    BY <1>1, <1>3, <2>2, SplitToBinSound
  <2> QED
    BY <2>1, <2>2 DEF k
<1> QED
  BY <1>2, <1>4, GivesAfter

\* The victim is large enough, and all or part of it is handed out.
LEMMA FromDvSound ==
  ASSUME NEW h, NEW L, Sound(h, L, {}), NEW n \in Nat, n >= MinChunk, n <= h.dvsize,
         NEW o, o = FromDv(h, n)
  PROVE  Gives(h, o.heap, L, o.at, n)
<1> DEFINE k == NoVictim(h)
           p == h.dv
           rest == h.dvsize - n
<1>1. h.dv # 0
  <2>1. h.dv = 0 => h.dvsize = 0
    BY DEF Sound, Sizes
  <2>2. h.dvsize # 0
    BY Numbers
  <2> QED
    BY <2>1, <2>2
<1>2. /\ Sound(k, L, {p}) /\ SameBut(k, h, {"dv", "dvsize"}) /\ h.dvsize = h.chunk[p].size
  <2>1. {} \cup {p} = {p}
    OBVIOUS
  <2>2. Sound(k, L, {} \cup {p}) /\ SameBut(k, h, {"dv", "dvsize"}) /\ h.dvsize = h.chunk[p].size
    BY <1>1, VictimOut
  <2> QED
    BY <2>1, <2>2
<1>3. IsHeap(h) /\ IsHeap(k) /\ k.chunk = h.chunk /\ k.dv = 0 /\ SameBut(k, h, FreeFields)
  BY <1>2, Inside DEF SameBut, HeapFields, NoVictim, IsHeap, FreeFields
<1>4. p \in Nat \ {0} /\ k.chunk[p].size \in Nat
  <2>1. p \in {p}
    OBVIOUS
  <2> HIDE DEF k, p
  <2> QED
    BY <1>2, <2>1, LooseSpan
<1>5. o.at = p
  BY DEF FromDv, Outcome
<1>6. CASE rest < MinChunk
  <2>1. ~(rest >= MinChunk)
    BY <1>2, <1>3, <1>4, <1>6, Numbers
  <2>2. o.heap = SetInUseWhole(k, p, k.chunk[p].size)
    BY <1>2, <1>3, <2>1 DEF FromDv, Outcome, NoVictim
  <2>3. n <= k.chunk[p].size
    BY <1>2, <1>3
  <2> HIDE DEF k, p
  <2>4. Gives(k, o.heap, L, p, n)
    BY <1>2, <2>2, <2>3, UseWholeLoose
  <2> QED
    BY <1>3, <1>5, <2>4, GivesAfter
<1>7. CASE ~(rest < MinChunk)
  <2> DEFINE j == [h EXCEPT !.dv = p + n, !.dvsize = rest]
             f == SetInUsePart(SetFree(k, p + n, rest), p, n)
             g == SetInUsePart(SetFree(j, p + n, rest), p, n)
  <2>1. rest >= MinChunk /\ rest \in Nat /\ n + rest = k.chunk[p].size
    BY <1>2, <1>3, <1>4, <1>7, Numbers
  <2>2. o.heap = g
    BY <2>1 DEF FromDv, Outcome
  <2>3. /\ IsHeap(j) /\ j.chunk = h.chunk /\ j.dv = p + n /\ j.dvsize = rest
        /\ SameBut(j, h, {"dv", "dvsize"})
    BY <1>3 DEF IsHeap, HeapFields, SameBut
  <2> HIDE DEF k, p, rest, j
  <2>4. /\ Sound(f, L \cup {p}, {p + n}) /\ p \notin L /\ p # 0
        /\ f.chunk[p].size = n /\ f.chunk[p].cin /\ f.chunk[p].pin
        /\ f.chunk[p + n].size = rest /\ Spares(k, f, L) /\ SameBut(f, k, {"chunk"})
    BY <1>2, <2>1, SplitLoose
  <2>5. SameChunks(g, f)
    <3>1. SameChunks(j, k)
      BY <1>3, <2>3 DEF SameChunks
    <3>2. SameChunks(SetFree(j, p + n, rest), SetFree(k, p + n, rest))
      BY <3>1, WritesSame
    <3> QED
      BY <3>2, WritesSame
  <2>6. SameBut(g, j, {"chunk"})
    <3>1. n \in Nat \ {0} /\ rest \in Nat \ {0} /\ p + n \in Nat \ {0} /\ {} \subseteq DOMAIN j.chunk
      BY <1>4, <2>1, Numbers
    <3>2. Heads(j.chunk)
      BY <2>3, Inside
    <3> DEFINE q == p + n
               e == q + rest
               i == SetFree(j, q, rest)
    <3>3. e = q + rest /\ q = p + n
      OBVIOUS
    <3> HIDE DEF q, e
    <3>4. SameBut(i, j, {"chunk"}) /\ IsHeap(i) /\ Heads(i.chunk)
      BY <2>3, <3>1, <3>2, <3>3, FreeOf
    <3> HIDE DEF i
    <3>5. SameBut(SetInUsePart(i, p, n), i, {"chunk"})
      BY <1>4, <3>1, <3>3, <3>4, UsePartOf
    <3> QED
      BY <3>3, <3>4, <3>5 DEF SameBut, i
  <2> HIDE DEF f, g
  <2>7. /\ Sound(Victim(f, p + n, rest), L \cup {p}, {p + n} \ {p + n})
        /\ SameBut(Victim(f, p + n, rest), f, {"dv", "dvsize"})
    <3>1. f.dv = 0 /\ p + n \in {p + n}
      BY <1>3, <2>4 DEF SameBut, HeapFields
    <3> QED
      BY <2>4, <3>1, VictimIn
  <2>8. g = Victim(f, p + n, rest)
    <3> DEFINE x == Victim(f, p + n, rest)
    <3>1. /\ IsHeap(x) /\ x.dv = p + n /\ x.dvsize = rest /\ x.chunk = f.chunk
      <4>1. IsHeap(f)
        BY <2>4 DEF SameBut
      <4> QED
        BY <4>1 DEF Victim, IsHeap, HeapFields
    <3>2. SameBut(x, h, {"chunk", "dv", "dvsize"})
      BY <1>2, <2>4, <2>7 DEF SameBut, HeapFields
    <3>3. SameBut(g, h, {"chunk", "dv", "dvsize"}) /\ g.dv = p + n /\ g.dvsize = rest
      BY <2>3, <2>6 DEF SameBut, HeapFields
    <3>4. SameChunks(g, x)
      BY <2>5, <3>1 DEF SameChunks
    <3> HIDE DEF x
    <3>5. g = x
      BY <3>1, <3>2, <3>3, <3>4, VictimSame
    <3> QED
      BY <3>5 DEF x
  <2>9. g.chunk = f.chunk /\ SameBut(g, k, FreeFields) /\ {p + n} \ {p + n} = {} /\ n >= n
    BY <2>4, <2>7, <2>8 DEF SameBut, HeapFields, FreeFields
  <2>10. Gives(k, g, L, p, n)
    BY <2>4, <2>7, <2>8, <2>9 DEF Gives, Spares
  <2> QED
    BY <1>3, <1>5, <2>2, <2>10, GivesAfter
<1> QED
  BY <1>6, <1>7

----------------------------------------------------------------------------
(* Granules.                                                               *)

\* Dividing a multiple gives the factor back.
LEMMA Quotient ==
  ASSUME NEW k \in Nat, NEW g \in Nat \ {0}
  PROVE  (k * g) \div g = k
BY SMTT(30)

\* The granules of a region of whole granules.
LEMMA GranulesAre ==
  ASSUME NEW b, NEW s, Whole(b), Whole(s)
  PROVE  \E k, m \in Nat \ {0} :
            /\ b = k * Granule /\ s = m * Granule /\ GranulesOf(b, s) = k .. (k + m - 1)
            /\ IsFiniteSet(GranulesOf(b, s)) /\ Cardinality(GranulesOf(b, s)) = m
<1>1. PICK k \in Nat \ {0} : b = k * Granule
  BY DEF Whole
<1>2. PICK m \in Nat \ {0} : s = m * Granule
  BY DEF Whole
<1>3. b + s = (k + m) * Granule /\ k + m \in Nat /\ k \in Nat
  BY <1>1, <1>2, Numbers
<1>4. b \div Granule = k /\ (b + s) \div Granule = k + m
  BY <1>1, <1>3, Numbers, Quotient
<1>5. GranulesOf(b, s) = k .. (k + m - 1)
  BY <1>4 DEF GranulesOf
<1>6. /\ IsFiniteSet(k .. (k + m - 1)) /\ k <= k + m - 1
      /\ Cardinality(k .. (k + m - 1)) = IF k > k + m - 1 THEN 0 ELSE (k + m - 1) - k + 1
  BY FS_Interval
<1>7. Cardinality(k .. (k + m - 1)) = m
  BY <1>6
<1> QED
  BY <1>1, <1>2, <1>5, <1>6, <1>7

\* Multiples are ordered as their factors are.
LEMMA Products ==
  ASSUME NEW k \in Nat, NEW m \in Nat, NEW g \in Nat \ {0}
  PROVE  /\ k <= m => k * g <= m * g
         /\ k * g \in Nat /\ k * g + m * g = (k + m) * g
         /\ k * g <= m * g => k <= m
<1>1. k * g \in Nat /\ k * g + m * g = (k + m) * g
  BY SMTT(30)
<1>2. ASSUME k <= m PROVE k * g <= m * g
  BY <1>2, SMTT(30)
<1>3. ASSUME m < k PROVE m * g < k * g
  <2>1. m * g + g <= k * g
    BY <1>3, SMTT(30)
  <2>2. m * g \in Nat /\ k * g \in Nat
    BY SMTT(30)
  <2> QED
    BY <2>1, <2>2
<1>4. ASSUME k * g <= m * g PROVE k <= m
  <2>1. m * g \in Nat /\ k * g \in Nat
    BY SMTT(30)
  <2> QED
    BY <1>3, <1>4, <2>1
<1> QED
  BY <1>1, <1>2, <1>4

\* Regions with different granules do not overlap.
LEMMA GranulesApart ==
  ASSUME NEW b, NEW s, NEW c, NEW t, Whole(b), Whole(s), Whole(c), Whole(t)
  PROVE  /\ b \in Nat \ {0} /\ s \in Nat \ {0} /\ c \in Nat \ {0} /\ t \in Nat \ {0}
         /\ GranulesOf(b, s) \cap GranulesOf(c, t) = {} <=> b + s <= c \/ c + t <= b
<1>1. PICK k, m \in Nat \ {0} : /\ b = k * Granule /\ s = m * Granule
                                /\ GranulesOf(b, s) = k .. (k + m - 1)
  BY GranulesAre
<1>2. PICK i, j \in Nat \ {0} : /\ c = i * Granule /\ t = j * Granule
                                /\ GranulesOf(c, t) = i .. (i + j - 1)
  BY GranulesAre
<1>3. b + s = (k + m) * Granule /\ c + t = (i + j) * Granule /\ k + m \in Nat /\ i + j \in Nat
  BY <1>1, <1>2, Numbers, Products
<1>4. (b + s <= c <=> k + m <= i) /\ (c + t <= b <=> i + j <= k)
  BY <1>1, <1>2, <1>3, Numbers, Products
<1>5. (k .. (k + m - 1)) \cap (i .. (i + j - 1)) = {} <=> k + m <= i \/ i + j <= k
  <2>1. ASSUME k + m <= i \/ i + j <= k
        PROVE  (k .. (k + m - 1)) \cap (i .. (i + j - 1)) = {}
    BY <2>1
  <2>2. ASSUME ~(k + m <= i), ~(i + j <= k)
        PROVE  (k .. (k + m - 1)) \cap (i .. (i + j - 1)) # {}
    <3>1. CASE k <= i
      <4>1. i \in k .. (k + m - 1) /\ i \in i .. (i + j - 1)
        BY <2>2, <3>1
      <4> QED
        BY <4>1
    <3>2. CASE i < k
      <4>1. k \in k .. (k + m - 1) /\ k \in i .. (i + j - 1)
        BY <2>2, <3>2
      <4> QED
        BY <4>1
    <3> QED
      BY <3>1, <3>2
  <2> QED
    BY <2>1, <2>2
<1>6. b \in Nat \ {0} /\ s \in Nat \ {0} /\ c \in Nat \ {0} /\ t \in Nat \ {0}
  <2>1. \A x \in Nat \ {0} : x * Granule \in Nat \ {0}
    BY Numbers, SMTT(30)
  <2> QED
    BY <1>1, <1>2, <2>1
<1> QED
  BY <1>1, <1>2, <1>4, <1>5, <1>6

\* What the system lends is counted in whole granules.
LEMMA LessBacked ==
  ASSUME NEW backed, backed \subseteq Space, NEW b, NEW s, Whole(b), Whole(s),
         GranulesOf(b, s) \subseteq backed
  PROVE  /\ Granule * Cardinality(backed) - s = Granule * Cardinality(backed \ GranulesOf(b, s))
         /\ Granule * Cardinality(backed) \in Nat /\ s \in Nat \ {0}
         /\ Granule * Cardinality(backed) - s \in Nat
<1>1. PICK k, m \in Nat \ {0} : /\ b = k * Granule /\ s = m * Granule
                                /\ IsFiniteSet(GranulesOf(b, s)) /\ Cardinality(GranulesOf(b, s)) = m
  BY GranulesAre
<1>2. IsFiniteSet(backed)
  BY HeapAssumption, FS_Subset
<1>3. backed \cap GranulesOf(b, s) = GranulesOf(b, s)
  OBVIOUS
<1> DEFINE x == Cardinality(backed)
           y == Cardinality(backed \ GranulesOf(b, s))
<1>4. y = x - m /\ x \in Nat
  <2>1. y = x - Cardinality(backed \cap GranulesOf(b, s))
    BY <1>2, FS_Difference
  <2>2. Cardinality(backed \cap GranulesOf(b, s)) = m
    BY <1>1, <1>3
  <2>3. x \in Nat
    BY <1>2, FS_CardinalityType
  <2> QED
    BY <2>1, <2>2, <2>3
<1>5. y \in Nat
  BY <1>2, FS_Difference, FS_CardinalityType
<1> HIDE DEF x, y
<1>6. x = y + m
  BY <1>1, <1>4, <1>5
<1>7. /\ Granule * x = x * Granule /\ Granule * y = y * Granule
      /\ y * Granule + m * Granule = x * Granule /\ x * Granule \in Nat /\ y * Granule \in Nat
      /\ m * Granule \in Nat \ {0}
  BY <1>1, <1>4, <1>5, <1>6, Numbers, Products, SMTT(30)
<1>8. Granule * x - s = Granule * y
  BY <1>1, <1>7
<1> QED
  BY <1>1, <1>7, <1>8 DEF x, y

\* New granules count once in the footprint.
LEMMA MoreBacked ==
  ASSUME NEW backed, backed \subseteq Space, NEW b, NEW s, Whole(b), Whole(s),
         GranulesOf(b, s) \subseteq Space \ backed
  PROVE  /\ Granule * Cardinality(backed) + s = Granule * Cardinality(backed \cup GranulesOf(b, s))
         /\ Granule * Cardinality(backed) \in Nat /\ s \in Nat \ {0}
<1>1. PICK k, m \in Nat \ {0} : /\ b = k * Granule /\ s = m * Granule
                                /\ IsFiniteSet(GranulesOf(b, s)) /\ Cardinality(GranulesOf(b, s)) = m
  BY GranulesAre
<1>2. IsFiniteSet(backed)
  BY HeapAssumption, FS_Subset
<1>3. backed \cap GranulesOf(b, s) = {}
  OBVIOUS
<1> DEFINE x == Cardinality(backed)
           y == Cardinality(backed \cup GranulesOf(b, s))
<1>4. y = x + m - Cardinality({}) /\ x \in Nat
  BY <1>1, <1>2, <1>3, FS_Union, FS_CardinalityType
<1>5. Cardinality({}) = 0
  BY FS_EmptySet
<1> HIDE DEF x, y
<1>6. y = x + m
  BY <1>1, <1>4, <1>5
<1>7. /\ Granule * x = x * Granule /\ Granule * y = y * Granule
      /\ x * Granule + m * Granule = y * Granule /\ x * Granule \in Nat
      /\ m * Granule \in Nat \ {0}
  BY <1>1, <1>4, <1>6, Numbers, Products, SMTT(30)
<1>8. Granule * x + s = Granule * y
  BY <1>1, <1>7
<1> QED
  BY <1>1, <1>7, <1>8 DEF x, y

\* Rounding up to granules.
LEMMA RoundedUp ==
  ASSUME NEW x \in Nat \ {0}, NEW y, y = RoundUp(x, Granule)
  PROVE  Whole(y) /\ y >= x /\ y < x + Granule
<1> DEFINE z == x + Granule - 1
           q == z \div Granule
<1>1. z \in Nat /\ y = q * Granule /\ Granule \in Nat \ {0} /\ z >= Granule
  BY Numbers DEF RoundUp
<1>2. q \in Nat /\ q * Granule <= z /\ z < q * Granule + Granule
  <2> HIDE DEF z
  <2> QED
    BY <1>1, SMTT(30)
<1> HIDE DEF q
<1>3. q # 0
  BY <1>1, <1>2
<1>4. Whole(y)
  BY <1>1, <1>2, <1>3 DEF Whole
<1>5. q * Granule \in Nat
  BY <1>1, <1>2, Products
<1> QED
  BY <1>1, <1>2, <1>4, <1>5

\* Sums and differences of whole numbers of granules.
LEMMA WholeSum ==
  ASSUME NEW x, NEW y, Whole(x), Whole(y)
  PROVE  /\ Whole(x + y) /\ x \in Nat \ {0} /\ y \in Nat \ {0}
         /\ x < y => Whole(y - x)
<1>1. PICK k \in Nat \ {0} : x = k * Granule
  BY DEF Whole
<1>2. PICK m \in Nat \ {0} : y = m * Granule
  BY DEF Whole
<1>3. x + y = (k + m) * Granule /\ x \in Nat /\ y \in Nat
  BY <1>1, <1>2, Numbers, Products
<1>4. Whole(x + y)
  BY <1>3 DEF Whole
<1>5. x # 0 /\ y # 0
  BY <1>1, <1>2, Numbers, SMTT(30)
<1>6. ASSUME x < y PROVE Whole(y - x)
  <2>1. k < m
    <3>1. ~(m * Granule <= k * Granule)
      BY <1>1, <1>2, <1>3, <1>6
    <3>2. ~(m <= k)
      BY <3>1, Numbers, Products
    <3> QED
      BY <3>2
  <2>2. m - k \in Nat \ {0} /\ k \in Nat /\ m = (m - k) + k
    BY <2>1
  <2>3. (m - k) * Granule + k * Granule = ((m - k) + k) * Granule /\ (m - k) * Granule \in Nat
    BY <2>2, Numbers, Products
  <2>4. y - x = (m - k) * Granule
    BY <1>1, <1>2, <1>3, <2>2, <2>3
  <2> QED
    BY <2>2, <2>4 DEF Whole
<1> QED
  BY <1>3, <1>4, <1>5, <1>6

----------------------------------------------------------------------------
(* Mappings of their own.                                                  *)

\* A chunk of a segment ends in it.
LEMMA ChunkInside ==
  ASSUME NEW h, NEW L, NEW U, Sound(h, L, U), NEW a \in InHeap(h.chunk),
         NEW i \in DOMAIN h.segs, Holds(h.segs[i], a)
  PROVE  a + h.chunk[a].size < End(h.segs[i]) /\ a + h.chunk[a].size \in Nat
<1>1. /\ Shape(h.chunk, h.segs, h.top, h.state) /\ Segments(h.segs) /\ Heads(h.chunk)
      /\ Ends(h.chunk, h.segs, h.top, h.state) /\ Linked(h.chunk, h.segs, h.top, h.state)
  BY DEF Sound, Shape
<1>2. /\ a \in Nat /\ h.chunk[a].size \in Nat /\ End(h.segs[i]) \in Nat
      /\ h.segs[i].base \in Nat /\ h.segs[i].size \in Nat
      /\ End(h.segs[i]) = h.segs[i].base + h.segs[i].size
  BY <1>1, ChunkFields, SegmentFields DEF InHeap
<1>3. CASE a # LastOf(h.segs, i, h.top)
  BY <1>1, <1>2, <1>3 DEF Linked, Holds
<1>4. CASE a = LastOf(h.segs, i, h.top)
  <2>1. CASE i = 1
    <3>1. a = h.top
      BY <1>4, <2>1 DEF LastOf
    <3>2. a + h.chunk[a].size = End(h.segs[1]) - TopFoot
      BY <1>1, <3>1 DEF Ends
    <3> QED
      BY <1>2, <2>1, <3>2, Numbers
  <2>2. CASE i # 1
    <3>1. i \in 2 .. Len(h.segs) /\ a = h.segs[i].rec
      BY <1>1, <1>4, <2>2, SegmentFields DEF LastOf
    <3>2. h.chunk[a].size = SegmentChunk /\ a + TopFoot <= End(h.segs[i])
      BY <1>1, <3>1 DEF Ends
    <3> QED
      BY <1>2, <3>2, Numbers
  <2> QED
    BY <2>1, <2>2
<1> QED
  BY <1>2, <1>3, <1>4

\* The region of a mapping.
LEMMA MappingFields ==
  ASSUME NEW h, NEW L, NEW U, Sound(h, L, U), NEW a \in Maps(h.chunk)
  PROVE  /\ a \in L /\ a \in DOMAIN h.chunk /\ a \notin InHeap(h.chunk) /\ a \in Nat \ {0}
         /\ h.chunk[a].size \in Nat \ {0} /\ h.chunk[a].foot \in Nat
         /\ Whole(MapBase(h.chunk, a)) /\ Whole(MapLength(h.chunk, a))
         /\ MapBase(h.chunk, a) \in Nat \ {0} /\ MapLength(h.chunk, a) \in Nat \ {0}
         /\ MapBase(h.chunk, a) <= a
         /\ a + h.chunk[a].size < MapBase(h.chunk, a) + MapLength(h.chunk, a)
         /\ GranulesOf(MapBase(h.chunk, a), MapLength(h.chunk, a)) \subseteq h.backed
<1>1. a \in DOMAIN h.chunk /\ ~h.chunk[a].cin /\ ~h.chunk[a].pin
  BY DEF Maps
<1>2. a \in Nat \ {0} /\ h.chunk[a].size \in Nat \ {0} /\ h.chunk[a].foot \in Nat
  BY <1>1, ChunkFields, Inside
<1>3. a \notin InHeap(h.chunk)
  BY <1>1 DEF InHeap
<1>4. a \in L
  <2>1. h.state \in InHeap(h.chunk) /\ Records_(h.segs) \subseteq InHeap(h.chunk)
    BY DEF Sound, Shape, Ends, Records_
  <2>2. a \in L \cup {h.state} \cup Records_(h.segs)
    BY <1>1 DEF Sound, Owned
  <2> QED
    BY <1>3, <2>1, <2>2
<1>5. /\ Whole(MapBase(h.chunk, a)) /\ Whole(MapLength(h.chunk, a))
      /\ GranulesOf(MapBase(h.chunk, a), MapLength(h.chunk, a)) \subseteq h.backed
  BY DEF Sound, Lent
<1>6. MapBase(h.chunk, a) \in Nat \ {0} /\ MapLength(h.chunk, a) \in Nat \ {0}
  BY <1>5, WholeSum
<1>7. /\ MapBase(h.chunk, a) <= a
      /\ a + h.chunk[a].size < MapBase(h.chunk, a) + MapLength(h.chunk, a)
  BY <1>2, <1>6, Numbers DEF MapBase, MapLength
<1> QED
  BY <1>1, <1>2, <1>3, <1>4, <1>5, <1>6, <1>7

\* A region that the system has not lent touches nothing of the space.
LEMMA FreshRegion ==
  ASSUME NEW h, NEW L, NEW U, Sound(h, L, U), NEW b, NEW s, Whole(b), Whole(s),
         GranulesOf(b, s) \cap h.backed = {}
  PROVE  /\ b \in Nat \ {0} /\ s \in Nat \ {0}
         /\ \A i \in DOMAIN h.segs : End(h.segs[i]) <= b \/ b + s <= h.segs[i].base
         /\ \A a \in Maps(h.chunk) :
              \/ MapBase(h.chunk, a) + MapLength(h.chunk, a) <= b \/ b + s <= MapBase(h.chunk, a)
         /\ \A a \in DOMAIN h.chunk : a + h.chunk[a].size < b \/ b + s <= a
<1>1. Segments(h.segs) /\ Lent(h.chunk, h.segs, h.backed, h.footprint) /\ Heads(h.chunk)
  BY DEF Sound, Shape
<1>2. b \in Nat \ {0} /\ s \in Nat \ {0}
  BY WholeSum
<1>3. ASSUME NEW i \in DOMAIN h.segs
      PROVE  End(h.segs[i]) <= b \/ b + s <= h.segs[i].base
  <2>1. /\ Whole(h.segs[i].base) /\ Whole(h.segs[i].size)
        /\ GranulesOf(h.segs[i].base, h.segs[i].size) \subseteq h.backed
    BY <1>1 DEF Lent
  <2>2. GranulesOf(h.segs[i].base, h.segs[i].size) \cap GranulesOf(b, s) = {}
    BY <2>1
  <2>3. h.segs[i].base + h.segs[i].size <= b \/ b + s <= h.segs[i].base
    BY <2>1, <2>2, GranulesApart
  <2> QED
    BY <2>3 DEF End
<1>4. ASSUME NEW a \in Maps(h.chunk)
      PROVE  \/ MapBase(h.chunk, a) + MapLength(h.chunk, a) <= b \/ b + s <= MapBase(h.chunk, a)
  <2> DEFINE x == MapBase(h.chunk, a)
             y == MapLength(h.chunk, a)
  <2>1. Whole(x) /\ Whole(y) /\ GranulesOf(x, y) \subseteq h.backed
    BY MappingFields
  <2>2. GranulesOf(x, y) \cap GranulesOf(b, s) = {}
    BY <2>1
  <2> HIDE DEF x, y
  <2>3. x + y <= b \/ b + s <= x
    BY <2>1, <2>2, GranulesApart
  <2> QED
    BY <2>3 DEF x, y
<1>5. ASSUME NEW a \in DOMAIN h.chunk
      PROVE  a + h.chunk[a].size < b \/ b + s <= a
  <2>0. a \in Nat /\ h.chunk[a].size \in Nat
    BY <1>1, ChunkFields
  <2>1. CASE a \in InHeap(h.chunk)
    <3>1. PICK i \in DOMAIN h.segs : Holds(h.segs[i], a)
      BY <2>1 DEF Sound, Shape
    <3>2. /\ h.segs[i].base \in Nat /\ h.segs[i].size \in Nat
          /\ End(h.segs[i]) = h.segs[i].base + h.segs[i].size
      BY <1>1, SegmentFields
    <3>3. a + h.chunk[a].size < End(h.segs[i]) /\ h.segs[i].base <= a
      BY <2>1, <3>1, ChunkInside DEF Holds
    <3> QED
      BY <1>2, <1>3, <2>0, <3>2, <3>3
  <2>2. CASE a \notin InHeap(h.chunk)
    <3>1. a \in Maps(h.chunk)
      BY <2>2 DEF Maps, InHeap
    <3>2. /\ MapBase(h.chunk, a) \in Nat \ {0} /\ MapLength(h.chunk, a) \in Nat \ {0}
          /\ MapBase(h.chunk, a) <= a
          /\ a + h.chunk[a].size < MapBase(h.chunk, a) + MapLength(h.chunk, a)
      BY <3>1, MappingFields
    <3>3. MapBase(h.chunk, a) + MapLength(h.chunk, a) <= b \/ b + s <= MapBase(h.chunk, a)
      BY <1>4, <3>1
    <3> QED
      BY <1>2, <2>0, <3>2, <3>3
  <2> QED
    BY <2>1, <2>2
<1> QED
  BY <1>2, <1>3, <1>4, <1>5

\* Mappings may come, go and move outside the segments.
LEMMA SoundMaps ==
  ASSUME NEW h, NEW g, NEW L, NEW U, Sound(h, L, U),
         SameBut(g, h, {"chunk", "backed", "footprint", "least"}),
         Heads(g.chunk), Apart(g.chunk), InHeap(g.chunk) = InHeap(h.chunk),
         \A a \in InHeap(h.chunk) : g.chunk[a] = h.chunk[a],
         \A a \in Maps(g.chunk) : \A i \in DOMAIN h.segs : ~Holds(h.segs[i], a),
         Lent(g.chunk, g.segs, g.backed, g.footprint),
         g.least \in Nat, g.least <= h.least, \A a \in DOMAIN g.chunk : a >= g.least
  PROVE  Sound(g, (L \ Maps(h.chunk)) \cup Maps(g.chunk), U)
<1> DEFINE C == h.chunk
           D == g.chunk
           M == (L \ Maps(C)) \cup Maps(D)
<1>1. /\ IsHeap(h) /\ Shape(C, h.segs, h.top, h.state) /\ Owned(C, h.segs, h.state, L)
      /\ Placed(C, h.small, h.tree, h.dv, h.top, U)
      /\ Sizes(C, h.dv, h.dvsize, h.top, h.topsize)
      /\ Settings(h)
  BY DEF Sound
<1>2. /\ Segments(h.segs) /\ Ends(C, h.segs, h.top, h.state) /\ Heads(C)
      /\ Linked(C, h.segs, h.top, h.state)
  BY <1>1 DEF Shape
<1>3. /\ g.segs = h.segs /\ g.top = h.top /\ g.state = h.state /\ g.small = h.small /\ g.tree = h.tree
      /\ g.dv = h.dv /\ g.dvsize = h.dvsize /\ g.topsize = h.topsize /\ g.limit = h.limit
      /\ g.trimcheck = h.trimcheck /\ g.mmapon = h.mmapon /\ g.checks = h.checks /\ IsHeap(g)
  BY DEF SameBut, HeapFields
<1>4. InHeap(D) = InHeap(C) /\ (\A a \in InHeap(C) : D[a] = C[a])
  OBVIOUS
<1>5. \A a \in DOMAIN D : a \in InHeap(D) \/ a \in Maps(D)
  BY DEF InHeap, Maps
<1>6. \A a \in DOMAIN C : a \in InHeap(C) \/ a \in Maps(C)
  BY DEF InHeap, Maps
<1>7. Idle_(D) = Idle_(C)
  BY <1>4 DEF Idle_, InHeap
<1>8. h.state \in InHeap(C) /\ Records_(h.segs) \subseteq InHeap(C) /\ h.top \in InHeap(C)
  BY <1>2 DEF Ends, Records_
<1> HIDE DEF C, D, M
<1>9. Shape(D, h.segs, h.top, h.state)
  <2>1. \A i \in DOMAIN h.segs : h.segs[i].base \in InHeap(D) /\ D[h.segs[i].base].pin
    BY <1>1, <1>4 DEF Shape
  <2>2. \A a \in DOMAIN D : (\E i \in DOMAIN h.segs : Holds(h.segs[i], a)) <=> a \in InHeap(D)
    <3> SUFFICES ASSUME NEW a \in DOMAIN D
                 PROVE  (\E i \in DOMAIN h.segs : Holds(h.segs[i], a)) <=> a \in InHeap(D)
      OBVIOUS
    <3>1. CASE a \in InHeap(D)
      <4>1. a \in DOMAIN C
        BY <1>4, <3>1 DEF InHeap
      <4> QED
        BY <1>1, <1>4, <3>1, <4>1 DEF Shape
    <3>2. CASE a \notin InHeap(D)
      BY <1>5, <3>2 DEF D
    <3> QED
      BY <3>1, <3>2
  <2>3. Ends(D, h.segs, h.top, h.state)
    BY <1>2, <1>4, <1>8 DEF Ends
  <2>4. Linked(D, h.segs, h.top, h.state)
    <3> SUFFICES ASSUME NEW i \in DOMAIN h.segs, NEW a \in InHeap(C), Holds(h.segs[i], a)
                 PROVE  /\ a <= LastOf(h.segs, i, h.top)
                        /\ a # LastOf(h.segs, i, h.top) =>
                            /\ D[a].size >= MinChunk
                            /\ a + D[a].size \in InHeap(C) /\ Holds(h.segs[i], a + D[a].size)
                            /\ Tells(D, a, a + D[a].size, h.state)
                        /\ a # h.segs[i].base =>
                            \E b \in InHeap(C) : b + D[b].size = a /\ Holds(h.segs[i], b)
      BY <1>4 DEF Linked
    <3>1. D[a] = C[a]
      BY <1>4
    <3>2. a <= LastOf(h.segs, i, h.top)
      BY <1>2 DEF Linked
    <3>3. ASSUME a # LastOf(h.segs, i, h.top)
          PROVE  /\ D[a].size >= MinChunk
                 /\ a + D[a].size \in InHeap(C) /\ Holds(h.segs[i], a + D[a].size)
                 /\ Tells(D, a, a + D[a].size, h.state)
      <4>1. /\ C[a].size >= MinChunk
            /\ a + C[a].size \in InHeap(C) /\ Holds(h.segs[i], a + C[a].size)
            /\ Tells(C, a, a + C[a].size, h.state)
        BY <1>2, <3>3 DEF Linked
      <4>2. D[a + C[a].size] = C[a + C[a].size]
        BY <1>4, <4>1
      <4> QED
        BY <3>1, <4>1, <4>2 DEF Tells
    <3>4. ASSUME a # h.segs[i].base
          PROVE  \E b \in InHeap(C) : b + D[b].size = a /\ Holds(h.segs[i], b)
      BY <1>2, <1>4, <3>4 DEF Linked
    <3> QED
      BY <3>2, <3>3, <3>4
  <2> QED
    BY <1>2, <2>1, <2>2, <2>3, <2>4 DEF Shape, D
<1>10. Owned(D, h.segs, h.state, M)
  <2>1. L \cup {h.state} \cup Records_(h.segs) = {a \in DOMAIN C : C[a].cin \/ ~C[a].pin}
    BY <1>1 DEF Owned
  <2>2. M \cup {h.state} \cup Records_(h.segs) = {a \in DOMAIN D : D[a].cin \/ ~D[a].pin}
    <3>1. ASSUME NEW a \in M PROVE a \in DOMAIN D /\ (D[a].cin \/ ~D[a].pin)
      <4>1. CASE a \in Maps(D)
        BY <4>1 DEF Maps
      <4>2. CASE a \notin Maps(D)
        <5>1. a \in L /\ a \notin Maps(C)
          BY <3>1, <4>2 DEF M
        <5>2. a \in DOMAIN C /\ (C[a].cin \/ ~C[a].pin) /\ a \in InHeap(C)
          BY <1>6, <2>1, <5>1
        <5> QED
          BY <1>4, <5>2 DEF InHeap
      <4> QED
        BY <4>1, <4>2
    <3>2. ASSUME NEW a \in {h.state} \cup Records_(h.segs)
          PROVE  a \in DOMAIN D /\ (D[a].cin \/ ~D[a].pin)
      BY <1>4, <1>8, <2>1 DEF InHeap
    <3>3. ASSUME NEW a \in DOMAIN D, D[a].cin \/ ~D[a].pin
          PROVE  a \in M \cup {h.state} \cup Records_(h.segs)
      <4>1. CASE a \in Maps(D)
        BY <4>1 DEF M
      <4>2. CASE a \notin Maps(D)
        <5>1. a \in InHeap(C) /\ a \in DOMAIN C /\ D[a] = C[a]
          BY <1>4, <1>5, <4>2 DEF InHeap
        <5>2. a \notin Maps(C)
          BY <5>1 DEF Maps, InHeap
        <5> QED
          BY <2>1, <3>3, <5>1, <5>2 DEF M
      <4> QED
        BY <4>1, <4>2
    <3> QED
      BY <3>1, <3>2, <3>3
  <2>3. h.state \notin Maps(D) /\ Maps(D) \cap Records_(h.segs) = {}
    BY <1>4, <1>8 DEF Maps, InHeap
  <2> QED
    BY <1>1, <2>2, <2>3 DEF Owned, M
<1>11. Placed(D, h.small, h.tree, h.dv, h.top, U)
  <2>1. \A a \in Idle_(C) : D[a] = C[a]
    BY <1>4 DEF Idle_, InHeap
  <2>2. Binned_(h.small, h.tree) \subseteq Idle_(C)
    BY <1>1 DEF Placed
  <2>3. \A n \in SmallSizes : \A a \in Range(h.small[n]) : a \in Idle_(C)
    BY <2>2, BinnedHas
  <2>4. \A a \in h.tree : a \in Idle_(C)
    BY <2>2, BinnedHas
  <2>5. \A n \in SmallSizes : \A a \in Range(h.small[n]) : D[a].size = n
    BY <1>1, <2>1, <2>3 DEF Placed
  <2>6. \A a \in h.tree : D[a].size >= SmallLimit
    BY <1>1, <2>1, <2>4 DEF Placed
  <2> QED
    BY <1>1, <1>7, <2>5, <2>6 DEF Placed
<1>12. Sizes(D, h.dv, h.dvsize, h.top, h.topsize)
  <2>1. D[h.top] = C[h.top]
    BY <1>4, <1>8
  <2>2. h.dv # 0 => D[h.dv] = C[h.dv]
    <3>1. h.dv # 0 => h.dv \in Idle_(C)
      BY <1>1 DEF Placed
    <3> QED
      BY <1>4, <3>1 DEF Idle_, InHeap
  <2> QED
    BY <1>1, <2>1, <2>2 DEF Sizes
<1>13. Settings(g)
  <2>1. \A i \in DOMAIN h.segs : h.segs[i].base >= g.least
    <3>1. \A i \in DOMAIN h.segs : h.segs[i].base >= h.least /\ h.segs[i].base \in Nat
      BY <1>1, <1>2, SegmentFields DEF Settings
    <3> QED
      BY <1>1, <3>1 DEF Settings
  <2> QED
    BY <1>1, <1>3, <2>1 DEF Settings
<1> QED
  BY <1>3, <1>9, <1>10, <1>11, <1>12, <1>13 DEF Sound, C, D, M

----------------------------------------------------------------------------
(* What a call that gives memory back leaves.                              *)

ReturnFields == HeapFields \ {"state", "limit", "least", "mmapon"}

\* Memory went back to the heap or to the system, and no block of M with it.
Returned(h, g, M) ==
  /\ Sound(g, M, {}) /\ Spares(h, g, M) /\ SameBut(g, h, ReturnFields)
  /\ g.backed \subseteq h.backed /\ g.footprint <= h.footprint

\* The same seen from a call that had returned memory before.
LEMMA ReturnedChain ==
  ASSUME NEW h, NEW g, NEW k, NEW M, NEW N, N \subseteq M, Returned(h, g, M), Returned(g, k, N),
         h.footprint \in Int, g.footprint \in Int, k.footprint \in Int
  PROVE  Returned(h, k, N)
<1>1. Spares(h, k, N)
  BY DEF Returned, Spares
<1>2. SameBut(k, h, ReturnFields)
  BY DEF Returned, SameBut
<1> QED
  BY <1>1, <1>2 DEF Returned

\* The footprint of a sound space.
LEMMA FootprintNat ==
  ASSUME NEW h, NEW L, NEW U, Sound(h, L, U)
  PROVE  h.footprint \in Nat /\ h.backed \subseteq Space
<1>1. Lent(h.chunk, h.segs, h.backed, h.footprint)
  BY DEF Sound
<1>2. h.backed \subseteq Space /\ h.footprint = Granule * Cardinality(h.backed)
  BY <1>1 DEF Lent
<1>3. Cardinality(h.backed) \in Nat
  BY <1>2, HeapAssumption, FS_Subset, FS_CardinalityType
<1> HIDE DEF Cardinality
<1>4. Granule * Cardinality(h.backed) \in Nat
  <2> DEFINE x == Cardinality(h.backed)
  <2> HIDE DEF x
  <2>1. x \in Nat => Granule * x \in Nat
    BY Numbers, SMTT(30)
  <2> QED
    BY <1>3, <2>1 DEF x
<1> QED
  BY <1>2, <1>4

\* A chunk freed within the segments goes back to the heap.
LEMMA FreesReturns ==
  ASSUME NEW h, NEW g, NEW L, NEW M, Sound(h, L, {}), Frees(h, g, L, M)
  PROVE  Returned(h, g, M)
<1>1. SameBut(g, h, ReturnFields)
  BY DEF Frees, SameBut, FreeFields, ReturnFields, HeapFields
<1>2. g.backed = h.backed /\ g.footprint = h.footprint
  BY DEF Frees, SameBut, FreeFields, HeapFields
<1>3. h.footprint \in Nat
  BY FootprintNat
<1> QED
  BY <1>1, <1>2, <1>3 DEF Frees, Returned

\* A mapping goes back to the system whole, or is left to it.
LEMMA UnmapSound ==
  ASSUME NEW h, NEW L, Sound(h, L, {}), NEW a \in L, ~h.chunk[a].cin, NEW d \in Unmap(h, a)
  PROVE  Returned(h, d.heap, L \ {a})
<1> DEFINE C == h.chunk
           D == [b \in DOMAIN C \ {a} |-> C[b]]
           g == d.heap
           x == MapBase(C, a)
           y == MapLength(C, a)
           gone == [h EXCEPT !.chunk = D]
<1>1. a \in Maps(C) /\ a \in DOMAIN C
  BY BlockUse DEF Maps
<1>2. /\ Whole(x) /\ Whole(y) /\ GranulesOf(x, y) \subseteq h.backed
      /\ a \notin InHeap(C)
  BY <1>1, MappingFields
<1>3. Lent(C, h.segs, h.backed, h.footprint) /\ Heads(C) /\ Apart(C) /\ IsHeap(h) /\ Settings(h)
      /\ Segments(h.segs)
  BY DEF Sound, Shape
<1>4. h.footprint - y = Granule * Cardinality(h.backed \ GranulesOf(x, y)) /\ h.footprint \in Nat
      /\ h.footprint - y \in Nat /\ y \in Nat \ {0}
  BY <1>2, <1>3, LessBacked DEF Lent
<1>5. x = a - h.chunk[a].foot /\ y = h.chunk[a].size + h.chunk[a].foot + MapFootPad
  BY DEF MapBase, MapLength
<1>6. IsHeap(gone) /\ gone.chunk = D /\ SameBut(gone, h, {"chunk"})
  BY <1>3, NewChunks DEF SameBut
<1>7. \/ /\ g = gone
      \/ /\ g = [gone EXCEPT !.backed = h.backed \ GranulesOf(x, y), !.footprint = h.footprint - y]
  <2>1. d \in {Disposed(Unmapped(gone, x, y), "unmapped"), Disposed(gone, "kept")}
    BY <1>5 DEF Unmap
  <2>2. gone.backed = h.backed /\ gone.footprint = h.footprint
    BY <1>6 DEF SameBut, HeapFields
  <2>3. Unmapped(gone, x, y) = [gone EXCEPT !.backed = h.backed \ GranulesOf(x, y), !.footprint = h.footprint - y]
    BY <2>2 DEF Unmapped
  <2> QED
    BY <2>1, <2>3 DEF Disposed
<1> HIDE DEF C, D, g, x, y, gone
<1>8. /\ SameBut(g, h, {"chunk", "backed", "footprint"}) /\ g.chunk = D
      /\ \/ g.backed = h.backed /\ g.footprint = h.footprint
         \/ g.backed = h.backed \ GranulesOf(x, y) /\ g.footprint = h.footprint - y
  BY <1>6, <1>7 DEF SameBut, IsHeap, HeapFields
<1>9. /\ DOMAIN D = DOMAIN C \ {a} /\ (\A b \in DOMAIN C : b # a => D[b] = C[b])
      /\ D = [b \in DOMAIN D |-> D[b]]
  BY DEF D
<1>10. Heads(D) /\ Apart(D)
  BY <1>3, <1>9 DEF Heads, Apart
<1>11. InHeap(D) = InHeap(C) /\ Maps(D) = Maps(C) \ {a}
  BY <1>2, <1>9 DEF InHeap, Maps
<1>12. \A b \in Maps(D) : MapBase(D, b) = MapBase(C, b) /\ MapLength(D, b) = MapLength(C, b)
  BY <1>9, <1>11 DEF MapBase, MapLength, Maps
<1>13. Lent(D, h.segs, g.backed, g.footprint)
  <2>1. \A i \in DOMAIN h.segs :
          GranulesOf(x, y) \cap GranulesOf(h.segs[i].base, h.segs[i].size) = {}
    BY <1>1, <1>3 DEF Lent, x, y
  <2>2. \A b \in Maps(C) : b # a =>
          GranulesOf(x, y) \cap GranulesOf(MapBase(C, b), MapLength(C, b)) = {}
    BY <1>1, <1>3 DEF Lent, x, y
  <2>3. g.backed \subseteq Space /\ g.footprint = Granule * Cardinality(g.backed)
    BY <1>3, <1>4, <1>8 DEF Lent
  <2>4. \A i \in DOMAIN h.segs :
          /\ Whole(h.segs[i].base) /\ Whole(h.segs[i].size)
          /\ GranulesOf(h.segs[i].base, h.segs[i].size) \subseteq g.backed
    BY <1>3, <1>8, <2>1 DEF Lent
  <2>5. \A b \in Maps(D) :
          /\ Whole(MapBase(D, b)) /\ Whole(MapLength(D, b))
          /\ GranulesOf(MapBase(D, b), MapLength(D, b)) \subseteq g.backed
          /\ \A i \in DOMAIN h.segs :
              GranulesOf(MapBase(D, b), MapLength(D, b))
                \cap GranulesOf(h.segs[i].base, h.segs[i].size) = {}
    <3> TAKE b \in Maps(D)
    <3>1. b \in Maps(C) /\ b # a
      BY <1>11
    <3>2. /\ Whole(MapBase(C, b)) /\ Whole(MapLength(C, b))
          /\ GranulesOf(MapBase(C, b), MapLength(C, b)) \subseteq h.backed
          /\ \A i \in DOMAIN h.segs :
              GranulesOf(MapBase(C, b), MapLength(C, b))
                \cap GranulesOf(h.segs[i].base, h.segs[i].size) = {}
      BY <1>3, <3>1 DEF Lent
    <3>3. GranulesOf(MapBase(C, b), MapLength(C, b)) \subseteq g.backed
      BY <1>8, <2>2, <3>1, <3>2
    <3> QED
      BY <1>12, <3>2, <3>3
  <2>6. \A b, c \in Maps(D) : b # c =>
          GranulesOf(MapBase(D, b), MapLength(D, b))
            \cap GranulesOf(MapBase(D, c), MapLength(D, c)) = {}
    BY <1>3, <1>11, <1>12 DEF Lent
  <2>7. \A i, j \in DOMAIN h.segs : i # j =>
          GranulesOf(h.segs[i].base, h.segs[i].size)
            \cap GranulesOf(h.segs[j].base, h.segs[j].size) = {}
    BY <1>3 DEF Lent
  <2> QED
    BY <2>3, <2>4, <2>5, <2>6, <2>7 DEF Lent
<1>14. g.segs = h.segs /\ g.least = h.least
  BY <1>8 DEF SameBut, HeapFields
<1>15. Sound(g, (L \ Maps(C)) \cup Maps(D), {})
  <2>1. SameBut(g, h, {"chunk", "backed", "footprint", "least"})
    BY <1>8 DEF SameBut
  <2>2. \A b \in Maps(D) : \A i \in DOMAIN h.segs : ~Holds(h.segs[i], b)
    <3>1. \A b \in DOMAIN C : (\E i \in DOMAIN h.segs : Holds(h.segs[i], b)) => b \in InHeap(C)
      BY DEF Sound, Shape, C
    <3> QED
      BY <1>11, <3>1 DEF Maps, InHeap
  <2>3. g.least \in Nat /\ g.least <= h.least /\ \A b \in DOMAIN D : b >= g.least
    BY <1>3, <1>9, <1>14 DEF Settings, C
  <2>4. \A b \in InHeap(C) : D[b] = C[b]
    BY <1>2, <1>9 DEF InHeap
  <2> QED
    BY <1>8, <1>10, <1>11, <1>13, <1>14, <2>1, <2>2, <2>3, <2>4, SoundMaps DEF C
<1>16. (L \ Maps(C)) \cup Maps(D) = L \ {a}
  <2>1. \A b \in Maps(C) : b \in L
    BY MappingFields DEF C
  <2> DEFINE X == Maps(C)
  <2>2. X \subseteq L /\ Maps(D) = X \ {a}
    BY <1>11, <2>1
  <2> HIDE DEF X
  <2>3. (L \ X) \cup (X \ {a}) = L \ {a}
    <3>1. \A b : b \in (L \ X) \cup (X \ {a}) <=> b \in L \ {a}
      BY <2>2, <1>1 DEF X
    <3> QED
      BY <3>1
  <2> QED
    BY <2>2, <2>3 DEF X
<1>17. Spares(h, g, L \ {a})
  <2>1. L \subseteq DOMAIN C
    BY Inside DEF C
  <2> QED
    BY <1>8, <1>9, <2>1 DEF Spares, C
<1>18. SameBut(g, h, ReturnFields)
  BY <1>8 DEF SameBut, ReturnFields, HeapFields
<1>19. g.backed \subseteq h.backed /\ g.footprint <= h.footprint
  BY <1>4, <1>8
<1> QED
  BY <1>15, <1>16, <1>17, <1>18, <1>19 DEF Returned, g

\* The chunk of a block goes back: the heap stays sound and spares the others.
THEOREM Disposal ==
  ASSUME NEW h, NEW L, Sound(h, L, {}), NEW a \in L, NEW d \in Dispose(h, a, h.chunk[a].size)
  PROVE  Returned(h, d.heap, L \ {a})
<1>1. CASE h.chunk[a].cin
  <2>1. Frees(h, d.heap, L, L \ {a})
    BY <1>1, DisposeInHeap
  <2> QED
    BY <2>1, FreesReturns
<1>2. CASE ~h.chunk[a].cin
  <2>1. ~h.chunk[a].cin /\ ~h.chunk[a].pin
    BY <1>2, BlockUse DEF IsMapped
  <2>2. Dispose(h, a, h.chunk[a].size) = Unmap(h, a)
    BY <2>1 DEF Dispose, IsMapped
  <2> QED
    BY <1>2, <2>2, UnmapSound
<1> QED
  BY <1>1, <1>2
----------------------------------------------------------------------------
(* What a call that asks for memory leaves.                                *)

AskFields == HeapFields \ {"state", "limit", "mmapon"}

\* No block is touched, and the system is asked only within the limit.
Asked(h, g, L) ==
  /\ Spares(h, g, L) /\ SameBut(g, h, AskFields) /\ h.backed \subseteq g.backed
  /\ g.footprint = h.footprint \/ h.limit = 0 \/ g.footprint <= h.limit

\* The outcome is no block, or one that was not out and has the room asked for;
\* it is a mapping of its own only if mapping is on.
Lends(h, o, L, n) ==
  /\ Asked(h, o.heap, L)
  /\ \/ o.at = 0 /\ Sound(o.heap, L, {})
     \/ /\ o.at \notin L /\ o.at # 0 /\ Sound(o.heap, L \cup {o.at}, {})
        /\ o.heap.chunk[o.at].size >= n
        /\ h.mmapon \/ (o.heap.chunk[o.at].cin /\ o.heap.chunk[o.at].pin)

\* A fresh region becomes a chunk of its own.
LEMMA MapSound ==
  ASSUME NEW h, NEW L, Sound(h, L, {}), NEW b, NEW s, Whole(b), Whole(s), s > MapFootPad,
         GranulesOf(b, s) \subseteq Space \ h.backed, NEW g, g = Mapped(h, b, s)
  PROVE  /\ Sound(g, L \cup {b}, {}) /\ b \notin L /\ b # 0 /\ g.chunk[b].size + MapFootPad >= s
         /\ Spares(h, g, L) /\ SameBut(g, h, {"chunk", "backed", "footprint", "least"})
         /\ h.backed \subseteq g.backed /\ g.footprint <= h.footprint + s
<1> DEFINE C == h.chunk
           n == s - MapFootPad
           k == Put(h, b, n, FALSE, FALSE)
           D == [k.chunk EXCEPT ![b].foot = 0]
<1>1. Lent(C, h.segs, h.backed, h.footprint) /\ Heads(C) /\ Apart(C) /\ IsHeap(h) /\ Settings(h)
      /\ Segments(h.segs)
  BY DEF Sound, Shape
<1>2. b \in Nat \ {0} /\ s \in Nat \ {0} /\ n \in Nat \ {0} /\ n + MapFootPad = s
  <2>1. b \in Nat \ {0} /\ s \in Nat \ {0}
    BY WholeSum
  <2>2. MapFootPad = 2
    BY Numbers
  <2> QED
    BY ONLY <2>1, <2>2, s > MapFootPad DEF n
<1>3. GranulesOf(b, s) \cap h.backed = {}
  OBVIOUS
<1>4. /\ \A a \in DOMAIN C : a + C[a].size < b \/ b + s <= a
      /\ \A i \in DOMAIN h.segs : End(h.segs[i]) <= b \/ b + s <= h.segs[i].base
  BY <1>3, FreshRegion
<1>5. /\ SameBut(k, h, {"chunk"}) /\ IsHeap(k) /\ Heads(k.chunk)
      /\ Overwrites(C, k.chunk, b, n) /\ ~k.chunk[b].cin /\ ~k.chunk[b].pin
  BY <1>1, <1>2, PutOf
<1>6. b \notin DOMAIN C /\ \A a \in DOMAIN C : a < b \/ a >= b + n
  BY <1>1, <1>2, <1>4, ChunkFields, Numbers
<1>7. /\ DOMAIN k.chunk = DOMAIN C \cup {b} /\ k.chunk[b].size = n
      /\ \A a \in DOMAIN C : a # b + n => k.chunk[a] = C[a]
  BY <1>5, <1>6 DEF Overwrites
<1>8. b + n \notin DOMAIN C
  BY <1>1, <1>2, <1>4, ChunkFields, Numbers
<1>9. g.chunk = D /\ g.backed = h.backed \cup GranulesOf(b, s) /\ g.footprint = h.footprint + s
      /\ g.least = (IF b < h.least THEN b ELSE h.least)
      /\ SameBut(g, h, {"chunk", "backed", "footprint", "least"})
  <2>1. k.backed = h.backed /\ k.footprint = h.footprint /\ k.least = h.least
    BY <1>5 DEF SameBut, HeapFields
  <2>2. g = [k EXCEPT !.chunk = D, !.backed = h.backed \cup GranulesOf(b, s),
                      !.footprint = h.footprint + s,
                      !.least = IF b < h.least THEN b ELSE h.least]
    BY <1>5, <2>1 DEF Mapped, IsHeap, HeapFields
  <2> HIDE DEF k, D
  <2> QED
    BY <1>5, <2>2 DEF SameBut, IsHeap, HeapFields
<1>10. /\ DOMAIN D = DOMAIN C \cup {b} /\ (\A a \in DOMAIN C : D[a] = C[a])
       /\ D[b].size = n /\ ~D[b].cin /\ ~D[b].pin /\ D[b].foot = 0 /\ Heads(D)
  <2>1. k.chunk[b] = [size |-> k.chunk[b].size, cin |-> k.chunk[b].cin,
                      pin |-> k.chunk[b].pin, foot |-> k.chunk[b].foot]
        /\ k.chunk[b].size \in Nat \ {0} /\ k.chunk[b].cin \in BOOLEAN /\ k.chunk[b].pin \in BOOLEAN
        /\ k.chunk = [a \in DOMAIN k.chunk |-> k.chunk[a]]
    <3> DEFINE K == k.chunk
    <3>1. Heads(K) /\ b \in DOMAIN K
      BY <1>5, <1>7
    <3> HIDE DEF K
    <3>2. K = [a \in DOMAIN K |-> K[a]]
      BY <3>1 DEF Heads
    <3>3. K[b] \in Header
      BY <3>1 DEF Heads
    <3>4. /\ K[b] = [size |-> K[b].size, cin |-> K[b].cin, pin |-> K[b].pin, foot |-> K[b].foot]
          /\ K[b].size \in Nat \ {0} /\ K[b].cin \in BOOLEAN /\ K[b].pin \in BOOLEAN
      BY <3>3 DEF Header
    <3> QED
      BY <3>2, <3>4 DEF K
  <2> HIDE DEF k, n
  <2>2. D = [a \in DOMAIN k.chunk |->
                IF a = b THEN [size |-> k.chunk[b].size, cin |-> k.chunk[b].cin,
                               pin |-> k.chunk[b].pin, foot |-> 0] ELSE k.chunk[a]]
    BY <1>7, <2>1
  <2> HIDE DEF D
  <2>3. D[b] = [size |-> n, cin |-> k.chunk[b].cin, pin |-> k.chunk[b].pin, foot |-> 0]
    BY <1>7, <2>2
  <2>4. DOMAIN D = DOMAIN C \cup {b} /\ (\A a \in DOMAIN C : D[a] = C[a])
    BY <1>6, <1>7, <1>8, <2>2
  <2>5. D[b] \in Header
    BY <1>2, <2>1, <2>3 DEF Header
  <2>6. D = [a \in DOMAIN D |-> D[a]]
    BY <2>2
  <2> QED
    BY <1>1, <1>2, <1>5, <2>3, <2>4, <2>5, <2>6 DEF Heads
<1> HIDE DEF C, D, k, n
<1>11. Apart(D)
  <2> SUFFICES ASSUME NEW a \in DOMAIN D, NEW c \in DOMAIN D, a < c PROVE a + D[a].size <= c
    BY DEF Apart
  <2>1. CASE a # b /\ c # b
    BY <1>1, <1>10, <2>1 DEF Apart, C
  <2>2. CASE a = b /\ c # b
    BY <1>1, <1>2, <1>4, <1>10, <2>2, ChunkFields, Numbers DEF C
  <2>3. CASE a # b /\ c = b
    BY <1>1, <1>2, <1>4, <1>10, <2>3, ChunkFields, Numbers DEF C
  <2> QED
    BY <1>1, <1>2, <1>10, <2>1, <2>2, <2>3
<1>12. InHeap(D) = InHeap(C) /\ Maps(D) = Maps(C) \cup {b} /\ b \notin Maps(C)
  BY <1>6, <1>10 DEF InHeap, Maps
<1>13. /\ \A a \in Maps(C) : MapBase(D, a) = MapBase(C, a) /\ MapLength(D, a) = MapLength(C, a)
       /\ MapBase(D, b) = b /\ MapLength(D, b) = s
  BY <1>2, <1>10, Numbers DEF MapBase, MapLength, Maps
<1>14. Lent(D, h.segs, g.backed, g.footprint)
  <2>1. g.backed \subseteq Space /\ g.footprint = Granule * Cardinality(g.backed)
    BY <1>1, <1>9, MoreBacked DEF Lent
  <2>2. \A i \in DOMAIN h.segs :
          /\ Whole(h.segs[i].base) /\ Whole(h.segs[i].size)
          /\ GranulesOf(h.segs[i].base, h.segs[i].size) \subseteq h.backed
    BY <1>1 DEF Lent
  <2>3. \A a \in Maps(C) :
          /\ Whole(MapBase(C, a)) /\ Whole(MapLength(C, a))
          /\ GranulesOf(MapBase(C, a), MapLength(C, a)) \subseteq h.backed
          /\ \A i \in DOMAIN h.segs :
              GranulesOf(MapBase(C, a), MapLength(C, a))
                \cap GranulesOf(h.segs[i].base, h.segs[i].size) = {}
    BY <1>1 DEF Lent
  <2>4. \A a \in Maps(D) :
          /\ Whole(MapBase(D, a)) /\ Whole(MapLength(D, a))
          /\ GranulesOf(MapBase(D, a), MapLength(D, a)) \subseteq g.backed
          /\ \A i \in DOMAIN h.segs :
              GranulesOf(MapBase(D, a), MapLength(D, a))
                \cap GranulesOf(h.segs[i].base, h.segs[i].size) = {}
    <3> TAKE a \in Maps(D)
    <3>1. CASE a = b
      BY <1>3, <1>9, <1>13, <2>2, <3>1
    <3>2. CASE a # b
      BY <1>9, <1>12, <1>13, <2>3, <3>2
    <3> QED
      BY <3>1, <3>2
  <2>5. \A a, c \in Maps(D) : a # c =>
          GranulesOf(MapBase(D, a), MapLength(D, a))
            \cap GranulesOf(MapBase(D, c), MapLength(D, c)) = {}
    <3> SUFFICES ASSUME NEW a \in Maps(D), NEW c \in Maps(D), a # c
                 PROVE  GranulesOf(MapBase(D, a), MapLength(D, a))
                          \cap GranulesOf(MapBase(D, c), MapLength(D, c)) = {}
      OBVIOUS
    <3>1. CASE a # b /\ c # b
      BY <1>1, <1>12, <1>13, <3>1 DEF Lent
    <3>2. CASE a = b
      BY <1>3, <1>12, <1>13, <2>3, <3>2
    <3>3. CASE c = b
      BY <1>3, <1>12, <1>13, <2>3, <3>3
    <3> QED
      BY <3>1, <3>2, <3>3
  <2>6. \A i, j \in DOMAIN h.segs : i # j =>
          GranulesOf(h.segs[i].base, h.segs[i].size)
            \cap GranulesOf(h.segs[j].base, h.segs[j].size) = {}
    BY <1>1 DEF Lent
  <2>7. h.backed \subseteq g.backed
    BY <1>9
  <2> QED
    BY <2>1, <2>2, <2>4, <2>5, <2>6, <2>7 DEF Lent
<1>15. Sound(g, (L \ Maps(C)) \cup Maps(D), {})
  <2>1. g.segs = h.segs
    BY <1>9 DEF SameBut, HeapFields
  <2>2. \A a \in Maps(D) : \A i \in DOMAIN h.segs : ~Holds(h.segs[i], a)
    <3>1. \A a \in DOMAIN C : (\E i \in DOMAIN h.segs : Holds(h.segs[i], a)) => a \in InHeap(C)
      BY DEF Sound, Shape, C
    <3>2. \A i \in DOMAIN h.segs : ~Holds(h.segs[i], b)
      <4> TAKE i \in DOMAIN h.segs
      <4>1. h.segs[i].base \in Nat /\ h.segs[i].size \in Nat
            /\ End(h.segs[i]) = h.segs[i].base + h.segs[i].size
        BY <1>1, SegmentFields
      <4>2. End(h.segs[i]) <= b \/ b + s <= h.segs[i].base
        BY <1>4
      <4> QED
        BY <1>2, <4>1, <4>2 DEF Holds
    <3>3. \A a \in Maps(C) : a \in DOMAIN C /\ a \notin InHeap(C)
      BY DEF Maps, InHeap
    <3> QED
      BY <1>12, <3>1, <3>2, <3>3
  <2>3. g.least \in Nat /\ g.least <= h.least /\ \A a \in DOMAIN D : a >= g.least
    <3>1. h.least \in Nat /\ \A a \in DOMAIN C : a \in Nat /\ a >= h.least
      BY <1>1, ChunkFields DEF Settings, C
    <3> QED
      BY <1>2, <1>9, <1>10, <3>1
  <2>4. \A a \in InHeap(C) : D[a] = C[a]
    BY <1>10 DEF InHeap
  <2> QED
    BY <1>9, <1>10, <1>11, <1>12, <1>14, <2>1, <2>2, <2>3, <2>4, SoundMaps DEF C
<1>16. (L \ Maps(C)) \cup Maps(D) = L \cup {b}
  <2>1. \A a \in Maps(C) : a \in L
    BY MappingFields DEF C
  <2> QED
    BY <1>12, <2>1
<1>17. L \subseteq DOMAIN C
  BY Inside DEF C
<1>18. Spares(h, g, L) /\ b \notin L
  BY <1>6, <1>9, <1>10, <1>17 DEF Spares, C
<1>19. g.chunk[b].size + MapFootPad >= s /\ g.footprint <= h.footprint + s
  <2>1. h.footprint \in Nat
    BY FootprintNat
  <2>2. g.chunk[b].size = n /\ g.footprint = h.footprint + s
    BY <1>9, <1>10
  <2> QED
    BY <1>2, <2>1, <2>2, Numbers
<1> QED
  BY <1>2, <1>9, <1>15, <1>16, <1>18, <1>19
\* A place for a region.
LEMMA PlaceOf ==
  ASSUME NEW h, NEW s, NEW b \in Places(h, s)
  PROVE  Whole(b) /\ GranulesOf(b, s) \subseteq Space \ h.backed
<1>1. PICK k \in Space : b = k * Granule /\ GranulesOf(k * Granule, s) \subseteq Space \ h.backed
  BY DEF Places
<1>2. k \in Nat \ {0}
  BY HeapAssumption
<1> QED
  BY <1>1, <1>2 DEF Whole

\* Memory mapped for one chunk.
LEMMA MapAllocateSound ==
  ASSUME NEW h, NEW L, Sound(h, L, {}), h.mmapon, NEW n \in Nat, NEW o \in MapAllocate(h, n)
  PROVE  Lends(h, o, L, n) /\ o.at # 0
<1> DEFINE s == MapSize(n)
<1>1. Whole(s) /\ s >= n + 4 /\ s \in Nat
  <2>1. n + 4 \in Nat \ {0}
    OBVIOUS
  <2>2. Whole(s) /\ s >= n + 4
    BY <2>1, RoundedUp DEF MapSize
  <2> QED
    BY <2>2, WholeSum
<1>2. /\ h.limit = 0 \/ h.footprint + s <= h.limit
      /\ \E b \in Places(h, s) : o = Outcome(Mapped(h, b, s), b)
  BY DEF MapAllocate, WithinLimit
<1> HIDE DEF s
<1>3. PICK b \in Places(h, s) : o = Outcome(Mapped(h, b, s), b)
  BY <1>2
<1> DEFINE g == Mapped(h, b, s)
<1>4. o.heap = g /\ o.at = b
  BY <1>3 DEF Outcome
<1>5. Whole(b) /\ GranulesOf(b, s) \subseteq Space \ h.backed
  BY PlaceOf
<1>6. s > MapFootPad
  BY <1>1, Numbers
<1>6a. g = Mapped(h, b, s)
  OBVIOUS
<1> HIDE DEF g
<1>7. /\ Sound(g, L \cup {b}, {}) /\ b \notin L /\ b # 0 /\ g.chunk[b].size + MapFootPad >= s
      /\ Spares(h, g, L) /\ SameBut(g, h, {"chunk", "backed", "footprint", "least"})
      /\ h.backed \subseteq g.backed /\ g.footprint <= h.footprint + s
  <2>1. Sound(g, L \cup {b}, {}) /\ b \notin L /\ b # 0
    BY <1>1, <1>5, <1>6, <1>6a, MapSound
  <2>2. g.chunk[b].size + MapFootPad >= s
    BY <1>1, <1>5, <1>6, <1>6a, MapSound
  <2>3. Spares(h, g, L) /\ SameBut(g, h, {"chunk", "backed", "footprint", "least"})
    BY <1>1, <1>5, <1>6, <1>6a, MapSound
  <2>4. h.backed \subseteq g.backed
    BY <1>1, <1>5, <1>6, <1>6a, MapSound
  <2>5. g.footprint <= h.footprint + s
    BY <1>1, <1>5, <1>6, <1>6a, MapSound
  <2> QED
    BY <2>1, <2>2, <2>3, <2>4, <2>5
<1>8. SameBut(g, h, AskFields)
  BY <1>7 DEF SameBut, AskFields, HeapFields
<1>9. Asked(h, g, L)
  <2>1. g.footprint \in Nat /\ h.footprint \in Nat /\ h.limit \in Nat
    BY <1>7, FootprintNat DEF Sound, Settings
  <2>2. h.limit = 0 \/ g.footprint <= h.limit
    BY <1>1, <1>2, <1>7, <2>1
  <2> QED
    BY <1>7, <1>8, <2>2 DEF Asked
<1>10. g.chunk[b].size >= n
  <2>1. b \in DOMAIN g.chunk
    BY <1>7, Inside
  <2>2. g.chunk[b].size \in Nat
    BY <1>7, <2>1, Inside, ChunkFields
  <2> QED
    BY <1>1, <1>7, <2>2, Numbers
<1>11. o.heap.chunk[o.at].size >= n /\ o.at \notin L /\ o.at # 0 /\ Sound(o.heap, L \cup {o.at}, {})
  BY <1>4, <1>7, <1>10
<1>12. h.mmapon \/ (o.heap.chunk[o.at].cin /\ o.heap.chunk[o.at].pin)
  OBVIOUS
<1>13. Asked(h, o.heap, L) /\ o.at # 0
  BY <1>4, <1>9, <1>11
<1>14. Lends(h, o, L, n)
  BY ONLY <1>11, <1>12, <1>13 DEF Lends
<1> QED
  BY <1>13, <1>14

\* A block cut from the heap's own chunks.
LEMMA GivesLends ==
  ASSUME NEW h, NEW L, Sound(h, L, {}), NEW o, NEW n, Gives(h, o.heap, L, o.at, n)
  PROVE  Lends(h, o, L, n)
<1>1. SameBut(o.heap, h, AskFields)
  BY DEF Gives, SameBut, FreeFields, AskFields, HeapFields
<1>2. o.heap.backed = h.backed /\ o.heap.footprint = h.footprint
  BY DEF Gives, SameBut, FreeFields, HeapFields
<1>3. Asked(h, o.heap, L)
  BY <1>1, <1>2 DEF Gives, Asked
<1> QED
  BY <1>3 DEF Gives, Lends

\* A block cut from the top.
LEMMA TopLends ==
  ASSUME NEW h, NEW L, Sound(h, L, {}), NEW n \in Nat, n >= MinChunk, n < h.topsize,
         NEW o, o = FromTop(h, n)
  PROVE  Gives(h, o.heap, L, o.at, n)
<1> DEFINE g == FromTop(h, n).heap
           none == {}
<1>0. g = FromTop(h, n).heap /\ o.heap = g /\ o.at = FromTop(h, n).at /\ Sound(h, L, none)
  OBVIOUS
<1> HIDE DEF g, none
<1>a. /\ Sound(g, L \cup {h.top}, none) /\ FromTop(h, n).at = h.top /\ g.chunk[h.top].size >= n
      /\ g.chunk[h.top].cin /\ g.chunk[h.top].pin /\ Spares(h, g, L)
      /\ SameBut(g, h, {"chunk", "top", "topsize"})
  BY <1>0, FromTopSound
<1> USE DEF none
<1>1. /\ Sound(o.heap, L \cup {h.top}, {}) /\ o.at = h.top /\ o.heap.chunk[h.top].size >= n
      /\ o.heap.chunk[h.top].cin /\ o.heap.chunk[h.top].pin /\ Spares(h, o.heap, L)
      /\ SameBut(o.heap, h, {"chunk", "top", "topsize"})
  BY <1>0, <1>a
<1>2. h.top \notin L /\ h.top # 0
  BY TopFields
<1>3. SameBut(o.heap, h, FreeFields)
  BY <1>1 DEF SameBut, FreeFields
<1> QED
  BY <1>1, <1>2, <1>3 DEF Gives

\* A block from the bins.
LEMMA FromBinLends ==
  ASSUME NEW h, NEW L, Sound(h, L, {}), NEW m \in SmallSizes, h.small[m] # <<>>,
         NEW n \in Nat, n >= MinChunk, n <= m, NEW o, o = FromBin(h, n, m)
  PROVE  Lends(h, o, L, n)
<1> DEFINE a == Head(h.small[m])
<1>1. h.small \in [SmallSizes -> Seq(Nat)] /\ \A b \in Range(h.small[m]) : h.chunk[b].size = m
  BY DEF Sound, Placed
<1>2. h.small[m] \in Seq(Nat)
  BY <1>1
<1>3. a \in Range(h.small[m])
  <2>1. 1 \in DOMAIN h.small[m] /\ a = h.small[m][1]
    BY <1>2
  <2> QED
    BY <2>1 DEF Range
<1>4. a \in Binned_(h.small, h.tree)
  BY <1>3, BinnedHas
<1>5. h.chunk[a].size = m
  BY <1>1, <1>3
<1>6. o.heap = SplitToDv(Unbin(h, a, m), a, n) /\ o.at = a
  BY DEF FromBin, Outcome
<1> HIDE DEF a
<1>7. Gives(h, o.heap, L, a, n)
  BY <1>4, <1>5, <1>6, FromBinned
<1> QED
  BY <1>6, <1>7, GivesLends

\* A block from the trees.
LEMMA TreeLends ==
  ASSUME NEW h, NEW L, Sound(h, L, {}), NEW a \in h.tree, NEW n \in Nat, n >= MinChunk,
         n <= h.chunk[a].size, NEW o,
         \/ o = Outcome(SplitToDv(Unbin(h, a, SizeOf(h, a)), a, n), a)
         \/ o = Outcome(SplitToBin(Unbin(h, a, SizeOf(h, a)), a, n), a)
  PROVE  Lends(h, o, L, n)
<1> DEFINE m == h.chunk[a].size
<1>1. a \in Binned_(h.small, h.tree)
  BY BinnedHas
<1>2. /\ o.at = a
      /\ o.heap = SplitToDv(Unbin(h, a, m), a, n) \/ o.heap = SplitToBin(Unbin(h, a, m), a, n)
  BY DEF Outcome, SizeOf
<1>3. Gives(h, o.heap, L, a, n)
  BY <1>1, <1>2, FromBinned
<1> QED
  BY <1>2, <1>3, GivesLends

\* What the trees hold is large.
LEMMA TreeSizes ==
  ASSUME NEW h, NEW L, NEW U, Sound(h, L, U), NEW a \in h.tree
  PROVE  h.chunk[a].size \in Nat /\ h.chunk[a].size >= SmallLimit
<1>1. h.chunk[a].size >= SmallLimit
  BY DEF Sound, Placed
<1>2. a \in DOMAIN h.chunk
  BY BinnedHas DEF Sound, Placed, Idle_
<1>3. h.chunk[a].size \in Nat
  BY <1>2, Inside, ChunkFields
<1> QED
  BY <1>1, <1>3

----------------------------------------------------------------------------
(* The first segment grows and shrinks at its end.                         *)

\* The top may take in memory behind it, or give some up.
LEMMA TopResized ==
  ASSUME NEW h, NEW L, NEW U, Sound(h, L, U), NEW g,
         SameBut(g, h, {"chunk", "topsize", "segs", "backed", "footprint", "trimcheck"}),
         Segments(g.segs), DOMAIN g.segs = DOMAIN h.segs,
         \A i \in DOMAIN h.segs : i # 1 => g.segs[i] = h.segs[i],
         g.segs[1].base = h.segs[1].base, g.segs[1].rec = h.segs[1].rec,
         g.topsize \in Nat \ {0}, h.top + g.topsize + TopFoot = End(g.segs[1]),
         \A a \in DOMAIN h.chunk : a <= h.top \/ a >= End(g.segs[1]),
         Heads(g.chunk), DOMAIN g.chunk = DOMAIN h.chunk,
         \A a \in DOMAIN h.chunk : a # h.top => g.chunk[a] = h.chunk[a],
         g.chunk[h.top].size = g.topsize, ~g.chunk[h.top].cin, g.chunk[h.top].pin,
         g.chunk[h.top].foot = h.chunk[h.top].foot,
         Lent(g.chunk, g.segs, g.backed, g.footprint), g.trimcheck \in Nat
  PROVE  Sound(g, L, U) /\ Spares(h, g, L)
<1> DEFINE C == h.chunk
           D == g.chunk
           S == h.segs
           T == g.segs
           t == h.top
<1>1. /\ IsHeap(h) /\ Shape(C, S, t, h.state) /\ Owned(C, S, h.state, L)
      /\ Placed(C, h.small, h.tree, h.dv, t, U) /\ Sizes(C, h.dv, h.dvsize, t, h.topsize)
      /\ Settings(h)
  BY DEF Sound
<1>2. /\ Segments(S) /\ Ends(C, S, t, h.state) /\ Heads(C) /\ Linked(C, S, t, h.state) /\ Apart(C)
  BY <1>1 DEF Shape
<1>3. /\ g.top = t /\ g.state = h.state /\ g.small = h.small /\ g.tree = h.tree
      /\ g.dv = h.dv /\ g.dvsize = h.dvsize /\ g.limit = h.limit /\ g.least = h.least
      /\ g.mmapon = h.mmapon /\ g.checks = h.checks /\ IsHeap(g)
  BY DEF SameBut, HeapFields
<1> DEFINE E == h.top + h.topsize
<1>4. /\ t \in Nat \ {0} /\ t \in InHeap(C) /\ t \in DOMAIN C /\ ~C[t].cin /\ C[t].pin
      /\ Holds(S[1], t) /\ 1 \in DOMAIN S /\ E < End(S[1]) /\ t \notin L
      /\ \A a \in DOMAIN C : a <= t \/ a >= End(S[1])
  BY TopFields
<1> HIDE DEF E
<1>5. /\ End(S[1]) \in Nat /\ End(T[1]) \in Nat /\ S[1].base \in Nat /\ T[1].base \in Nat
      /\ S[1].size \in Nat /\ T[1].size \in Nat
      /\ End(S[1]) = S[1].base + S[1].size /\ End(T[1]) = T[1].base + T[1].size
  <2>1. Segments(T) /\ 1 \in DOMAIN T
    BY <1>4
  <2>2. Segments(S) /\ 1 \in DOMAIN S
    BY <1>2, <1>4
  <2> HIDE DEF S, T
  <2>3. /\ End(S[1]) = S[1].base + S[1].size /\ S[1].base \in Nat /\ S[1].size \in Nat
    BY <2>2, SegmentFields
  <2>4. /\ End(T[1]) = T[1].base + T[1].size /\ T[1].base \in Nat /\ T[1].size \in Nat
    BY <2>1, SegmentFields
  <2>5. End(S[1]) \in Nat /\ End(T[1]) \in Nat
    BY <2>3, <2>4
  <2> QED
    BY <2>3, <2>4, <2>5
<1>6. /\ T[1].base = S[1].base /\ T[1].rec = S[1].rec /\ DOMAIN T = DOMAIN S /\ Segments(T)
      /\ \A i \in DOMAIN S : i # 1 => T[i] = S[i]
  OBVIOUS
<1>7. /\ DOMAIN D = DOMAIN C /\ (\A a \in DOMAIN C : a # t => D[a] = C[a]) /\ Heads(D)
      /\ D[t].size = g.topsize /\ ~D[t].cin /\ D[t].pin /\ D[t].foot = C[t].foot
      /\ g.topsize \in Nat \ {0} /\ t + g.topsize + TopFoot = End(T[1])
      /\ \A a \in DOMAIN C : a <= t \/ a >= End(T[1])
  OBVIOUS
<1>8. Settings(h) /\ g.trimcheck \in Nat /\ Lent(D, T, g.backed, g.footprint)
  BY <1>1
<1> HIDE DEF C, D, S, T, t
<1>9. InHeap(D) = InHeap(C) /\ Idle_(D) = Idle_(C)
  BY <1>4, <1>7 DEF InHeap, Idle_
<1>10. \A i \in DOMAIN S : \A a \in DOMAIN C : Holds(T[i], a) <=> Holds(S[i], a)
  <2> SUFFICES ASSUME NEW i \in DOMAIN S, NEW a \in DOMAIN C
               PROVE  Holds(T[i], a) <=> Holds(S[i], a)
    OBVIOUS
  <2>1. CASE i # 1
    BY <1>6, <2>1
  <2>2. CASE i = 1
    <3>1. a \in Nat /\ TopFoot \in Nat
      BY <1>2, ChunkFields, Numbers
    <3>2. t < End(T[1]) /\ t < End(S[1])
      BY <1>4, <1>5, <1>7, <3>1 DEF Holds
    <3>3. a <= t \/ (a >= End(S[1]) /\ a >= End(T[1]))
      BY <1>4, <1>7
    <3>4. (a < End(S[1])) <=> (a < End(T[1]))
      BY <1>4, <1>5, <3>1, <3>2, <3>3
    <3>5. T[1].base = S[1].base /\ End(S[1]) = S[1].base + S[1].size
          /\ End(T[1]) = T[1].base + T[1].size
      BY <1>5, <1>6
    <3> QED
      BY <2>2, <3>4, <3>5 DEF Holds
  <2> QED
    BY <2>1, <2>2
<1>11. \A i \in DOMAIN S : T[i].base = S[i].base /\ T[i].rec = S[i].rec
                           /\ LastOf(T, i, t) = LastOf(S, i, t)
  BY <1>6 DEF LastOf
<1>12. Len(T) = Len(S) /\ Len(S) \in Nat /\ DOMAIN S = 1 .. Len(S)
  <2>1. DOMAIN S = 1 .. Len(S) /\ DOMAIN T = 1 .. Len(T) /\ Len(S) \in Nat /\ Len(T) \in Nat
    BY <1>2, <1>4, <1>6, SegmentFields
  <2> QED
    BY <1>6, <2>1
<1>13. Records_(T) = Records_(S)
  BY <1>11, <1>12 DEF Records_
<1>14. Shape(D, T, t, h.state)
  <2>1. Apart(D)
    <3> SUFFICES ASSUME NEW a \in DOMAIN D, NEW b \in DOMAIN D, a < b PROVE a + D[a].size <= b
      BY DEF Apart
    <3>1. CASE a = t
      <4>1. b >= End(T[1]) /\ b \in Nat
        BY <1>2, <1>4, <1>7, <3>1, ChunkFields
      <4> QED
        BY <1>4, <1>5, <1>7, <3>1, <4>1, Numbers
    <3>2. CASE a # t
      BY <1>2, <1>7, <3>2 DEF Apart
    <3> QED
      BY <3>1, <3>2
  <2>2. \A i \in DOMAIN T : T[i].base \in InHeap(D) /\ D[T[i].base].pin
    <3> TAKE i \in DOMAIN T
    <3>1. S[i].base \in InHeap(C) /\ C[S[i].base].pin
      BY <1>1, <1>6 DEF Shape
    <3> QED
      BY <1>6, <1>7, <1>9, <1>11, <3>1 DEF InHeap
  <2>3. \A a \in DOMAIN D : (\E i \in DOMAIN T : Holds(T[i], a)) <=> a \in InHeap(D)
    BY <1>1, <1>6, <1>7, <1>9, <1>10 DEF Shape
  <2>4. \A i \in 2 .. Len(T) : T[i].rec = S[i].rec /\ T[i] = S[i] /\ i \in DOMAIN S
    BY <1>6, <1>12
  <2>5. Ends(D, T, t, h.state)
    <3>1. t \in InHeap(D) /\ ~D[t].cin /\ Holds(T[1], t) /\ t + D[t].size = End(T[1]) - TopFoot
      BY <1>4, <1>5, <1>7, <1>9, <1>10, Numbers
    <3>2. h.state \in InHeap(D) /\ D[h.state].cin
      BY <1>2, <1>4, <1>7, <1>9 DEF Ends, InHeap
    <3>3. ASSUME NEW i \in 2 .. Len(T)
          PROVE  /\ T[i].rec \in InHeap(D) /\ Holds(T[i], T[i].rec) /\ T[i].rec # h.state
                 /\ D[T[i].rec].cin /\ D[T[i].rec].size = SegmentChunk
                 /\ T[i].rec + TopFoot <= End(T[i])
      <4>1. T[i] = S[i] /\ i \in 2 .. Len(S)
        BY <1>12, <2>4
      <4>2. /\ S[i].rec \in InHeap(C) /\ Holds(S[i], S[i].rec) /\ S[i].rec # h.state
            /\ C[S[i].rec].cin /\ C[S[i].rec].size = SegmentChunk
            /\ S[i].rec + TopFoot <= End(S[i])
        BY <1>2, <4>1 DEF Ends
      <4>3. S[i].rec # t /\ S[i].rec \in DOMAIN C
        BY <1>4, <4>2 DEF InHeap
      <4> QED
        BY <1>7, <1>9, <4>1, <4>2, <4>3
    <3> QED
      BY <3>1, <3>2, <3>3 DEF Ends
  <2>6. Linked(D, T, t, h.state)
    <3> SUFFICES ASSUME NEW i \in DOMAIN T, NEW a \in InHeap(D), Holds(T[i], a)
                 PROVE  /\ a <= LastOf(T, i, t)
                        /\ a # LastOf(T, i, t) =>
                            /\ D[a].size >= MinChunk
                            /\ a + D[a].size \in InHeap(D) /\ Holds(T[i], a + D[a].size)
                            /\ Tells(D, a, a + D[a].size, h.state)
                        /\ a # T[i].base => \E b \in InHeap(D) : b + D[b].size = a /\ Holds(T[i], b)
      BY DEF Linked
    <3>1. i \in DOMAIN S /\ a \in InHeap(C) /\ a \in DOMAIN C /\ Holds(S[i], a)
      BY <1>6, <1>9, <1>10 DEF InHeap
    <3>2. a <= LastOf(T, i, t)
      BY <1>2, <1>11, <3>1 DEF Linked
    <3>3. ASSUME a # LastOf(T, i, t)
          PROVE  /\ D[a].size >= MinChunk
                 /\ a + D[a].size \in InHeap(D) /\ Holds(T[i], a + D[a].size)
                 /\ Tells(D, a, a + D[a].size, h.state)
      <4>1. a # t
        <5>1. ASSUME a = t PROVE FALSE
          <6>1. i = 1
            BY <1>2, <1>4, <3>1, <5>1, OneSegment
          <6> QED
            BY <3>3, <5>1, <6>1 DEF LastOf
        <5> QED
          BY <5>1
      <4>2. /\ C[a].size >= MinChunk
            /\ a + C[a].size \in InHeap(C) /\ Holds(S[i], a + C[a].size)
            /\ Tells(C, a, a + C[a].size, h.state)
        BY <1>2, <1>11, <3>1, <3>3 DEF Linked
      <4> DEFINE n == a + C[a].size
      <4>3. D[a] = C[a] /\ n \in DOMAIN C
        BY <1>7, <3>1, <4>1, <4>2 DEF InHeap
      <4> HIDE DEF n
      <4>4. (D[n].pin <=> C[n].pin) /\ D[n].foot = C[n].foot /\ (D[n].cin <=> C[n].cin)
        BY <1>4, <1>7, <4>3
      <4>5. D[n].pin \in BOOLEAN /\ C[n].pin \in BOOLEAN /\ C[a].cin \in BOOLEAN
        BY <1>2, <1>7, <3>1, <4>3, ChunkFields
      <4>6. Tells(D, a, n, h.state)
        BY <4>2, <4>3, <4>4, <4>5 DEF Tells, n
      <4> QED
        BY <1>9, <1>10, <3>1, <4>2, <4>3, <4>6 DEF n
    <3>4. ASSUME a # T[i].base
          PROVE  \E b \in InHeap(D) : b + D[b].size = a /\ Holds(T[i], b)
      <4>1. PICK b \in InHeap(C) : b + C[b].size = a /\ Holds(S[i], b)
        BY <1>2, <1>11, <3>1, <3>4 DEF Linked
      <4>2. b \in DOMAIN C /\ b # t
        <5>1. b \in DOMAIN C
          BY DEF InHeap
        <5>2. ASSUME b = t PROVE FALSE
          <6>1. i = 1
            BY <1>2, <1>4, <3>1, <4>1, <5>2, OneSegment
          <6>2. C[t].size \in Nat /\ C[t].size > 0 /\ a \in Nat
            BY <1>2, <1>4, <3>1, ChunkFields
          <6>3. a > t
            BY <1>4, <4>1, <5>2, <6>2
          <6>4. a >= End(S[1])
            BY <1>4, <3>1, <6>2, <6>3
          <6>5. a < End(S[1])
            BY <1>5, <3>1, <6>1 DEF Holds
          <6> QED
            BY <1>5, <6>2, <6>4, <6>5
        <5> QED
          BY <5>1, <5>2
      <4>3. b \in InHeap(D) /\ b + D[b].size = a /\ Holds(T[i], b)
        BY <1>7, <1>9, <1>10, <3>1, <4>1, <4>2
      <4> QED
        BY <4>3
    <3> QED
      BY <3>2, <3>3, <3>4
  <2> QED
    BY <1>6, <1>7, <2>1, <2>2, <2>3, <2>5, <2>6 DEF Shape
<1>15. Owned(D, T, h.state, L)
  <2>1. {a \in DOMAIN D : D[a].cin \/ ~D[a].pin} = {a \in DOMAIN C : C[a].cin \/ ~C[a].pin}
    BY <1>4, <1>7
  <2>2. Owned(C, S, h.state, L)
    BY <1>1 DEF C, S
  <2> QED
    BY <1>13, <2>1, <2>2 DEF Owned
<1>16. Placed(D, h.small, h.tree, h.dv, t, U) /\ Sizes(D, h.dv, h.dvsize, t, g.topsize)
  <2>1. Placed(C, h.small, h.tree, h.dv, t, U) /\ Sizes(C, h.dv, h.dvsize, t, h.topsize)
    BY <1>1 DEF C, t
  <2>2. t \notin Binned_(h.small, h.tree) /\ t # h.dv
        /\ Binned_(h.small, h.tree) \subseteq Idle_(C)
    BY <2>1 DEF Placed
  <2>3. \A a \in Idle_(C) : a # t => D[a] = C[a]
    BY <1>7 DEF Idle_
  <2>4. \A n \in SmallSizes : \A a \in Range(h.small[n]) : D[a].size = n
    <3>1. \A n \in SmallSizes : \A a \in Range(h.small[n]) : a \in Idle_(C) /\ a # t
      BY <2>2, BinnedHas
    <3> QED
      BY <2>1, <2>3, <3>1 DEF Placed
  <2>5. \A a \in h.tree : D[a].size >= SmallLimit
    <3>1. \A a \in h.tree : a \in Idle_(C) /\ a # t
      BY <2>2, BinnedHas
    <3> QED
      BY <2>1, <2>3, <3>1 DEF Placed
  <2>6. h.dv # 0 => D[h.dv] = C[h.dv]
    <3>1. h.dv # 0 => h.dv \in Idle_(C)
      BY <2>1 DEF Placed
    <3> QED
      BY <2>2, <2>3, <3>1
  <2>7. Sizes(D, h.dv, h.dvsize, t, g.topsize)
    BY <1>7, <2>1, <2>6 DEF Sizes
  <2> QED
    BY <1>9, <2>1, <2>4, <2>5, <2>7 DEF Placed
<1>17. Settings(g)
  <2>1. \A i \in DOMAIN T : T[i].base >= h.least
    BY <1>6, <1>8, <1>11 DEF Settings, S
  <2>2. \A a \in DOMAIN D : a >= h.least
    BY <1>7, <1>8 DEF Settings, C
  <2> QED
    BY <1>3, <1>8, <2>1, <2>2 DEF Settings, T, D
<1>18. Sound(g, L, U)
  BY <1>3, <1>8, <1>14, <1>15, <1>16, <1>17 DEF Sound, D, T
<1>19. Spares(h, g, L)
  <2>1. L \subseteq DOMAIN C
    BY Inside DEF C
  <2> QED
    BY <1>4, <1>7, <2>1 DEF Spares, C, D
<1> QED
  BY <1>18, <1>19
\* A region and the one behind it.
LEMMA GranulesJoin ==
  ASSUME NEW b, NEW s, NEW t, Whole(b), Whole(s), Whole(t)
  PROVE  /\ GranulesOf(b, s + t) = GranulesOf(b, s) \cup GranulesOf(b + s, t)
         /\ GranulesOf(b, s) \cap GranulesOf(b + s, t) = {}
         /\ Whole(b + s) /\ Whole(s + t)
<1>1. Whole(b + s) /\ Whole(s + t)
  BY WholeSum
<1>2. PICK k, m \in Nat \ {0} : b = k * Granule /\ s = m * Granule /\ GranulesOf(b, s) = k .. (k + m - 1)
  BY GranulesAre
<1>3. PICK j \in Nat \ {0} : t = j * Granule
  BY DEF Whole
<1> DEFINE bs == b + s
           st == s + t
<1>4. bs = (k + m) * Granule /\ st = (m + j) * Granule /\ k + m \in Nat \ {0} /\ m + j \in Nat \ {0}
  BY <1>2, <1>3, Numbers, Products
<1>5. b + st = (k + (m + j)) * Granule /\ bs + t = ((k + m) + j) * Granule
  BY <1>2, <1>3, <1>4, Numbers, Products
<1> HIDE DEF bs, st
<1>6. /\ b \div Granule = k /\ bs \div Granule = k + m
      /\ (b + st) \div Granule = k + m + j /\ (bs + t) \div Granule = k + m + j
  <2>1. k + (m + j) \in Nat /\ (k + m) + j \in Nat /\ k + m \in Nat
        /\ k + (m + j) = k + m + j /\ (k + m) + j = k + m + j
    BY <1>2, <1>3
  <2> QED
    BY <1>2, <1>4, <1>5, <2>1, Numbers, Quotient
<1>7. GranulesOf(b, st) = k .. (k + m + j - 1) /\ GranulesOf(bs, t) = (k + m) .. (k + m + j - 1)
  BY <1>6 DEF GranulesOf
<1>8. /\ k .. (k + m + j - 1) = (k .. (k + m - 1)) \cup ((k + m) .. (k + m + j - 1))
      /\ (k .. (k + m - 1)) \cap ((k + m) .. (k + m + j - 1)) = {}
  BY <1>2, <1>3
<1> QED
  BY <1>1, <1>2, <1>7, <1>8 DEF bs, st

\* What the system lends, and its size.
Counted(E, G) == E \subseteq Space /\ G = Granule * Cardinality(E)

\* The system may lend a region next to a segment.
LEMMA LentGrown ==
  ASSUME NEW C, NEW S, NEW B, NEW F, Lent(C, S, B, F), NEW D, NEW T, NEW E, NEW G, Counted(E, G),
         DOMAIN T = DOMAIN S, NEW j \in DOMAIN S, NEW b, NEW s, NEW R, R = GranulesOf(b, s),
         \A i \in DOMAIN S : i # j => T[i].base = S[i].base /\ T[i].size = S[i].size,
         Whole(T[j].base), Whole(T[j].size),
         GranulesOf(T[j].base, T[j].size) = GranulesOf(S[j].base, S[j].size) \cup R,
         B \subseteq E, R \subseteq E, R \cap B = {},
         Maps(D) = Maps(C), \A a \in Maps(C) : D[a] = C[a]
  PROVE  Lent(D, T, E, G)
<1> DEFINE P(i) == GranulesOf(S[i].base, S[i].size)
           Q(i) == GranulesOf(T[i].base, T[i].size)
           M(a) == GranulesOf(MapBase(C, a), MapLength(C, a))
<1>1. /\ B \subseteq Space
      /\ \A i \in DOMAIN S : Whole(S[i].base) /\ Whole(S[i].size) /\ P(i) \subseteq B
      /\ \A i, k \in DOMAIN S : i # k => P(i) \cap P(k) = {}
      /\ \A a \in Maps(C) : Whole(MapBase(C, a)) /\ Whole(MapLength(C, a)) /\ M(a) \subseteq B
                            /\ \A i \in DOMAIN S : M(a) \cap P(i) = {}
      /\ \A a, c \in Maps(C) : a # c => M(a) \cap M(c) = {}
  BY DEF Lent
<1>2. Q(j) = P(j) \cup R /\ (\A i \in DOMAIN S : i # j => Q(i) = P(i))
  OBVIOUS
<1>3. \A a \in Maps(C) : MapBase(D, a) = MapBase(C, a) /\ MapLength(D, a) = MapLength(C, a)
  BY DEF MapBase, MapLength
<1>4. \A a \in Maps(C) : GranulesOf(MapBase(D, a), MapLength(D, a)) = M(a)
  BY <1>3
<1>5. \A i \in DOMAIN S : Whole(T[i].base) /\ Whole(T[i].size)
  BY <1>1
<1> HIDE DEF P, Q, M
<1>6. \A i \in DOMAIN S : Q(i) \subseteq E
  BY <1>1, <1>2
<1>7. \A i, k \in DOMAIN S : i # k => Q(i) \cap Q(k) = {}
  BY <1>1, <1>2
<1>8. \A a \in Maps(C) : M(a) \subseteq E /\ \A i \in DOMAIN S : M(a) \cap Q(i) = {}
  BY <1>1, <1>2
<1>9. E \subseteq Space /\ G = Granule * Cardinality(E)
  BY DEF Counted
<1>10. \A i \in DOMAIN T : Whole(T[i].base) /\ Whole(T[i].size)
                           /\ GranulesOf(T[i].base, T[i].size) \subseteq E
  BY <1>5, <1>6 DEF Q
<1>11. \A i, k \in DOMAIN T : i # k =>
          GranulesOf(T[i].base, T[i].size) \cap GranulesOf(T[k].base, T[k].size) = {}
  BY <1>7 DEF Q
<1>12. \A a \in Maps(D) :
        /\ Whole(MapBase(D, a)) /\ Whole(MapLength(D, a))
        /\ GranulesOf(MapBase(D, a), MapLength(D, a)) \subseteq E
        /\ \A i \in DOMAIN T :
            GranulesOf(MapBase(D, a), MapLength(D, a)) \cap GranulesOf(T[i].base, T[i].size) = {}
  BY <1>1, <1>3, <1>4, <1>8 DEF Q
<1>13. \A a, c \in Maps(D) : a # c =>
          GranulesOf(MapBase(D, a), MapLength(D, a))
            \cap GranulesOf(MapBase(D, c), MapLength(D, c)) = {}
  BY <1>1, <1>4
<1> QED
  BY <1>9, <1>10, <1>11, <1>12, <1>13 DEF Lent

\* The chunk of a top.
LEMMA InitTopOf ==
  ASSUME NEW k, IsHeap(k), Heads(k.chunk), NEW a, a \in Nat \ {0}, NEW n, n \in Nat \ {0},
         NEW g, g = InitTop(k, a, n)
  PROVE  /\ SameBut(g, k, {"chunk", "top", "topsize", "trimcheck"})
         /\ g.top = a /\ g.topsize = n /\ g.trimcheck = TrimThreshold
         /\ Heads(g.chunk) /\ Overwrites(k.chunk, g.chunk, a, n)
         /\ ~g.chunk[a].cin /\ g.chunk[a].pin /\ g.chunk[a].size = n
<1> DEFINE H == Put(k, a, n, FALSE, TRUE)
<1>1. /\ SameBut(H, k, {"chunk"}) /\ IsHeap(H) /\ Heads(H.chunk) /\ Overwrites(k.chunk, H.chunk, a, n)
      /\ ~H.chunk[a].cin /\ H.chunk[a].pin
  <2>1. /\ SameBut(H, k, {"chunk"}) /\ IsHeap(H) /\ Heads(H.chunk)
        /\ Overwrites(k.chunk, H.chunk, a, n)
    BY PutOf
  <2>2. (H.chunk[a].cin <=> FALSE) /\ (H.chunk[a].pin <=> TRUE)
    BY PutOf
  <2> QED
    BY <2>1, <2>2
<1>2. g = [H EXCEPT !.top = a, !.topsize = n, !.trimcheck = TrimThreshold]
  BY DEF InitTop
<1> HIDE DEF H
<1>3. /\ g.chunk = H.chunk /\ g.top = a /\ g.topsize = n /\ g.trimcheck = TrimThreshold
      /\ SameBut(g, k, {"chunk", "top", "topsize", "trimcheck"})
  BY <1>1, <1>2 DEF SameBut, IsHeap, HeapFields
<1>4. g.chunk[a].size = n
  BY <1>1, <1>3 DEF Overwrites
<1> QED
  BY <1>1, <1>3, <1>4

\* The first segment takes in a region behind it.
LEMMA ExtendTop ==
  ASSUME NEW h, NEW L, NEW U, Sound(h, L, U), NEW s, Whole(s),
         GranulesOf(End(h.segs[1]), s) \subseteq Space \ h.backed,
         NEW k, SameBut(k, h, {"segs", "backed", "footprint"}),
         k.segs = [h.segs EXCEPT ![1].size = h.segs[1].size + s],
         k.backed = h.backed \cup GranulesOf(End(h.segs[1]), s), k.footprint = h.footprint + s,
         NEW n, n = h.topsize + s, NEW g, g = InitTop(k, h.top, n)
  PROVE  /\ Sound(g, L, U) /\ Spares(h, g, L) /\ h.backed \subseteq g.backed
         /\ g.footprint <= h.footprint + s /\ g.topsize >= h.topsize + s
         /\ SameBut(g, h, {"chunk", "topsize", "segs", "backed", "footprint", "trimcheck"})
<1> DEFINE S == h.segs
           T == k.segs
           b == End(h.segs[1])
<1>1. /\ Segments(S) /\ IsHeap(h) /\ Heads(h.chunk) /\ Lent(h.chunk, S, h.backed, h.footprint)
      /\ 1 \in DOMAIN S
  <2>1. Segments(S) /\ IsHeap(h) /\ Heads(h.chunk) /\ Lent(h.chunk, S, h.backed, h.footprint)
    BY DEF Sound, Shape
  <2>2. S \in Seq(Segment) /\ Len(S) >= 1
    BY <2>1 DEF Segments
  <2> HIDE DEF S
  <2>3. 1 \in DOMAIN S
    BY <2>2
  <2> QED
    BY <2>1, <2>3
<1>2. /\ S[1].base \in Nat /\ S[1].size \in Nat /\ b = S[1].base + S[1].size /\ S[1] \in Segment
      /\ S[1].base > 0 /\ S[1].size > 0
  BY <1>1, SegmentFields
<1>3. s \in Nat \ {0}
  BY WholeSum
<1>4. /\ IsHeap(k) /\ k.segs = [S EXCEPT ![1].size = S[1].size + s]
      /\ k.backed = h.backed \cup GranulesOf(b, s) /\ k.footprint = h.footprint + s
      /\ SameBut(k, h, {"segs", "backed", "footprint"})
  BY DEF SameBut
<1>5. /\ T[1] = [S[1] EXCEPT !.size = S[1].size + s] /\ DOMAIN T = DOMAIN S
      /\ \A i \in DOMAIN S : i # 1 => T[i] = S[i]
  BY <1>1, <1>4
<1>6. /\ T[1].base = S[1].base /\ T[1].size = S[1].size + s /\ T[1].rec = S[1].rec
      /\ T[1] \in Segment /\ T \in Seq(Segment) /\ Len(T) = Len(S)
  <2>1. T[1].base = S[1].base /\ T[1].size = S[1].size + s /\ T[1].rec = S[1].rec /\ T[1] \in Segment
    BY <1>2, <1>3, <1>5 DEF Segment
  <2>2. S \in Seq(Segment)
    BY <1>1 DEF Segments
  <2>3. \A i \in DOMAIN S : S[i] \in Segment
    BY <2>2
  <2>4. DOMAIN S = 1 .. Len(S) /\ Len(S) \in Nat
    BY <2>2
  <2>5. T = [i \in 1 .. Len(S) |-> T[i]]
    BY <1>4, <2>4
  <2>6. \A i \in 1 .. Len(S) : T[i] \in Segment
    BY <1>5, <2>1, <2>3, <2>4
  <2> HIDE DEF T
  <2>7. T \in [1 .. Len(S) -> Segment]
    BY <2>5, <2>6
  <2>8. T \in Seq(Segment) /\ Len(T) = Len(S)
    BY <2>4, <2>7
  <2> QED
    BY <2>1, <2>8
<1>7. /\ \A i \in DOMAIN S : End(S[i]) <= b \/ b + s <= S[i].base
      /\ \A a \in DOMAIN h.chunk : a + h.chunk[a].size < b \/ b + s <= a
      /\ Whole(b)
  <2>1. Whole(S[1].base) /\ Whole(S[1].size)
    BY <1>1 DEF Lent
  <2>2. Whole(b)
    BY <1>2, <2>1, WholeSum
  <2>3. GranulesOf(b, s) \cap h.backed = {}
    OBVIOUS
  <2> HIDE DEF b
  <2>4. /\ \A i \in DOMAIN h.segs : End(h.segs[i]) <= b \/ b + s <= h.segs[i].base
        /\ \A a \in DOMAIN h.chunk : a + h.chunk[a].size < b \/ b + s <= a
    BY <2>2, <2>3, FreshRegion
  <2> QED
    BY <2>2, <2>4
<1> HIDE DEF T, b
<1>8. End(T[1]) = b + s
  BY <1>2, <1>3, <1>6 DEF End
<1>9. Segments(T)
  <2> SUFFICES ASSUME NEW i \in DOMAIN S, NEW j \in DOMAIN S, i # j
               PROVE  End(T[i]) <= T[j].base \/ End(T[j]) <= T[i].base
    BY <1>1, <1>5, <1>6 DEF Segments
  <2>1. End(S[i]) <= S[j].base \/ End(S[j]) <= S[i].base
    BY <1>1 DEF Segments
  <2>2. /\ S[i].base \in Nat /\ S[i].size \in Nat /\ End(S[i]) = S[i].base + S[i].size /\ S[i].size > 0
        /\ S[j].base \in Nat /\ S[j].size \in Nat /\ End(S[j]) = S[j].base + S[j].size /\ S[j].size > 0
    BY <1>1, SegmentFields
  <2>3. CASE i = 1
    <3>1. T[j] = S[j] /\ (End(S[j]) <= b \/ b + s <= S[j].base) /\ End(T[1]) = b + s
      BY <1>5, <1>7, <1>8, <2>3
    <3>2. b = End(S[1])
      BY DEF b
    <3> QED
      BY <1>2, <1>3, <1>6, <2>1, <2>2, <2>3, <3>1, <3>2
  <2>4. CASE j = 1
    <3>1. T[i] = S[i] /\ (End(S[i]) <= b \/ b + s <= S[i].base) /\ End(T[1]) = b + s
      BY <1>5, <1>7, <1>8, <2>4
    <3>2. b = End(S[1])
      BY DEF b
    <3> QED
      BY <1>2, <1>3, <1>6, <2>1, <2>2, <2>4, <3>1, <3>2
  <2>5. CASE i # 1 /\ j # 1
    BY <1>5, <2>1, <2>5
  <2> QED
    BY <2>3, <2>4, <2>5
<1> DEFINE E == h.top + h.topsize
<1>10. /\ h.top \in Nat \ {0} /\ h.top \in DOMAIN h.chunk /\ h.chunk[h.top].pin /\ ~h.chunk[h.top].cin
       /\ h.topsize \in Nat \ {0} /\ E = End(h.segs[1]) - TopFoot /\ E \in Nat
       /\ \A a \in DOMAIN h.chunk : a <= h.top \/ a >= End(h.segs[1])
  BY TopFields
<1>11. \A a \in DOMAIN h.chunk : a <= h.top \/ a >= b + s
  <2> TAKE a \in DOMAIN h.chunk
  <2>1. a \in Nat /\ h.chunk[a].size \in Nat
    BY <1>1, ChunkFields
  <2>2. a <= h.top \/ a >= b
    BY <1>10 DEF b
  <2>3. a + h.chunk[a].size < b \/ b + s <= a
    BY <1>7
  <2> QED
    BY <1>2, <2>1, <2>2, <2>3, <1>10
<1>12. n \in Nat \ {0} /\ h.top + n + TopFoot = b + s /\ h.top + n < b + s /\ n = h.topsize + s
  <2>1. h.top + h.topsize = b - TopFoot /\ b \in Nat
    BY <1>2, <1>10 DEF b
  <2> QED
    BY <1>3, <1>10, <2>1, Numbers
<1>13. Heads(k.chunk) /\ k.chunk = h.chunk
  BY <1>1, <1>4 DEF SameBut, HeapFields
<1>14. n \in Nat \ {0} /\ h.top \in Nat \ {0}
  BY <1>10, <1>12
<1> HIDE DEF E
<1>15. /\ SameBut(g, k, {"chunk", "top", "topsize", "trimcheck"})
       /\ g.top = h.top /\ g.topsize = n /\ g.trimcheck = TrimThreshold
       /\ Heads(g.chunk) /\ Overwrites(h.chunk, g.chunk, h.top, n)
       /\ ~g.chunk[h.top].cin /\ g.chunk[h.top].pin /\ g.chunk[h.top].size = n
  <2>1. /\ SameBut(g, k, {"chunk", "top", "topsize", "trimcheck"})
        /\ Heads(g.chunk) /\ Overwrites(k.chunk, g.chunk, h.top, n)
        /\ ~g.chunk[h.top].cin /\ g.chunk[h.top].pin
    BY <1>4, <1>13, <1>14, InitTopOf
  <2>2. g.top = h.top /\ g.topsize = n
    BY <1>4, <1>13, <1>14, InitTopOf
  <2>3. g.trimcheck = TrimThreshold
    BY <1>4, <1>13, <1>14, InitTopOf
  <2>4. g.chunk[h.top].size = n
    BY <1>4, <1>13, <1>14, InitTopOf
  <2> QED
    BY <1>13, <2>1, <2>2, <2>3, <2>4
<1>16. /\ DOMAIN g.chunk = DOMAIN h.chunk
       /\ \A a \in DOMAIN h.chunk : a # h.top => g.chunk[a] = h.chunk[a]
       /\ g.chunk[h.top].foot = h.chunk[h.top].foot
  <2>1. \A a \in DOMAIN h.chunk : a # h.top + n /\ (a <= h.top \/ a >= h.top + n)
    <3> TAKE a \in DOMAIN h.chunk
    <3>1. a \in Nat /\ b \in Nat
      BY <1>1, <1>2, ChunkFields
    <3>2. a <= h.top \/ a >= b + s
      BY <1>11
    <3> QED
      BY <1>3, <1>10, <1>12, <3>1, <3>2
  <2>2. \A a \in DOMAIN h.chunk : a < h.top \/ a >= h.top + n \/ a = h.top
    BY <1>1, <1>10, <2>1, ChunkFields
  <2> QED
    BY <1>10, <1>15, <2>1, <2>2 DEF Overwrites
<1>17. /\ g.segs = T /\ g.backed = h.backed \cup GranulesOf(b, s) /\ g.footprint = h.footprint + s
       /\ SameBut(g, h, {"chunk", "topsize", "segs", "backed", "footprint", "trimcheck"})
  <2>1. /\ g.segs = T /\ g.backed = h.backed \cup GranulesOf(b, s) /\ g.footprint = h.footprint + s
    BY <1>4, <1>15 DEF SameBut, HeapFields, T
  <2>2. SameBut(g, h, {"chunk", "topsize", "segs", "backed", "footprint", "trimcheck"})
    BY <1>4, <1>15 DEF SameBut, HeapFields
  <2> QED
    BY <2>1, <2>2
<1>18. Lent(g.chunk, T, g.backed, g.footprint)
  <2>1. Maps(g.chunk) = Maps(h.chunk) /\ \A a \in Maps(h.chunk) : g.chunk[a] = h.chunk[a]
    BY <1>10, <1>15, <1>16 DEF Maps
  <2>2. Whole(S[1].base) /\ Whole(S[1].size)
    BY <1>1 DEF Lent
  <2>3. GranulesOf(S[1].base, S[1].size + s) = GranulesOf(S[1].base, S[1].size) \cup GranulesOf(b, s)
        /\ Whole(S[1].size + s)
    <3> DEFINE x == S[1].base
               y == S[1].size
    <3>1. b = x + y /\ Whole(x) /\ Whole(y)
      BY <1>2, <2>2
    <3> HIDE DEF x, y
    <3>2. GranulesOf(x, y + s) = GranulesOf(x, y) \cup GranulesOf(x + y, s) /\ Whole(y + s)
      BY <3>1, GranulesJoin
    <3> QED
      BY <3>1, <3>2 DEF x, y
  <2>4. /\ \A i \in DOMAIN S : i # 1 => T[i].base = S[i].base /\ T[i].size = S[i].size
        /\ Whole(T[1].base) /\ Whole(T[1].size)
        /\ GranulesOf(T[1].base, T[1].size) = GranulesOf(S[1].base, S[1].size) \cup GranulesOf(b, s)
    BY <1>5, <1>6, <2>2, <2>3
  <2>5. g.footprint = Granule * Cardinality(g.backed)
    <3>1. GranulesOf(b, s) \subseteq Space \ h.backed /\ h.backed \subseteq Space
      BY <1>1 DEF Lent, b
    <3>2. Granule * Cardinality(h.backed) + s = Granule * Cardinality(h.backed \cup GranulesOf(b, s))
      BY <1>7, <3>1, MoreBacked
    <3>3. h.footprint = Granule * Cardinality(h.backed)
      BY <1>1 DEF Lent
    <3> QED
      BY <1>17, <3>2, <3>3
  <2>6. GranulesOf(b, s) \subseteq Space \ h.backed
    BY DEF b
  <2> DEFINE R == GranulesOf(b, s)
             C == h.chunk
             D == g.chunk
             F == g.backed
             G == g.footprint
             B == h.backed
  <2>7. Counted(F, G)
    BY <1>1, <1>17, <2>5, <2>6 DEF Counted, Lent
  <2>8. /\ Lent(C, S, B, h.footprint) /\ DOMAIN T = DOMAIN S /\ 1 \in DOMAIN S
        /\ \A i \in DOMAIN S : i # 1 => T[i].base = S[i].base /\ T[i].size = S[i].size
        /\ Whole(T[1].base) /\ Whole(T[1].size)
        /\ GranulesOf(T[1].base, T[1].size) = GranulesOf(S[1].base, S[1].size) \cup R
        /\ R \cap B = {} /\ B \subseteq F /\ R \subseteq F /\ R = GranulesOf(b, s)
        /\ Maps(D) = Maps(C) /\ \A a \in Maps(C) : D[a] = C[a]
    BY <1>1, <1>5, <1>17, <2>1, <2>4, <2>6
  <2> HIDE DEF R, C, D, F, G, S, B
  <2>9. Lent(D, T, F, G)
    BY <2>7, <2>8, LentGrown
  <2> QED
    BY <2>9 DEF D, F, G
<1>19. Sound(g, L, U) /\ Spares(h, g, L)
  <2>1. /\ Segments(g.segs) /\ DOMAIN g.segs = DOMAIN h.segs
        /\ \A i \in DOMAIN h.segs : i # 1 => g.segs[i] = h.segs[i]
        /\ g.segs[1].base = h.segs[1].base /\ g.segs[1].rec = h.segs[1].rec
        /\ g.topsize \in Nat \ {0} /\ h.top + g.topsize + TopFoot = End(g.segs[1])
        /\ \A a \in DOMAIN h.chunk : a <= h.top \/ a >= End(g.segs[1])
    BY <1>5, <1>6, <1>8, <1>9, <1>11, <1>12, <1>15, <1>17
  <2>2. /\ Heads(g.chunk) /\ DOMAIN g.chunk = DOMAIN h.chunk
        /\ \A a \in DOMAIN h.chunk : a # h.top => g.chunk[a] = h.chunk[a]
        /\ g.chunk[h.top].size = g.topsize /\ ~g.chunk[h.top].cin /\ g.chunk[h.top].pin
        /\ g.chunk[h.top].foot = h.chunk[h.top].foot
        /\ Lent(g.chunk, g.segs, g.backed, g.footprint) /\ g.trimcheck \in Nat
    BY <1>15, <1>16, <1>17, <1>18, Numbers
  <2> QED
    BY <1>17, <2>1, <2>2, TopResized, SMTT(30)
<1>20. g.footprint <= h.footprint + s /\ g.topsize >= h.topsize + s
  <2>1. h.footprint \in Nat
    BY FootprintNat
  <2> QED
    BY <1>3, <1>10, <1>12, <1>15, <1>17, <2>1
<1> QED
  BY <1>17, <1>19, <1>20
=============================================================================
