--------------------------- MODULE HeapCallProofs ---------------------------
(***************************************************************************)
(* A sound space stays sound when it gets memory below a segment or a new  *)
(* segment, when a block is allocated or resized in place, and when free   *)
(* segments are released.                                                  *)
(***************************************************************************)
EXTENDS HeapProofs, FunctionTheorems

----------------------------------------------------------------------------
(* A segment grows at its base.                                            *)

\* In g, the segment i of h begins at b, with a chunk in use up to its old base.
MovedBase(h, g, i, b, s) ==
  /\ SameBut(g, h, {"chunk", "segs", "backed", "footprint", "least"})
  /\ Whole(b) /\ Whole(s) /\ GranulesOf(b, s) \subseteq Space \ h.backed
  /\ b + s = h.segs[i].base /\ s >= MinChunk
  /\ Segments(g.segs) /\ DOMAIN g.segs = DOMAIN h.segs
  /\ \A j \in DOMAIN h.segs : j # i => g.segs[j] = h.segs[j]
  /\ g.segs[i].base = b /\ g.segs[i].rec = h.segs[i].rec /\ End(g.segs[i]) = End(h.segs[i])
  /\ Heads(g.chunk) /\ DOMAIN g.chunk = DOMAIN h.chunk \cup {b}
  /\ \A a \in DOMAIN h.chunk : a # h.segs[i].base => g.chunk[a] = h.chunk[a]
  /\ g.chunk[h.segs[i].base].size = h.chunk[h.segs[i].base].size
  /\ g.chunk[h.segs[i].base].cin = h.chunk[h.segs[i].base].cin
  /\ g.chunk[h.segs[i].base].pin /\ g.chunk[h.segs[i].base].foot = Stamp
  /\ g.chunk[b].size = s /\ g.chunk[b].cin /\ g.chunk[b].pin
  /\ Lent(g.chunk, g.segs, g.backed, g.footprint)
  /\ g.least \in Nat /\ g.least <= h.least /\ g.least <= b

\* The region in front of a segment may join it as a chunk in use.
LEMMA BaseMoved ==
  ASSUME NEW h, NEW L, NEW U, Sound(h, L, U), NEW g, NEW i \in DOMAIN h.segs, NEW b, NEW s,
         MovedBase(h, g, i, b, s)
  PROVE  Sound(g, L \cup {b}, U) /\ b \notin DOMAIN h.chunk /\ Spares(h, g, L)
<1> SUFFICES
  ASSUME NEW old,
         SameBut(g, h, {"chunk", "segs", "backed", "footprint", "least"}),
         Whole(b), Whole(s), GranulesOf(b, s) \subseteq Space \ h.backed,
         old = h.segs[i].base, b + s = old, s >= MinChunk,
         Segments(g.segs), DOMAIN g.segs = DOMAIN h.segs,
         \A j \in DOMAIN h.segs : j # i => g.segs[j] = h.segs[j],
         g.segs[i].base = b, g.segs[i].rec = h.segs[i].rec, End(g.segs[i]) = End(h.segs[i]),
         Heads(g.chunk), DOMAIN g.chunk = DOMAIN h.chunk \cup {b},
         \A a \in DOMAIN h.chunk : a # old => g.chunk[a] = h.chunk[a],
         g.chunk[old].size = h.chunk[old].size, g.chunk[old].cin = h.chunk[old].cin,
         g.chunk[old].pin, g.chunk[old].foot = Stamp,
         g.chunk[b].size = s, g.chunk[b].cin, g.chunk[b].pin,
         Lent(g.chunk, g.segs, g.backed, g.footprint),
         g.least \in Nat, g.least <= h.least, g.least <= b
  PROVE  Sound(g, L \cup {b}, U) /\ b \notin DOMAIN h.chunk /\ Spares(h, g, L)
  BY DEF MovedBase
<1> DEFINE C == h.chunk
           D == g.chunk
           S == h.segs
           T == g.segs
           t == h.top
<1>1. /\ IsHeap(h) /\ Shape(C, S, t, h.state) /\ Owned(C, S, h.state, L)
      /\ Placed(C, h.small, h.tree, h.dv, t, U) /\ Sizes(C, h.dv, h.dvsize, t, h.topsize)
      /\ Settings(h)
  BY DEF Sound
<1>2. /\ Segments(S) /\ Ends(C, S, t, h.state) /\ Heads(C) /\ Linked(C, S, t, h.state) /\ Apart(C)
  BY <1>1 DEF Shape
<1>3. /\ g.top = t /\ g.state = h.state /\ g.small = h.small /\ g.tree = h.tree
      /\ g.dv = h.dv /\ g.dvsize = h.dvsize /\ g.limit = h.limit /\ g.topsize = h.topsize
      /\ g.trimcheck = h.trimcheck /\ g.mmapon = h.mmapon /\ g.checks = h.checks /\ IsHeap(g)
  BY DEF SameBut, HeapFields
<1>4. /\ b \in Nat \ {0} /\ s \in Nat \ {0}
      /\ \A j \in DOMAIN S : End(S[j]) <= b \/ b + s <= S[j].base
      /\ \A a \in DOMAIN C : a + C[a].size < b \/ b + s <= a
  <2>1. GranulesOf(b, s) \cap h.backed = {}
    OBVIOUS
  <2> QED
    BY <2>1, FreshRegion
<1>5. old \in InHeap(C) /\ C[old].pin /\ old \in DOMAIN C /\ old \in Nat /\ b < old
  <2>1. old \in InHeap(C) /\ C[old].pin
    BY <1>1 DEF Shape
  <2>2. old \in DOMAIN C
    BY <2>1 DEF InHeap
  <2>3. old \in Nat
    BY <1>2, <2>2, ChunkFields
  <2> QED
    BY <1>4, <2>1, <2>2, <2>3
<1>6. b \notin DOMAIN C
  BY <1>2, <1>4, ChunkFields
<1>7. /\ DOMAIN D = DOMAIN C \cup {b} /\ (\A a \in DOMAIN C : a # old => D[a] = C[a]) /\ Heads(D)
      /\ D[old].size = C[old].size /\ (D[old].cin <=> C[old].cin) /\ D[old].pin /\ D[old].foot = Stamp
      /\ D[b].size = s /\ D[b].cin /\ D[b].pin
  OBVIOUS
<1>8. /\ T[i].base = b /\ T[i].rec = S[i].rec /\ End(T[i]) = End(S[i]) /\ S[i].base = old
      /\ DOMAIN T = DOMAIN S /\ Segments(T)
      /\ \A j \in DOMAIN S : j # i => T[j] = S[j]
  OBVIOUS
<1>9. /\ Settings(h) /\ g.least \in Nat /\ g.least <= h.least /\ g.least <= b /\ b + s = old
      /\ Lent(D, T, g.backed, g.footprint) /\ i \in DOMAIN S /\ s >= MinChunk
  BY <1>1
<1> HIDE DEF C, D, S, T, t
<1>10. \A a \in DOMAIN C : D[a].size = C[a].size /\ (D[a].cin <=> C[a].cin) /\ (D[a].pin <=> C[a].pin)
  BY <1>5, <1>7
<1>11. InHeap(D) = InHeap(C) \cup {b} /\ Idle_(D) = Idle_(C)
  BY <1>6, <1>7, <1>10 DEF InHeap, Idle_
<1>12. \A j \in DOMAIN S :
        /\ S[j].base \in Nat /\ S[j].size \in Nat /\ End(S[j]) = S[j].base + S[j].size
        /\ T[j].base \in Nat /\ T[j].size \in Nat /\ End(T[j]) = T[j].base + T[j].size
        /\ End(T[j]) = End(S[j]) /\ T[j].rec = S[j].rec /\ LastOf(T, j, t) = LastOf(S, j, t)
        /\ S[j].size > 0
  <2> TAKE j \in DOMAIN S
  <2>1. S[j].base \in Nat /\ S[j].size \in Nat /\ End(S[j]) = S[j].base + S[j].size /\ S[j].size > 0
    BY <1>2, SegmentFields
  <2>2. T[j].base \in Nat /\ T[j].size \in Nat /\ End(T[j]) = T[j].base + T[j].size
    BY <1>8, SegmentFields
  <2>3. End(T[j]) = End(S[j]) /\ T[j].rec = S[j].rec
    BY <1>8
  <2>4. LastOf(T, j, t) = LastOf(S, j, t)
    BY <2>3 DEF LastOf
  <2> QED
    BY <2>1, <2>2, <2>3, <2>4
<1>13. \A j \in DOMAIN S : \A a \in DOMAIN C : Holds(T[j], a) <=> Holds(S[j], a)
  <2> SUFFICES ASSUME NEW j \in DOMAIN S, NEW a \in DOMAIN C
               PROVE  Holds(T[j], a) <=> Holds(S[j], a)
    OBVIOUS
  <2>1. CASE j # i
    BY <1>8, <2>1
  <2>2. CASE j = i
    <3>1. a \in Nat /\ C[a].size \in Nat
      BY <1>2, ChunkFields
    <3>2. a < b \/ old <= a
      BY <1>4, <1>9, <3>1
    <3> QED
      BY <1>4, <1>5, <1>8, <1>9, <1>12, <2>2, <3>1, <3>2 DEF Holds
  <2> QED
    BY <2>1, <2>2
<1>14. \A j \in DOMAIN S : Holds(T[j], b) <=> j = i
  <2> SUFFICES ASSUME NEW j \in DOMAIN S PROVE Holds(T[j], b) <=> j = i
    OBVIOUS
  <2>1. CASE j = i
    <3>1. b < End(S[i])
      BY <1>4, <1>5, <1>8, <1>9, <1>12
    <3> QED
      BY <1>4, <1>8, <1>9, <1>12, <2>1, <3>1 DEF Holds
  <2>2. CASE j # i
    <3>1. End(S[j]) <= b \/ b + s <= S[j].base
      BY <1>4
    <3> QED
      BY <1>4, <1>8, <1>12, <2>2, <3>1 DEF Holds
  <2> QED
    BY <2>1, <2>2
<1>15. Len(T) = Len(S) /\ Len(S) \in Nat /\ DOMAIN S = 1 .. Len(S)
  <2>1. DOMAIN S = 1 .. Len(S) /\ DOMAIN T = 1 .. Len(T) /\ Len(S) \in Nat /\ Len(T) \in Nat
    BY <1>2, <1>8, <1>9, SegmentFields
  <2> QED
    BY <1>8, <2>1
<1>16. Records_(T) = Records_(S)
  BY <1>12, <1>15 DEF Records_
<1>17. Shape(D, T, t, h.state)
  <2>1. Apart(D)
    <3> SUFFICES ASSUME NEW a \in DOMAIN D, NEW c \in DOMAIN D, a < c PROVE a + D[a].size <= c
      BY DEF Apart
    <3>1. CASE a # b /\ c # b
      BY <1>2, <1>7, <1>10, <3>1 DEF Apart
    <3>2. CASE a = b
      <4>1. c \in DOMAIN C /\ c \in Nat /\ C[c].size \in Nat
        BY <1>2, <1>4, <1>7, <3>2, ChunkFields
      <4> QED
        BY <1>4, <1>7, <3>2, <4>1
    <3>3. CASE c = b
      <4>1. a \in DOMAIN C /\ a \in Nat /\ C[a].size \in Nat
        BY <1>2, <1>4, <1>7, <3>3, ChunkFields, SMTT(30)
      <4> QED
        BY <1>4, <1>10, <3>3, <4>1
    <3> QED
      BY <3>1, <3>2, <3>3
  <2>2. \A j \in DOMAIN T : T[j].base \in InHeap(D) /\ D[T[j].base].pin
    <3> TAKE j \in DOMAIN T
    <3>1. S[j].base \in InHeap(C) /\ C[S[j].base].pin
      BY <1>1, <1>8 DEF Shape, S
    <3>2. CASE j = i
      BY <1>7, <1>8, <1>11, <3>2
    <3>3. CASE j # i
      BY <1>8, <1>10, <1>11, <3>1, <3>3 DEF InHeap
    <3> QED
      BY <3>2, <3>3
  <2>3. \A a \in DOMAIN D : (\E j \in DOMAIN T : Holds(T[j], a)) <=> a \in InHeap(D)
    <3> TAKE a \in DOMAIN D
    <3>1. CASE a = b
      BY <1>8, <1>9, <1>11, <1>14, <3>1
    <3>2. CASE a # b
      <4>1. a \in DOMAIN C /\ ((\E j \in DOMAIN S : Holds(S[j], a)) <=> a \in InHeap(C))
        BY <1>1, <1>7, <3>2 DEF Shape, C, S
      <4> QED
        BY <1>8, <1>11, <1>13, <3>2, <4>1
    <3> QED
      BY <3>1, <3>2
  <2>4. Ends(D, T, t, h.state)
    <3>0. t \in DOMAIN C /\ t \in InHeap(C) /\ h.state \in DOMAIN C /\ 1 \in DOMAIN S
      BY <1>2, <1>9, SegmentFields DEF Ends, InHeap
    <3>1. t \in InHeap(D) /\ ~D[t].cin /\ Holds(T[1], t) /\ t + D[t].size = End(T[1]) - TopFoot
      <4>1. ~C[t].cin /\ Holds(S[1], t) /\ t + C[t].size = End(S[1]) - TopFoot
        BY <1>2 DEF Ends
      <4> QED
        BY <1>10, <1>11, <1>12, <1>13, <3>0, <4>1
    <3>2. h.state \in InHeap(D) /\ D[h.state].cin
      BY <1>2, <1>10, <1>11, <3>0 DEF Ends
    <3>3. ASSUME NEW j \in 2 .. Len(T)
          PROVE  /\ T[j].rec \in InHeap(D) /\ Holds(T[j], T[j].rec) /\ T[j].rec # h.state
                 /\ D[T[j].rec].cin /\ D[T[j].rec].size = SegmentChunk
                 /\ T[j].rec + TopFoot <= End(T[j])
      <4>1. j \in 2 .. Len(S) /\ j \in DOMAIN S
        BY <1>15
      <4>2. /\ S[j].rec \in InHeap(C) /\ Holds(S[j], S[j].rec) /\ S[j].rec # h.state
            /\ C[S[j].rec].cin /\ C[S[j].rec].size = SegmentChunk
            /\ S[j].rec + TopFoot <= End(S[j])
        BY <1>2, <4>1 DEF Ends
      <4>3. S[j].rec \in DOMAIN C
        BY <4>2 DEF InHeap
      <4> QED
        BY <1>10, <1>11, <1>12, <1>13, <4>1, <4>2, <4>3
    <3> QED
      BY <3>1, <3>2, <3>3 DEF Ends
  <2>5. Linked(D, T, t, h.state)
    <3> SUFFICES ASSUME NEW j \in DOMAIN T, NEW a \in InHeap(D), Holds(T[j], a)
                 PROVE  /\ a <= LastOf(T, j, t)
                        /\ a # LastOf(T, j, t) =>
                            /\ D[a].size >= MinChunk
                            /\ a + D[a].size \in InHeap(D) /\ Holds(T[j], a + D[a].size)
                            /\ Tells(D, a, a + D[a].size, h.state)
                        /\ a # T[j].base => \E c \in InHeap(D) : c + D[c].size = a /\ Holds(T[j], c)
      BY DEF Linked
    <3>0. j \in DOMAIN S
      BY <1>8
    <3>1. CASE a = b
      <4>1. j = i /\ T[j].base = b
        BY <1>8, <1>14, <3>0, <3>1
      <4>2. Holds(S[i], old)
        BY <1>5, <1>8, <1>9, <1>12 DEF Holds
      <4>3. old <= LastOf(T, j, t) /\ LastOf(T, j, t) \in Nat
        <5>1. old <= LastOf(S, i, t)
          BY <1>2, <1>5, <1>9, <4>2 DEF Linked
        <5>2. LastOf(S, i, t) \in InHeap(C)
          BY <1>2, <1>9, <1>15, SegmentFields, SMTT(30) DEF LastOf, Ends
        <5>3. LastOf(S, i, t) \in Nat
          BY <1>2, <5>2, ChunkFields DEF InHeap
        <5> QED
          BY <1>9, <1>12, <4>1, <5>1, <5>3
      <4>4. b + D[b].size = old /\ D[b].size >= MinChunk
        BY <1>7, <1>9
      <4>5. Tells(D, b, old, h.state)
        BY <1>7 DEF Tells
      <4>6. old \in InHeap(D) /\ Holds(T[j], old)
        BY <1>5, <1>9, <1>11, <1>13, <4>1, <4>2
      <4>7. b <= LastOf(T, j, t) /\ b # LastOf(T, j, t)
        BY <1>4, <1>5, <4>3
      <4> QED
        BY <3>1, <4>1, <4>4, <4>5, <4>6, <4>7
    <3>2. CASE a # b
      <4>1. a \in InHeap(C) /\ a \in DOMAIN C /\ Holds(S[j], a)
        BY <1>11, <1>13, <3>0, <3>2 DEF InHeap
      <4>2. a <= LastOf(T, j, t)
        BY <1>2, <1>12, <3>0, <4>1 DEF Linked
      <4>3. ASSUME a # LastOf(T, j, t)
            PROVE  /\ D[a].size >= MinChunk
                   /\ a + D[a].size \in InHeap(D) /\ Holds(T[j], a + D[a].size)
                   /\ Tells(D, a, a + D[a].size, h.state)
        <5>1. /\ C[a].size >= MinChunk
              /\ a + C[a].size \in InHeap(C) /\ Holds(S[j], a + C[a].size)
              /\ Tells(C, a, a + C[a].size, h.state)
          BY <1>2, <1>12, <3>0, <4>1, <4>3 DEF Linked
        <5> DEFINE n == a + C[a].size
        <5>2. n \in DOMAIN C /\ n \in InHeap(C) /\ Holds(S[j], n) /\ Tells(C, a, n, h.state)
          BY <5>1 DEF InHeap
        <5>3. n \in Nat /\ a \in Nat /\ n > a /\ a + D[a].size = n /\ D[a].size >= MinChunk
          BY <1>2, <1>10, <4>1, <5>1, <5>2, ChunkFields
        <5> HIDE DEF n
        <5>4. n # old
          <6>1. ASSUME n = old PROVE FALSE
            <7>1. Holds(S[i], old)
              BY <1>5, <1>8, <1>9, <1>12 DEF Holds
            <7>2. j = i
              BY <1>2, <1>5, <1>9, <3>0, <5>2, <6>1, <7>1, OneSegment
            <7>3. a >= old
              BY <1>8, <4>1, <7>2 DEF Holds
            <7> QED
              BY <1>5, <5>3, <6>1, <7>3
          <6> QED
            BY <6>1
        <5>5. D[n] = C[n]
          BY <1>7, <5>2, <5>4
        <5>6. D[a].size = C[a].size /\ (D[a].cin <=> C[a].cin)
          BY <1>10, <4>1
        <5>7. D[a].cin \in BOOLEAN /\ C[a].cin \in BOOLEAN
          BY <1>2, <1>7, <4>1, ChunkFields
        <5>8. Tells(D, a, n, h.state)
          BY <5>2, <5>5, <5>6, <5>7 DEF Tells
        <5> QED
          BY <1>11, <1>13, <3>0, <5>2, <5>3, <5>8
      <4>4. ASSUME a # T[j].base
            PROVE  \E c \in InHeap(D) : c + D[c].size = a /\ Holds(T[j], c)
        <5>1. CASE a = old
          <6>1. Holds(S[i], old)
            BY <1>5, <1>8, <1>9, <1>12 DEF Holds
          <6>2. j = i
            BY <1>2, <1>5, <1>9, <3>0, <4>1, <5>1, <6>1, OneSegment
          <6>3. b \in InHeap(D) /\ b + D[b].size = a /\ Holds(T[j], b)
            BY <1>7, <1>9, <1>11, <1>14, <3>0, <5>1, <6>2
          <6> QED
            BY <6>3
        <5>2. CASE a # old
          <6>1. a # S[j].base
            BY <1>8, <4>4, <5>2
          <6>2. PICK c \in InHeap(C) : c + C[c].size = a /\ Holds(S[j], c)
            BY <1>2, <3>0, <4>1, <6>1 DEF Linked
          <6>3. c \in DOMAIN C
            BY DEF InHeap
          <6>4. c \in InHeap(D) /\ c + D[c].size = a /\ Holds(T[j], c)
            BY <1>10, <1>11, <1>13, <3>0, <6>2, <6>3
          <6> QED
            BY <6>4
        <5> QED
          BY <5>1, <5>2
      <4> QED
        BY <4>2, <4>3, <4>4
    <3> QED
      BY <3>1, <3>2
  <2> QED
    BY <1>7, <1>8, <2>1, <2>2, <2>3, <2>4, <2>5 DEF Shape
<1>18. Owned(D, T, h.state, L \cup {b})
  <2>1. Owned(C, S, h.state, L)
    BY <1>1 DEF C, S
  <2>2. h.state \in DOMAIN C /\ Records_(S) \subseteq DOMAIN C
    <3>1. Records_(S) \subseteq {a \in DOMAIN C : C[a].cin \/ ~C[a].pin}
          /\ h.state \in {a \in DOMAIN C : C[a].cin \/ ~C[a].pin}
      BY <2>1 DEF Owned
    <3> QED
      BY <3>1
  <2>3. {a \in DOMAIN D : D[a].cin \/ ~D[a].pin} = {a \in DOMAIN C : C[a].cin \/ ~C[a].pin} \cup {b}
    BY <1>6, <1>7, <1>10
  <2>4. (L \cup {b}) \cup {h.state} \cup Records_(S) = {a \in DOMAIN D : D[a].cin \/ ~D[a].pin}
    BY <2>1, <2>3 DEF Owned
  <2>5. h.state \notin L \cup {b} /\ (L \cup {b}) \cap Records_(S) = {}
    BY <1>6, <2>1, <2>2 DEF Owned
  <2> QED
    BY <1>16, <2>4, <2>5 DEF Owned
<1>19. Placed(D, h.small, h.tree, h.dv, t, U) /\ Sizes(D, h.dv, h.dvsize, t, h.topsize)
  <2>1. Placed(C, h.small, h.tree, h.dv, t, U) /\ Sizes(C, h.dv, h.dvsize, t, h.topsize)
    BY <1>1 DEF C, t
  <2>2. Binned_(h.small, h.tree) \subseteq Idle_(C)
    BY <2>1 DEF Placed
  <2>3. \A a \in Idle_(C) : D[a].size = C[a].size
    BY <1>10 DEF Idle_
  <2>4. \A n \in SmallSizes : \A a \in Range(h.small[n]) : D[a].size = n
    <3>1. \A n \in SmallSizes : \A a \in Range(h.small[n]) : a \in Idle_(C)
      BY <2>2, BinnedHas
    <3> QED
      BY <2>1, <2>3, <3>1 DEF Placed
  <2>5. \A a \in h.tree : D[a].size >= SmallLimit
    <3>1. \A a \in h.tree : a \in Idle_(C)
      BY <2>2, BinnedHas
    <3> QED
      BY <2>1, <2>3, <3>1 DEF Placed
  <2>6. h.dv # 0 => D[h.dv].size = C[h.dv].size
    <3>1. h.dv # 0 => h.dv \in Idle_(C)
      BY <2>1 DEF Placed
    <3> QED
      BY <2>3, <3>1
  <2>7. D[t].size = C[t].size
    <3>1. t \in DOMAIN C
      BY <1>2 DEF Ends, InHeap
    <3> QED
      BY <1>10, <3>1
  <2>8. Sizes(D, h.dv, h.dvsize, t, h.topsize)
    BY <2>1, <2>6, <2>7 DEF Sizes
  <2> QED
    BY <1>11, <2>1, <2>4, <2>5, <2>8 DEF Placed
<1>20. Settings(g)
  <2>1. \A j \in DOMAIN T : T[j].base >= g.least
    <3> TAKE j \in DOMAIN T
    <3>1. h.least \in Nat /\ S[j].base >= h.least
      BY <1>8, <1>9 DEF Settings, S
    <3>2. CASE j = i
      BY <1>8, <1>9, <3>2, <1>4
    <3>3. CASE j # i
      BY <1>8, <1>9, <1>12, <3>1, <3>3
    <3> QED
      BY <3>2, <3>3
  <2>2. \A a \in DOMAIN D : a >= g.least
    <3> TAKE a \in DOMAIN D
    <3>1. CASE a = b
      BY <1>4, <1>9, <3>1
    <3>2. CASE a # b
      <4>1. h.least \in Nat /\ a \in Nat /\ a >= h.least
        BY <1>2, <1>7, <1>9, <3>2, ChunkFields DEF Settings, C
      <4> QED
        BY <1>9, <4>1
    <3> QED
      BY <3>1, <3>2
  <2> QED
    BY <1>3, <1>9, <2>1, <2>2 DEF Settings, T, D
<1>21. Sound(g, L \cup {b}, U)
  BY <1>3, <1>9, <1>17, <1>18, <1>19, <1>20 DEF Sound, D, T
<1>22. Spares(h, g, L)
  <2>1. L \subseteq DOMAIN C
    BY Inside DEF C
  <2>2. \A a \in DOMAIN C : g.chunk[a].cin = h.chunk[a].cin
    BY <1>7 DEF C, D
  <2> QED
    BY <1>7, <1>10, <2>1, <2>2 DEF Spares, C, D
<1> QED
  BY <1>6, <1>21, <1>22 DEF C

----------------------------------------------------------------------------
(* sm_prepend_allocate.                                                    *)

\* x is h with a region in front of segment i taken into it.
Fronted(h, x, i, b, s) ==
  /\ i \in DOMAIN h.segs /\ Whole(b) /\ Whole(s) /\ GranulesOf(b, s) \subseteq Space \ h.backed
  /\ b + s = h.segs[i].base /\ s >= MinChunk
  /\ SameBut(x, h, {"segs", "backed", "footprint", "least"})
  /\ x.segs = [h.segs EXCEPT ![i] = [h.segs[i] EXCEPT !.base = b, !.size = h.segs[i].size + s]]
  /\ x.backed = h.backed \cup GranulesOf(b, s) /\ x.footprint = h.footprint + s
  /\ x.least = IF b < h.least THEN b ELSE h.least

\* The region in front of segment i, taken whole.
LEMMA RegionInFront ==
  ASSUME NEW h, NEW L, NEW U, Sound(h, L, U), NEW i, NEW b, NEW s, NEW x, Fronted(h, x, i, b, s),
         NEW k, k = SetInUseWhole(x, b, s)
  PROVE  /\ Sound(k, L \cup {b}, U) /\ Spares(h, k, L) /\ b \notin DOMAIN h.chunk
         /\ SameBut(k, x, {"chunk"})
<1> DEFINE old == h.segs[i].base
<1> SUFFICES
      ASSUME i \in DOMAIN h.segs, Whole(b), Whole(s), GranulesOf(b, s) \subseteq Space \ h.backed,
             old = h.segs[i].base, b + s = old, s >= MinChunk,
             SameBut(x, h, {"segs", "backed", "footprint", "least"}),
             x.segs = [h.segs EXCEPT ![i] = [h.segs[i] EXCEPT !.base = b, !.size = h.segs[i].size + s]],
             x.backed = h.backed \cup GranulesOf(b, s), x.footprint = h.footprint + s,
             x.least = IF b < h.least THEN b ELSE h.least
      PROVE  /\ Sound(k, L \cup {b}, U) /\ Spares(h, k, L) /\ b \notin DOMAIN h.chunk
             /\ SameBut(k, x, {"chunk"})
  BY DEF Fronted
<1> HIDE DEF old
<1> DEFINE S == h.segs
           T == x.segs
<1>1. /\ Segments(S) /\ IsHeap(h) /\ Heads(h.chunk) /\ Lent(h.chunk, S, h.backed, h.footprint)
      /\ i \in DOMAIN S /\ S \in Seq(Segment) /\ Settings(h)
  <2>1. Segments(S) /\ IsHeap(h) /\ Heads(h.chunk) /\ Lent(h.chunk, S, h.backed, h.footprint)
        /\ Settings(h)
    BY DEF Sound, Shape
  <2> QED
    BY <2>1 DEF Segments
<1>2. /\ S[i].base \in Nat /\ S[i].size \in Nat /\ End(S[i]) = S[i].base + S[i].size
      /\ S[i] \in Segment /\ S[i].base > 0 /\ S[i].size > 0 /\ S[i].base = old
  BY <1>1, SegmentFields
<1>3. /\ b \in Nat \ {0} /\ s \in Nat \ {0}
      /\ \A j \in DOMAIN S : End(S[j]) <= b \/ b + s <= S[j].base
      /\ \A a \in DOMAIN h.chunk : a + h.chunk[a].size < b \/ b + s <= a
  <2>1. GranulesOf(b, s) \cap h.backed = {}
    OBVIOUS
  <2> QED
    BY <2>1, FreshRegion
<1>a. \A a \in DOMAIN h.chunk : a \in Nat /\ h.chunk[a].size \in Nat /\ (a + h.chunk[a].size < b \/ old <= a)
  <2> TAKE a \in DOMAIN h.chunk
  <2>1. a \in Nat /\ h.chunk[a].size \in Nat
    BY <1>1, ChunkFields
  <2>2. GranulesOf(b, s) \cap h.backed = {}
    OBVIOUS
  <2>3. a + h.chunk[a].size < b \/ b + s <= a
    BY <2>2, FreshRegion
  <2> QED
    BY <2>1, <2>3
<1>4. /\ IsHeap(x) /\ x.chunk = h.chunk
  BY <1>1 DEF SameBut, HeapFields
<1>5. /\ T[i] = [S[i] EXCEPT !.base = b, !.size = S[i].size + s] /\ DOMAIN T = DOMAIN S
      /\ \A j \in DOMAIN S : j # i => T[j] = S[j]
  <2> HIDE DEF S
  <2>1. T = [S EXCEPT ![i] = [S[i] EXCEPT !.base = b, !.size = S[i].size + s]]
    BY DEF S
  <2> QED
    BY <1>1, <2>1
<1>6. /\ T[i].base = b /\ T[i].size = S[i].size + s /\ T[i].rec = S[i].rec
      /\ T[i] \in Segment /\ T \in Seq(Segment) /\ Len(T) = Len(S)
  <2>1. /\ S[i] \in Segment /\ b \in Nat \ {0} /\ S[i].size + s \in Nat \ {0}
        /\ T[i] = [S[i] EXCEPT !.base = b, !.size = S[i].size + s]
    BY <1>2, <1>3, <1>5
  <2>2. T[i].base = b /\ T[i].size = S[i].size + s /\ T[i].rec = S[i].rec /\ T[i] \in Segment
    <3> HIDE DEF T
    <3> DEFINE z == S[i]
               m == S[i].size + s
    <3>1. z \in Segment /\ b \in Nat \ {0} /\ m \in Nat \ {0} /\ T[i] = [z EXCEPT !.base = b, !.size = m]
      BY <2>1
    <3> HIDE DEF z, m
    <3>2. T[i].base = b /\ T[i].size = m /\ T[i].rec = z.rec /\ T[i] \in Segment
      BY <3>1 DEF Segment
    <3> QED
      BY <3>2 DEF z, m
  <2>3. \A j \in DOMAIN S : S[j] \in Segment
    BY <1>1
  <2>4. DOMAIN S = 1 .. Len(S) /\ Len(S) \in Nat
    BY <1>1
  <2>5. T = [j \in 1 .. Len(S) |-> T[j]]
    BY <2>4
  <2>6. \A j \in 1 .. Len(S) : T[j] \in Segment
    BY <1>5, <2>2, <2>3, <2>4
  <2> HIDE DEF T
  <2>7. T \in [1 .. Len(S) -> Segment]
    BY <2>5, <2>6
  <2>8. T \in Seq(Segment) /\ Len(T) = Len(S)
    BY <2>4, <2>7
  <2> QED
    BY <2>2, <2>8
<1> HIDE DEF T, S
<1>8. End(T[i]) = End(S[i])
  BY <1>2, <1>3, <1>6 DEF End
<1>9. Segments(T)
  <2> SUFFICES ASSUME NEW m \in DOMAIN S, NEW j \in DOMAIN S, m # j
               PROVE  End(T[m]) <= T[j].base \/ End(T[j]) <= T[m].base
    BY <1>1, <1>5, <1>6 DEF Segments
  <2>1. End(S[m]) <= S[j].base \/ End(S[j]) <= S[m].base
    BY <1>1 DEF Segments
  <2>2. /\ S[m].base \in Nat /\ S[m].size \in Nat /\ End(S[m]) = S[m].base + S[m].size /\ S[m].size > 0
        /\ S[j].base \in Nat /\ S[j].size \in Nat /\ End(S[j]) = S[j].base + S[j].size /\ S[j].size > 0
    BY <1>1, SegmentFields
  <2>3. CASE m = i
    <3>1. T[j] = S[j] /\ (End(S[j]) <= b \/ b + s <= S[j].base) /\ End(T[m]) = End(S[m]) /\ T[m].base = b
      BY <1>3, <1>5, <1>6, <1>8, <2>3
    <3>2. S[m].base = b + s
      BY <1>2, <2>3
    <3> QED
      BY <1>3, <2>1, <2>2, <3>1, <3>2
  <2>4. CASE j = i
    <3>1. T[m] = S[m] /\ (End(S[m]) <= b \/ b + s <= S[m].base) /\ End(T[j]) = End(S[j]) /\ T[j].base = b
      BY <1>3, <1>5, <1>6, <1>8, <2>4
    <3>2. S[j].base = b + s
      BY <1>2, <2>4
    <3> QED
      BY <1>3, <2>1, <2>2, <3>1, <3>2
  <2>5. CASE m # i /\ j # i
    BY <1>5, <2>1, <2>5
  <2> QED
    BY <2>3, <2>4, <2>5
<1>10. /\ old \in DOMAIN h.chunk /\ old \in Nat /\ b < old
  <2>1. old \in InHeap(h.chunk)
    BY <1>2, <1>1 DEF Sound, Shape, S
  <2> QED
    BY <1>1, <1>3, <2>1, ChunkFields DEF InHeap
<1>11. b \notin DOMAIN h.chunk
  <2> SUFFICES ASSUME b \in DOMAIN h.chunk PROVE FALSE
    OBVIOUS
  <2>1. h.chunk[b].size \in Nat /\ b \in DOMAIN h.chunk /\ b \in Nat
    BY <1>1, <1>3, ChunkFields
  <2>2. b + h.chunk[b].size < b \/ old <= b
    BY <1>a, <2>1
  <2> QED
    BY <1>10, <2>1, <2>2
<1> DEFINE D == k.chunk
           C == h.chunk
<1>12. /\ SameBut(k, x, {"chunk"}) /\ IsHeap(k) /\ Heads(D)
       /\ Overwrites(C, D, b, s) /\ D[b].cin /\ D[b].pin
       /\ old \in DOMAIN C => D[old].pin /\ D[old].foot = Stamp
  BY <1>1, <1>3, <1>4, UseWholeOf
<1>13. /\ DOMAIN D = DOMAIN C \cup {b}
       /\ \A a \in DOMAIN C : a # old => D[a] = C[a]
       /\ D[old].size = C[old].size /\ D[old].cin = C[old].cin /\ D[b].size = s
  <2>1. \A a \in DOMAIN C : a < b \/ a >= old
    <3> TAKE a \in DOMAIN C
    <3>1. a \in Nat /\ C[a].size \in Nat /\ (a + C[a].size < b \/ old <= a)
      BY <1>a
    <3> QED
      BY <1>3, <1>10, <3>1
  <2>2. b + s = old
    OBVIOUS
  <2> HIDE DEF C, D
  <2> QED
    BY <1>10, <1>11, <1>12, <2>1, <2>2 DEF Overwrites, C
<1>14. /\ k.segs = T /\ k.backed = h.backed \cup GranulesOf(b, s) /\ k.footprint = h.footprint + s
       /\ k.least = (IF b < h.least THEN b ELSE h.least)
       /\ SameBut(k, h, {"chunk", "segs", "backed", "footprint", "least"})
  <2>1. /\ k.segs = T /\ k.backed = h.backed \cup GranulesOf(b, s) /\ k.footprint = h.footprint + s
        /\ k.least = (IF b < h.least THEN b ELSE h.least)
    BY <1>12 DEF SameBut, HeapFields, T
  <2>2. SameBut(k, h, {"chunk", "segs", "backed", "footprint", "least"})
    BY <1>12 DEF SameBut, HeapFields
  <2> QED
    BY <2>1, <2>2
<1>15. k.least \in Nat /\ k.least <= h.least /\ k.least <= b
  BY <1>1, <1>3, <1>14 DEF Settings
<1>16. \E a \in DOMAIN C : a = old /\ (C[a].cin \/ C[a].pin)
  <2>1. old \in InHeap(h.chunk)
    BY <1>2, <1>1 DEF Sound, Shape, S
  <2> QED
    BY <2>1 DEF InHeap
<1>17. Maps(D) = Maps(C) /\ \A a \in Maps(C) : D[a] = C[a]
  <2>1. old \notin Maps(C) /\ old \notin Maps(D) /\ b \notin Maps(D)
    BY <1>10, <1>12, <1>16 DEF Maps
  <2> HIDE DEF D, C
  <2>2. b \notin Maps(C)
    BY <1>11 DEF Maps, C
  <2> QED
    BY <1>13, <2>1, <2>2 DEF Maps
<1>18. Lent(D, T, k.backed, k.footprint)
  <2>2. Whole(S[i].base) /\ Whole(S[i].size)
    BY <1>1 DEF Lent
  <2> DEFINE R == GranulesOf(b, s)
  <2>3. GranulesOf(b, S[i].size + s) = GranulesOf(S[i].base, S[i].size) \cup R /\ Whole(S[i].size + s)
    <3> DEFINE y == S[i].size
    <3>1. b + s = S[i].base /\ Whole(y) /\ y \in Nat
      BY <1>2, <2>2
    <3> HIDE DEF y
    <3>2. GranulesOf(b, s + y) = GranulesOf(b, s) \cup GranulesOf(b + s, y) /\ Whole(s + y)
      BY <3>1, GranulesJoin
    <3>3. s + y = y + s
      BY <1>3, <3>1
    <3> QED
      BY <3>1, <3>2, <3>3 DEF y
  <2>4. /\ \A j \in DOMAIN S : j # i => T[j].base = S[j].base /\ T[j].size = S[j].size
        /\ Whole(T[i].base) /\ Whole(T[i].size)
        /\ GranulesOf(T[i].base, T[i].size) = GranulesOf(S[i].base, S[i].size) \cup R
    BY <1>5, <1>6, <2>3
  <2>5. k.footprint = Granule * Cardinality(k.backed)
    <3>1. R \subseteq Space \ h.backed /\ h.backed \subseteq Space
      BY <1>1 DEF Lent
    <3>2. Granule * Cardinality(h.backed) + s = Granule * Cardinality(h.backed \cup GranulesOf(b, s))
      BY <3>1, MoreBacked
    <3>3. h.footprint = Granule * Cardinality(h.backed)
      BY <1>1 DEF Lent
    <3> QED
      BY <1>14, <3>2, <3>3
  <2> DEFINE F == k.backed
             G == k.footprint
             B == h.backed
  <2>7. Counted(F, G)
    BY <1>1, <1>14, <2>5 DEF Counted, Lent
  <2>8. /\ Lent(C, S, B, h.footprint) /\ DOMAIN T = DOMAIN S /\ i \in DOMAIN S
        /\ \A j \in DOMAIN S : j # i => T[j].base = S[j].base /\ T[j].size = S[j].size
        /\ Whole(T[i].base) /\ Whole(T[i].size)
        /\ GranulesOf(T[i].base, T[i].size) = GranulesOf(S[i].base, S[i].size) \cup R
        /\ R \cap B = {} /\ B \subseteq F /\ R \subseteq F /\ R = GranulesOf(b, s)
        /\ Maps(D) = Maps(C) /\ \A a \in Maps(C) : D[a] = C[a]
    BY <1>1, <1>5, <1>14, <1>17, <2>4
  <2> HIDE DEF R, C, D, F, G, B
  <2>9. Lent(D, T, F, G)
    BY <2>7, <2>8, LentGrown
  <2> QED
    BY <2>9 DEF F, G
<1>19. Sound(k, L \cup {b}, U) /\ Spares(h, k, L)
  <2>1. /\ Segments(k.segs) /\ DOMAIN k.segs = DOMAIN h.segs
        /\ \A j \in DOMAIN h.segs : j # i => k.segs[j] = h.segs[j]
        /\ k.segs[i].base = b /\ k.segs[i].rec = h.segs[i].rec /\ End(k.segs[i]) = End(h.segs[i])
    BY <1>5, <1>6, <1>8, <1>9, <1>14 DEF S
  <2>2. /\ Heads(k.chunk) /\ DOMAIN k.chunk = DOMAIN h.chunk \cup {b}
        /\ \A a \in DOMAIN h.chunk : a # old => k.chunk[a] = h.chunk[a]
        /\ k.chunk[old].size = h.chunk[old].size /\ k.chunk[old].cin = h.chunk[old].cin
        /\ k.chunk[old].pin /\ k.chunk[old].foot = Stamp
        /\ k.chunk[b].size = s /\ k.chunk[b].cin /\ k.chunk[b].pin
        /\ Lent(k.chunk, k.segs, k.backed, k.footprint)
    BY <1>10, <1>12, <1>13, <1>14, <1>18
  <2>3. MovedBase(h, k, i, b, s) /\ i \in DOMAIN h.segs
    BY <1>1, <1>14, <1>15, <2>1, <2>2 DEF S, MovedBase
  <2> HIDE DEF D, C
  <2> QED
    BY <2>3, BaseMoved
<1> QED
  BY <1>11, <1>12, <1>19

\* A block b .. q and a free chunk q .. e.
Cuts(x, W, b, q, e) ==
  \/ W = SetFree(SetInUsePart(x, b, q - b), q, e - q) /\ ~x.chunk[e].pin
  \/ W = SetFreeBefore(SetInUsePart(x, b, q - b), q, e - q, e)

\* No chunk of x lies in b .. m, which K makes one.
Vacant(x, K, b, m) ==
  /\ IsHeap(x) /\ Heads(x.chunk) /\ b \in Nat \ {0} /\ m \in Nat /\ b < m
  /\ Overwrites(x.chunk, K, b, m - b)
  /\ \A a \in DOMAIN x.chunk : a < b \/ a >= m

\* They may be written over a region no chunk lies in.
LEMMA InFrontWrites ==
  ASSUME NEW x, NEW K, NEW b, NEW m, Vacant(x, K, b, m), NEW W, NEW q, NEW e, Cuts(x, W, b, q, e),
         q \in Nat, e \in DOMAIN x.chunk, b < q, q < m, m <= e
  PROVE  /\ SameBut(W, x, {"chunk"}) /\ Heads(W.chunk) /\ Overwrites2(K, W.chunk, b, q, e)
         /\ W.chunk[b].cin /\ W.chunk[b].pin /\ ~W.chunk[q].cin /\ W.chunk[q].pin
         /\ W.chunk[q].foot = Stamp /\ W.chunk[e].foot = e - q /\ ~W.chunk[e].pin
<1> SUFFICES
  ASSUME IsHeap(x), Heads(x.chunk),
         b \in Nat \ {0}, q \in Nat, m \in Nat, e \in DOMAIN x.chunk, b < q, q < m, m <= e,
         \A a \in DOMAIN x.chunk : a < b \/ a >= m,
         Overwrites(x.chunk, K, b, m - b), NEW n, n = q - b, NEW r, r = e - q,
         \/ W = SetFree(SetInUsePart(x, b, n), q, r) /\ ~x.chunk[e].pin
         \/ W = SetFreeBefore(SetInUsePart(x, b, n), q, r, e)
  PROVE  /\ SameBut(W, x, {"chunk"}) /\ Heads(W.chunk) /\ Overwrites2(K, W.chunk, b, q, e)
         /\ W.chunk[b].cin /\ W.chunk[b].pin /\ ~W.chunk[q].cin /\ W.chunk[q].pin
         /\ W.chunk[q].foot = Stamp /\ W.chunk[e].foot = e - q /\ ~W.chunk[e].pin
  BY DEF Cuts, Vacant
<1> DEFINE C == x.chunk
           y == SetInUsePart(x, b, n)
           Y == y.chunk
           D == W.chunk
<1>1. /\ e \in Nat /\ DOMAIN C \subseteq Nat /\ n \in Nat \ {0} /\ r \in Nat \ {0} /\ b + n = q /\ q + r = e
      /\ q \in Nat \ {0} /\ b \in Nat \ {0}
  <2>1. e \in Nat /\ DOMAIN C \subseteq Nat
    BY ChunkFields DEF Heads
  <2> QED
    BY <2>1
<1>2. /\ SameBut(y, x, {"chunk"}) /\ IsHeap(y) /\ Heads(Y) /\ Overwrites(C, Y, b, n) /\ Y[b].cin /\ Y[b].pin
  BY <1>1, UsePartOf
<1>3. b \notin DOMAIN C /\ q \notin DOMAIN C
  BY <1>1
<1>4. /\ DOMAIN Y = DOMAIN C \cup {b} /\ (\A a \in DOMAIN C : Y[a] = C[a]) /\ Y[b].size = n /\ Y[b].foot = Stamp
  <2>1. \A a \in DOMAIN C : (a < b \/ a >= b + n) /\ a # b + n /\ a # b
    BY <1>1, <1>3
  <2> HIDE DEF C, Y
  <2> QED
    BY <1>1, <1>2, <1>3, <2>1 DEF Overwrites
<1> HIDE DEF y
<1>5. /\ SameBut(W, y, {"chunk"}) /\ Heads(D) /\ Overwrites(Y, D, q, r) /\ ~D[q].cin /\ D[q].pin
      /\ D[e].foot = r /\ ~D[e].pin
  <2>1. CASE W = SetFree(SetInUsePart(x, b, n), q, r) /\ ~x.chunk[e].pin
    <3>1. W = SetFree(y, q, r) /\ ~C[e].pin
      BY <2>1 DEF y
    <3>2. e \in DOMAIN Y /\ Y[e] = C[e]
      BY <1>4
    <3>3. /\ SameBut(W, y, {"chunk"}) /\ Heads(D) /\ Overwrites(Y, D, q, r) /\ ~D[q].cin /\ D[q].pin
          /\ e \in DOMAIN Y => D[e].pin = Y[e].pin /\ D[e].foot = r
      BY <1>1, <1>2, <3>1, FreeOf
    <3> QED
      BY <3>1, <3>2, <3>3
  <2>2. CASE W = SetFreeBefore(SetInUsePart(x, b, n), q, r, e)
    <3>1. W = SetFreeBefore(y, q, r, e)
      BY <2>2 DEF y
    <3>2. e \in DOMAIN Y /\ Y[e] = C[e]
      BY <1>4
    <3>3. /\ SameBut(W, y, {"chunk"}) /\ Heads(D) /\ Overwrites(Y, D, q, r) /\ ~D[q].cin /\ D[q].pin
          /\ e \in DOMAIN Y => ~D[e].pin /\ D[e].foot = r
      BY <1>1, <1>2, <3>1, FreeBeforeOf, SMTT(30)
    <3> QED
      BY <3>1, <3>2, <3>3
  <2> QED
    BY <2>1, <2>2
<1>6. SameBut(W, x, {"chunk"})
  BY <1>2, <1>5 DEF SameBut, HeapFields
<1> HIDE DEF C, Y, D
<1>7. /\ q \notin DOMAIN Y /\ b \in DOMAIN Y /\ e \in DOMAIN Y /\ Y[e] = C[e]
  BY <1>1, <1>3, <1>4 DEF C
<1>8. /\ DOMAIN D = {c \in DOMAIN C : c < b \/ c >= e} \cup {b, q}
      /\ D[b] = Y[b] /\ D[q].size = r /\ D[q].foot = Stamp
      /\ D[e].size = C[e].size /\ D[e].cin = C[e].cin
      /\ \A c \in DOMAIN D : c # b /\ c # q /\ c # e => c \in DOMAIN C /\ D[c] = C[c]
  <2>1. DOMAIN D = {c \in DOMAIN Y : c < q \/ c >= e} \cup {q}
    BY <1>1, <1>5 DEF Overwrites
  <2>2. \A c \in DOMAIN C : c < b \/ c >= m
    BY DEF C
  <2>3. DOMAIN D = {c \in DOMAIN C : c < b \/ c >= e} \cup {b, q}
    BY <1>1, <1>4, <2>1, <2>2
  <2>4. D[q].size = r /\ D[q].foot = Stamp /\ D[e].size = C[e].size /\ D[e].cin = C[e].cin
    BY <1>1, <1>5, <1>7 DEF Overwrites
  <2>5. \A c \in DOMAIN D : c # q /\ c # e => D[c] = Y[c]
    BY <1>1, <1>5 DEF Overwrites
  <2>6. b \in DOMAIN D /\ b # q /\ b # e
    BY <1>1, <2>3
  <2> QED
    BY <1>4, <2>3, <2>4, <2>5, <2>6
<1>9. Overwrites2(K, D, b, q, e)
  <2>1. /\ DOMAIN K = {c \in DOMAIN C : c < b \/ c >= b + (m - b)} \cup {b}
        /\ \A c \in DOMAIN K : c # b /\ c # b + (m - b) => K[c] = C[c]
        /\ K[b].foot = Stamp
        /\ b + (m - b) \in DOMAIN C => K[b + (m - b)].size = C[b + (m - b)].size
                                       /\ K[b + (m - b)].cin = C[b + (m - b)].cin
    BY <1>3 DEF Overwrites, C
  <2>2. b + (m - b) = m
    BY <1>1
  <2>3. DOMAIN K = DOMAIN C \cup {b} /\ K[b].foot = Stamp
        /\ \A c \in DOMAIN K : c # b /\ c # m => K[c] = C[c]
    BY <1>1, <2>1, <2>2 DEF C
  <2>4. K[e].size = C[e].size /\ K[e].cin = C[e].cin
    <3>1. CASE e = m
      BY <1>7, <2>1, <2>2, <3>1 DEF C
    <3>2. CASE e # m
      BY <1>1, <1>3, <2>3, <3>2 DEF C
    <3> QED
      BY <3>1, <3>2
  <2>5. \A c \in DOMAIN D : c # b /\ c # q /\ c # e => D[c] = K[c]
    <3> SUFFICES ASSUME NEW c \in DOMAIN D, c # b, c # q, c # e PROVE D[c] = K[c]
      OBVIOUS
    <3>1. c \in DOMAIN C /\ D[c] = C[c] /\ c \in Nat /\ (c < b \/ c > e)
      BY <1>1, <1>8
    <3>2. c # m
      BY <1>1, <3>1
    <3> QED
      BY <2>3, <3>1, <3>2
  <2>6. DOMAIN D = {c \in DOMAIN K : c < b \/ c >= e} \cup {b, q}
    BY <1>1, <1>8, <2>3
  <2>7. D[b].size = q - b /\ D[b].foot = K[b].foot /\ D[q].size = e - q
    BY <1>4, <1>8, <2>3
  <2> QED
    BY <1>8, <2>4, <2>5, <2>6, <2>7 DEF Overwrites2
<1>10. D[b].cin /\ D[b].pin
  BY <1>2, <1>8
<1> QED
  BY <1>5, <1>6, <1>8, <1>9, <1>10 DEF D

\* A segment begins earlier.
Moves(low, x, i, b, s) == x = [low EXCEPT !.segs[i].base = b, !.segs[i].size = @ + s]
LongerAt(S, T, i, b, s) == T = [S EXCEPT ![i] = [S[i] EXCEPT !.base = b, !.size = S[i].size + s]]

\* The step of Prepend that moves the base of segment i.
LEMMA MovedSegment ==
  ASSUME NEW low, IsHeap(low), Segments(low.segs), NEW i, i \in DOMAIN low.segs, NEW b, NEW s,
         NEW x, Moves(low, x, i, b, s)
  PROVE  SameBut(x, low, {"segs"}) /\ LongerAt(low.segs, x.segs, i, b, s)
<1> USE DEF Moves, LongerAt
<1>1. DOMAIN low = HeapFields /\ "segs" \in DOMAIN low
  BY DEF IsHeap, HeapFields
<1>2. SameBut(x, low, {"segs"})
  BY <1>1 DEF SameBut, IsHeap, HeapFields
<1>3. DOMAIN low.segs[i] = {"base", "size", "external", "rec"}
  BY SegmentFields DEF Segment
<1>4. x.segs = [[low.segs EXCEPT ![i].base = b] EXCEPT ![i].size = low.segs[i].size + s]
  BY <1>1, <1>3
<1>5. x.segs = [low.segs EXCEPT ![i] = [low.segs[i] EXCEPT !.base = b, !.size = low.segs[i].size + s]]
  <2>1. low.segs[i] = [f \in DOMAIN low.segs[i] |-> low.segs[i][f]]
    BY SegmentFields DEF Segment
  <2> QED
    BY <1>3, <1>4, <2>1
<1> QED
  BY <1>2, <1>5

\* In the sound space k a block lies at b .. m, where x has no chunk.
Ahead(x, k, M, b, m) ==
  /\ IsHeap(x) /\ Heads(x.chunk) /\ Sound(k, M, {}) /\ b \in M /\ SameBut(k, x, {"chunk"})
  /\ b \in Nat \ {0} /\ m \in Nat /\ b < m /\ m \in DOMAIN x.chunk
  /\ Overwrites(x.chunk, k.chunk, b, m - b) /\ k.chunk[b].cin /\ k.chunk[b].pin
  /\ \A a \in DOMAIN x.chunk : a < b \/ a >= m

\* The block is cut to b .. q; what follows it up to e is free.
LEMMA FrontSplit ==
  ASSUME NEW x, NEW k, NEW M, NEW b, NEW m, Ahead(x, k, M, b, m),
         NEW y, NEW V, Sound(y, M, V), y.chunk = k.chunk,
         NEW e, e \in DOMAIN x.chunk, m <= e, Span(y, b, e, M, V), k.chunk[e].cin,
         V \subseteq b .. e - 1, M \ (b .. e - 1) = M \ {b},
         NEW q, q \in Nat, b + MinChunk <= q, q + MinChunk <= e, q < m,
         NEW W, Cuts(x, W, b, q, e),
         NEW w, SameBut(w, y, {"chunk"}), w.chunk = W.chunk
  PROVE  /\ Sound(w, M, {q}) /\ w.chunk[b].size >= q - b /\ w.chunk[b].cin
         /\ w.chunk[q].size >= e - q /\ w.chunk[q].size <= e - q
         /\ Spares(k, w, M \ {b})
<1> DEFINE K == k.chunk
           D == W.chunk
<1>1. /\ IsHeap(x) /\ Heads(x.chunk) /\ b \in M /\ b \in Nat \ {0} /\ m \in Nat /\ b < m
      /\ Overwrites(x.chunk, K, b, m - b) /\ K[b].cin /\ K[b].pin
      /\ \A a \in DOMAIN x.chunk : a < b \/ a >= m
  BY DEF Ahead
<1>2. MinChunk = 2 /\ e \in Nat
  BY <1>1, ChunkFields DEF MinChunk
<1>3. b < q /\ b \in Nat
  BY <1>1, <1>2
<1>4. /\ Heads(D) /\ Overwrites2(K, D, b, q, e) /\ D[b].cin /\ D[b].pin
      /\ ~D[q].cin /\ D[q].pin /\ D[q].foot = Stamp /\ D[e].foot = e - q /\ ~D[e].pin
  <2> HIDE DEF K
  <2>1. /\ Vacant(x, K, b, m) /\ Cuts(x, W, b, q, e)
        /\ q \in Nat /\ e \in DOMAIN x.chunk /\ b < q /\ q < m /\ m <= e
    BY <1>1, <1>3 DEF Vacant
  <2> QED
    BY ONLY <2>1, InFrontWrites DEF D
<1> HIDE DEF K, D
<1>5. b \in DOMAIN D /\ q \in DOMAIN D /\ e \in DOMAIN D /\ D[b].size = q - b /\ D[q].size = e - q
  <2>1. e \in DOMAIN y.chunk /\ e \in DOMAIN K
    BY SpanFields DEF K
  <2> QED
    BY <1>2, <1>4, <2>1 DEF Overwrites2
<1>6. /\ D[b].cin \in BOOLEAN /\ D[q].cin \in BOOLEAN /\ D[e].pin \in BOOLEAN /\ D[q].pin \in BOOLEAN
      /\ K[b].pin \in BOOLEAN /\ D[b].pin \in BOOLEAN
  <2>1. Heads(K) /\ b \in DOMAIN K
    <3>1. Heads(y.chunk) /\ b \in DOMAIN y.chunk
      BY SpanFields
    <3> QED
      BY <3>1 DEF K
  <2> QED
    BY <1>4, <1>5, <2>1, ChunkFields
<1>7. Tells(D, b, q, 0) /\ Tells(D, q, e, 0) /\ D[b].pin = K[b].pin
  <2>1. D[e].cin
    BY <1>4 DEF Overwrites2, K
  <2> QED
    BY <1>1, <1>4, <1>5, <1>6, <2>1 DEF Tells
<1>8. Sound(w, (M \ (b .. e - 1)) \cup {a \in {b, q} : D[a].cin}, (V \ (b .. e - 1)) \cup {a \in {b, q} : ~D[a].cin})
  <2>1. /\ w.chunk = D /\ y.chunk = K /\ SameBut(w, y, {"chunk"})
    BY DEF D, K
  <2> QED
    BY <1>4, <1>7, <2>1, TwoPieces
<1>9. /\ (M \ (b .. e - 1)) \cup {a \in {b, q} : D[a].cin} = M
      /\ (V \ (b .. e - 1)) \cup {a \in {b, q} : ~D[a].cin} = {q}
  BY <1>1, <1>4
<1>10. Spares(k, w, M \ {b})
  <2> SUFFICES ASSUME NEW a \in M, a # b
               PROVE  a \in DOMAIN D /\ D[a].size = K[a].size /\ D[a].cin = K[a].cin
    BY DEF Spares, D, K
  <2>1. M \subseteq DOMAIN K /\ DOMAIN K \subseteq Nat
    <3>1. M \subseteq DOMAIN y.chunk /\ DOMAIN y.chunk \subseteq Nat
      BY SpanFields
    <3> QED
      BY <3>1 DEF K
  <2>2. a \notin b .. e - 1 /\ a \in Nat /\ a \in DOMAIN K
    BY <2>1
  <2>3. a < b \/ a >= e
    BY <1>1, <1>2, <2>2
  <2>4. a # q
    BY <1>2, <1>3, <2>3
  <2> QED
    BY <1>1, <1>2, <1>4, <2>2, <2>3, <2>4 DEF Overwrites2
<1>11. /\ w.chunk[b].size >= q - b /\ w.chunk[q].size >= e - q /\ w.chunk[q].size <= e - q
  BY <1>2, <1>1, <1>5 DEF D
<1> QED
  BY <1>4, <1>5, <1>8, <1>9, <1>10, <1>11 DEF D

\* The front block alone, and what of x the space k keeps.
LEMMA FrontFields ==
  ASSUME NEW x, NEW k, NEW M, NEW b, NEW m, Ahead(x, k, M, b, m)
  PROVE  /\ Span(k, b, m, M, {}) /\ M \ (b .. m - 1) = M \ {b}
         /\ m \in Nat /\ b \in Nat /\ b < m /\ m \in DOMAIN k.chunk /\ Heads(k.chunk) /\ IsHeap(k)
         /\ k.chunk[m].size = x.chunk[m].size /\ k.chunk[m].cin = x.chunk[m].cin
         /\ k.chunk[m].pin
         /\ DOMAIN k.chunk = DOMAIN x.chunk \cup {b} /\ b \notin DOMAIN x.chunk
         /\ \A c \in DOMAIN x.chunk : c # m => k.chunk[c] = x.chunk[c]
         /\ M \subseteq DOMAIN k.chunk /\ DOMAIN k.chunk \subseteq Nat \ {0}
<1>1. /\ IsHeap(x) /\ Heads(x.chunk) /\ b \in M /\ b \in Nat \ {0} /\ m \in Nat /\ b < m
      /\ Overwrites(x.chunk, k.chunk, b, m - b) /\ k.chunk[b].cin /\ k.chunk[b].pin
      /\ m \in DOMAIN x.chunk /\ Sound(k, M, {}) /\ SameBut(k, x, {"chunk"})
      /\ \A a \in DOMAIN x.chunk : a < b \/ a >= m
  BY DEF Ahead
<1>2. b + (m - b) = m /\ DOMAIN x.chunk \subseteq Nat
  BY <1>1, ChunkFields
<1>3. k.chunk[b].size = m - b /\ m = b + k.chunk[b].size
  BY <1>1, <1>2 DEF Overwrites
<1>4. Span(k, b, m, M, {}) /\ k.chunk[m].pin
  BY <1>1, <1>3, BlockSpan
<1>5. M \ (b .. m - 1) = M \ {b}
  BY <1>1, <1>3, OneOf
<1>6. b \notin DOMAIN x.chunk
  BY <1>1
<1>7. DOMAIN k.chunk = DOMAIN x.chunk \cup {b}
  <2>1. DOMAIN k.chunk = {c \in DOMAIN x.chunk : c < b \/ c >= b + (m - b)} \cup {b}
    BY <1>1 DEF Overwrites
  <2> QED
    BY <1>1, <1>2, <2>1
<1>8. /\ k.chunk[m].size = x.chunk[m].size /\ k.chunk[m].cin = x.chunk[m].cin
      /\ \A c \in DOMAIN x.chunk : c # m => k.chunk[c] = x.chunk[c]
  <2>1. k.chunk[m].size = x.chunk[m].size /\ k.chunk[m].cin = x.chunk[m].cin
    BY <1>1, <1>2 DEF Overwrites
  <2>2. \A c \in DOMAIN k.chunk : c # b /\ c # b + (m - b) => k.chunk[c] = x.chunk[c]
    BY <1>1 DEF Overwrites
  <2> QED
    BY <1>2, <1>6, <1>7, <2>1, <2>2
<1>9. /\ IsHeap(k) /\ Heads(k.chunk) /\ DOMAIN k.chunk \subseteq Nat \ {0} /\ M \subseteq DOMAIN k.chunk
  BY <1>1, Inside
<1> QED
  BY <1>1, <1>4, <1>5, <1>6, <1>7, <1>8, <1>9

\* What Prepend leaves of the space k.
Fronts(k, g, L, b, n) ==
  /\ Sound(g, L \cup {b}, {}) /\ g.chunk[b].size >= n /\ g.chunk[b].cin
  /\ Spares(k, g, L) /\ SameBut(g, k, FreeFields)

\* The remainder lies before a chunk in use.
LEMMA PrependUsed ==
  ASSUME NEW x, NEW k, NEW L, NEW b, NEW m, Ahead(x, k, L \cup {b}, b, m), b \notin L,
         x.chunk[m].cin, NEW q, q \in Nat, b + MinChunk <= q, q + MinChunk <= m,
         NEW n, n = q - b, NEW r, r = m - q,
         NEW g, g = Bin(SetFreeBefore(SetInUsePart(x, b, n), q, r, m), q, r)
  PROVE  Fronts(k, g, L, b, n)
<1> DEFINE M == L \cup {b}
           W == SetFreeBefore(SetInUsePart(x, b, n), q, r, m)
<1>1. /\ Span(k, b, m, M, {}) /\ M \ (b .. m - 1) = M \ {b} /\ m \in DOMAIN x.chunk
      /\ m \in Nat /\ b \in Nat /\ b < m /\ k.chunk[m].cin
  <2>1. Ahead(x, k, M, b, m)
    OBVIOUS
  <2> HIDE DEF M
  <2>2. m \in DOMAIN x.chunk
    BY <2>1 DEF Ahead
  <2>3. k.chunk[m].cin = x.chunk[m].cin
    BY <2>1, FrontFields, ZenonT(30)
  <2> QED
    BY <2>1, <2>2, <2>3, FrontFields
<1>2. Cuts(x, W, b, q, m) /\ m <= m /\ q < m /\ M \ {b} = L
  BY <1>1 DEF Cuts, MinChunk
<1>3. Sound(k, M, {}) /\ Ahead(x, k, M, b, m) /\ {} \subseteq b .. m - 1 /\ SameBut(k, x, {"chunk"})
      /\ IsHeap(x) /\ IsHeap(k)
  BY DEF Ahead, SameBut
<1>4. SameBut(W, k, {"chunk"}) /\ W.chunk = W.chunk /\ k.chunk = k.chunk
  <2>1. Vacant(x, k.chunk, b, m)
    BY <1>3 DEF Ahead, Vacant
  <2>2. b < q
    BY <1>1 DEF MinChunk
  <2> HIDE DEF W
  <2>3. SameBut(W, x, {"chunk"})
    BY <1>1, <1>2, <2>1, <2>2, InFrontWrites
  <2> QED
    BY <1>3, <2>3 DEF SameBut, HeapFields
<1> HIDE DEF W, M
<1>5. /\ Sound(W, M, {q}) /\ W.chunk[b].size >= q - b /\ W.chunk[b].cin
      /\ W.chunk[q].size = m - q /\ Spares(k, W, M \ {b})
  <2> DEFINE V == {}
  <2>1. V \subseteq b .. m - 1 /\ Sound(k, M, V) /\ Span(k, b, m, M, V)
    BY <1>1, <1>3
  <2>2. q \in Nat /\ b + MinChunk <= q /\ q + MinChunk <= m
    OBVIOUS
  <2> HIDE DEF V
  <2>3. /\ Sound(W, M, {q}) /\ W.chunk[b].size >= q - b /\ W.chunk[b].cin
        /\ W.chunk[q].size >= m - q /\ W.chunk[q].size <= m - q /\ Spares(k, W, M \ {b})
    BY ONLY <1>1, <1>2, <1>3, <1>4, <2>1, <2>2, FrontSplit
  <2>4. W.chunk[q].size \in Nat
    BY <2>3, Inside, ChunkFields
  <2> QED
    BY <1>1, <2>3, <2>4
<1>6. q \in {q} /\ r = W.chunk[q].size /\ g = Bin(W, q, r) /\ {q} \ {q} = {}
  BY <1>5 DEF W
<1>7. Sound(g, M, {}) /\ SameBut(g, W, {"small", "tree"})
  <2>1. Sound(Bin(W, q, r), M, {q} \ {q}) /\ SameBut(Bin(W, q, r), W, {"small", "tree"})
    BY ONLY <1>5, <1>6, BinSound
  <2> QED
    BY <1>6, <2>1
<1>8. g.chunk = W.chunk
  BY <1>7 DEF SameBut, HeapFields
<1>9. SameBut(g, k, FreeFields)
  BY <1>4, <1>7 DEF SameBut, HeapFields, FreeFields
<1> QED
  BY <1>2, <1>5, <1>7, <1>8, <1>9 DEF Fronts, Spares, M

\* Taking a chunk out of its bin depends on the bins alone.
LEMMA UnbinAlike ==
  ASSUME NEW g, NEW h, IsHeap(g), IsHeap(h), g.small = h.small, g.tree = h.tree, NEW a, NEW n
  PROVE  Unbin(g, a, n).small = Unbin(h, a, n).small /\ Unbin(g, a, n).tree = Unbin(h, a, n).tree
<1>1. CASE n < SmallLimit
  <2> DEFINE t == RemoveAt(h.small[n], CHOOSE i \in DOMAIN h.small[n] : h.small[n][i] = a)
             S == [h.small EXCEPT ![n] = t]
  <2>1. Unbin(h, a, n) = [h EXCEPT !.small = S]
    BY <1>1 DEF Unbin
  <2>2. Unbin(g, a, n) = [g EXCEPT !.small = S]
    BY <1>1 DEF Unbin
  <2> HIDE DEF S
  <2> QED
    BY <2>1, <2>2 DEF IsHeap, HeapFields
<1>2. CASE ~(n < SmallLimit)
  BY <1>2 DEF Unbin, IsHeap, HeapFields
<1> QED
  BY <1>1, <1>2

\* The remainder joins the binned chunk behind it.
LEMMA PrependFree ==
  ASSUME NEW x, NEW k, NEW L, NEW b, NEW m, Ahead(x, k, L \cup {b}, b, m), b \notin L,
         m \in Binned_(x.small, x.tree), NEW q, q \in Nat, b + MinChunk <= q, q < m,
         NEW n, n = q - b, NEW z, z = x.chunk[m].size, NEW e, e = m + z, NEW r, r = e - q,
         NEW g, g = Bin(SetFreeBefore(Unbin(SetInUsePart(x, b, n), m, z), q, r, e), q, r)
  PROVE  Fronts(k, g, L, b, n)
<1> DEFINE M == L \cup {b}
           s == SetInUsePart(x, b, n)
           W == SetFreeBefore(s, q, r, e)
           y == Unbin(k, m, z)
           w == SetFreeBefore(Unbin(s, m, z), q, r, e)
<1>1. /\ Span(k, b, m, M, {}) /\ M \ (b .. m - 1) = M \ {b} /\ m \in DOMAIN x.chunk
      /\ m \in Nat /\ b \in Nat \ {0} /\ b < m /\ k.chunk[m].size = z
      /\ DOMAIN k.chunk = DOMAIN x.chunk \cup {b} /\ DOMAIN k.chunk \subseteq Nat \ {0}
      /\ \A c \in DOMAIN x.chunk : c # m => k.chunk[c] = x.chunk[c]
  <2>1. Ahead(x, k, M, b, m)
    OBVIOUS
  <2> HIDE DEF M
  <2>2. m \in DOMAIN x.chunk
    BY <2>1 DEF Ahead
  <2>3. /\ k.chunk[m].size = x.chunk[m].size
        /\ DOMAIN k.chunk = DOMAIN x.chunk \cup {b} /\ DOMAIN k.chunk \subseteq Nat \ {0}
        /\ \A c \in DOMAIN x.chunk : c # m => k.chunk[c] = x.chunk[c]
    BY <2>1, FrontFields
  <2>4. Span(k, b, m, M, {}) /\ M \ (b .. m - 1) = M \ {b} /\ m \in Nat /\ b \in Nat /\ b < m
    BY <2>1, FrontFields
  <2>5. b \in Nat \ {0}
    BY <2>1 DEF Ahead
  <2> QED
    BY <2>2, <2>3, <2>4, <2>5
<1>2. /\ Sound(k, M, {}) /\ Ahead(x, k, M, b, m) /\ SameBut(k, x, {"chunk"}) /\ IsHeap(x) /\ IsHeap(k)
      /\ Heads(x.chunk) /\ M \ {b} = L
  BY DEF Ahead, SameBut
<1> HIDE DEF M
<1>3. m \in Binned_(k.small, k.tree)
  BY <1>2 DEF SameBut, HeapFields
<1>4. Sound(y, M, {m}) /\ SameBut(y, k, {"small", "tree"}) /\ y.chunk = k.chunk /\ y.segs = k.segs /\ IsHeap(y)
  <2>1. Sound(Unbin(k, m, z), M, {} \cup {m}) /\ SameBut(Unbin(k, m, z), k, {"small", "tree"})
    BY <1>1, <1>2, <1>3, UnbinSound
  <2> QED
    BY <2>1 DEF SameBut, HeapFields
<1>5. /\ Span(y, m, e, M, {m}) /\ k.chunk[e].cin /\ e \in DOMAIN k.chunk /\ z \in Nat \ {0} /\ z >= MinChunk
  <2>1. m \in {m} /\ e = m + y.chunk[m].size
    BY <1>1, <1>4
  <2> HIDE DEF y
  <2>2. Span(y, m, e, M, {m}) /\ y.chunk[m].size \in Nat \ {0} /\ y.chunk[m].size >= MinChunk /\ y.chunk[e].cin
    BY <1>4, <2>1, LooseSpan
  <2>3. e \in DOMAIN y.chunk
    BY <1>4, <2>2, SpanFields
  <2> QED
    BY <1>1, <1>4, <2>2, <2>3
<1>6. e \in Nat /\ m < e /\ b < e /\ q + MinChunk <= e /\ e \in DOMAIN x.chunk /\ e # m
  BY <1>1, <1>5 DEF MinChunk
<1>7. Span(y, b, e, M, {m})
  <2> HIDE DEF y
  <2>1. Span(y, b, m, M, {m})
    <3> DEFINE V == {m}
               N == {}
    <3>1. N \subseteq V /\ Span(k, b, m, M, N)
      BY <1>1
    <3> HIDE DEF V, N
    <3>2. Span(y, b, m, M, V)
      BY <1>4, <3>1, SpanLoose
    <3> QED
      BY <3>2 DEF V
  <2> QED
    BY <1>4, <1>5, <2>1, SpanJoin
<1>8. M \ (b .. e - 1) = M \ {b} /\ {m} \subseteq b .. e - 1
  <2>1. m \in {m} /\ e = m + y.chunk[m].size
    BY <1>1, <1>4
  <2> HIDE DEF y
  <2>2. M \ (m .. e - 1) = M
    BY <1>4, <2>1, LooseOne
  <2>3. b .. e - 1 = (b .. m - 1) \cup (m .. e - 1)
    BY <1>1, <1>6
  <2> QED
    BY <1>1, <1>6, <2>2, <2>3
<1>9. Cuts(x, W, b, q, e) /\ m <= e /\ b < q /\ q < m
  BY <1>1, <1>6 DEF Cuts, MinChunk
<1>10. SameBut(s, x, {"chunk"}) /\ IsHeap(s)
  <2>1. n \in Nat \ {0}
    BY <1>1, <1>9
  <2> QED
    BY <1>1, <1>2, <2>1, UsePartOf
<1>11. /\ IsHeap(Unbin(s, m, z)) /\ SameBut(Unbin(s, m, z), s, {"small", "tree"})
       /\ Unbin(s, m, z).small = y.small /\ Unbin(s, m, z).tree = y.tree
  <2> HIDE DEF s
  <2>1. IsHeap(Unbin(s, m, z)) /\ SameBut(Unbin(s, m, z), s, {"small", "tree"})
    BY <1>10, UnbinSame
  <2>2. s.small = k.small /\ s.tree = k.tree
    BY <1>2, <1>10 DEF SameBut, HeapFields
  <2>3. Unbin(s, m, z).small = y.small /\ Unbin(s, m, z).tree = y.tree
    BY <1>2, <1>10, <2>2, UnbinAlike
  <2> QED
    BY <2>1, <2>3
<1> HIDE DEF y
<1>12. SameBut(w, Unbin(s, m, z), {"chunk"}) /\ SameChunks(w, W)
  <2> DEFINE u == Unbin(s, m, z)
  <2>1. SameChunks(u, s)
    BY <1>10, <1>11 DEF SameChunks, SameBut, HeapFields
  <2> HIDE DEF u, s
  <2>2. SameChunks(SetFreeBefore(u, q, r, e), SetFreeBefore(s, q, r, e))
    BY <2>1, WritesSame
  <2>3. Heads(u.chunk) /\ IsHeap(u)
    <3>1. n \in Nat \ {0}
      BY <1>1, <1>9
    <3>2. Heads(s.chunk)
      BY <1>1, <1>2, <3>1, UsePartOf DEF s
    <3> QED
      BY <2>1, <3>2 DEF SameChunks
  <2>4. q \in Nat \ {0} /\ r \in Nat \ {0} /\ e = q + r
    BY <1>1, <1>6, <1>9
  <2>5. SameBut(SetFreeBefore(u, q, r, e), u, {"chunk"})
    <3> DEFINE D == SetFreeBefore(u, q, r, e).chunk
    <3>1. D = SetFreeBefore(u, q, r, e).chunk
      OBVIOUS
    <3> HIDE DEF D
    <3> QED
      BY ONLY <2>3, <2>4, <3>1, FreeBeforeOf
  <2> QED
    BY <2>2, <2>5 DEF u
<1>13. SameBut(w, y, {"chunk"}) /\ w.chunk = W.chunk
  <2> DEFINE u == Unbin(s, m, z)
  <2>1. SameBut(w, u, {"chunk"}) /\ SameBut(u, s, {"small", "tree"}) /\ u.small = y.small /\ u.tree = y.tree
    BY <1>11, <1>12
  <2> HIDE DEF u, w, W, s
  <2> QED
    BY <1>2, <1>4, <1>10, <1>12, <2>1 DEF SameBut, HeapFields, SameChunks
<1> HIDE DEF W, w
<1>14. /\ Sound(w, M, {q}) /\ w.chunk[b].size >= q - b /\ w.chunk[b].cin
       /\ w.chunk[q].size = e - q /\ Spares(k, w, M \ {b})
  <2> DEFINE V == {m}
  <2>1. V \subseteq b .. e - 1 /\ Sound(y, M, V) /\ Span(y, b, e, M, V)
    BY <1>4, <1>7, <1>8
  <2>2. q \in Nat /\ b + MinChunk <= q /\ q + MinChunk <= e
    BY <1>6
  <2> HIDE DEF V
  <2>3. /\ Sound(w, M, {q}) /\ w.chunk[b].size >= q - b /\ w.chunk[b].cin
        /\ w.chunk[q].size >= e - q /\ w.chunk[q].size <= e - q /\ Spares(k, w, M \ {b})
    BY ONLY <1>2, <1>4, <1>5, <1>6, <1>8, <1>9, <1>13, <2>1, <2>2, FrontSplit
  <2>4. w.chunk[q].size \in Nat
    BY <2>3, Inside, ChunkFields
  <2> QED
    BY <1>6, <2>3, <2>4
<1>15. q \in {q} /\ r = w.chunk[q].size /\ g = Bin(w, q, r) /\ {q} \ {q} = {}
  BY <1>14 DEF w
<1>16. Sound(g, M, {}) /\ SameBut(g, w, {"small", "tree"})
  <2>1. Sound(Bin(w, q, r), M, {q} \ {q}) /\ SameBut(Bin(w, q, r), w, {"small", "tree"})
    BY ONLY <1>14, <1>15, BinSound
  <2> QED
    BY <1>15, <2>1
<1>17. g.chunk = w.chunk
  BY <1>16 DEF SameBut, HeapFields
<1>18. SameBut(g, k, FreeFields)
  BY <1>4, <1>13, <1>16 DEF SameBut, HeapFields, FreeFields
<1> QED
  BY <1>2, <1>14, <1>16, <1>17, <1>18 DEF Fronts, Spares, M

\* The remainder joins the designated victim behind it.
LEMMA PrependVictim ==
  ASSUME NEW x, NEW k, NEW L, NEW b, NEW m, Ahead(x, k, L \cup {b}, b, m), b \notin L,
         m = x.dv, NEW q, q \in Nat, b + MinChunk <= q, q < m,
         NEW n, n = q - b, NEW e, e = m + x.dvsize, NEW r, r = e - q,
         NEW g, g = Victim(SetFree(SetInUsePart(x, b, n), q, r), q, r)
  PROVE  Fronts(k, g, L, b, n)
<1> DEFINE M == L \cup {b}
           s == SetInUsePart(x, b, n)
           W == SetFree(s, q, r)
           y == NoVictim(k)
           w == NoVictim(W)
<1>1. /\ Span(k, b, m, M, {}) /\ M \ (b .. m - 1) = M \ {b} /\ m \in DOMAIN x.chunk
      /\ m \in Nat /\ b \in Nat \ {0} /\ b < m /\ m # 0
      /\ DOMAIN k.chunk = DOMAIN x.chunk \cup {b} /\ DOMAIN k.chunk \subseteq Nat \ {0}
      /\ \A c \in DOMAIN x.chunk : c # m => k.chunk[c] = x.chunk[c]
  <2>1. Ahead(x, k, M, b, m)
    OBVIOUS
  <2> HIDE DEF M
  <2>2. m \in DOMAIN x.chunk
    BY <2>1 DEF Ahead
  <2>3. /\ DOMAIN k.chunk = DOMAIN x.chunk \cup {b} /\ DOMAIN k.chunk \subseteq Nat \ {0}
        /\ \A c \in DOMAIN x.chunk : c # m => k.chunk[c] = x.chunk[c]
    BY <2>1, FrontFields
  <2>4. Span(k, b, m, M, {}) /\ M \ (b .. m - 1) = M \ {b} /\ m \in Nat /\ b \in Nat /\ b < m
    BY <2>1, FrontFields
  <2>5. b \in Nat \ {0}
    BY <2>1 DEF Ahead
  <2> QED
    BY <2>2, <2>3, <2>4, <2>5
<1>2. /\ Sound(k, M, {}) /\ Ahead(x, k, M, b, m) /\ SameBut(k, x, {"chunk"}) /\ IsHeap(x) /\ IsHeap(k)
      /\ Heads(x.chunk) /\ M \ {b} = L
  BY DEF Ahead, SameBut
<1> HIDE DEF M
<1>3. k.dv = m /\ k.dv # 0 /\ k.dvsize = x.dvsize
  BY <1>1, <1>2 DEF SameBut, HeapFields
<1>4. /\ Sound(y, M, {m}) /\ SameBut(y, k, {"dv", "dvsize"}) /\ y.chunk = k.chunk /\ y.segs = k.segs
      /\ IsHeap(y) /\ k.chunk[m].size = x.dvsize /\ y.dv = 0 /\ y.dvsize = 0
  <2>1. Sound(NoVictim(k), M, {} \cup {k.dv}) /\ SameBut(NoVictim(k), k, {"dv", "dvsize"}) /\ k.dvsize = k.chunk[k.dv].size
    BY <1>2, <1>3, VictimOut
  <2>2. y.dv = 0 /\ y.dvsize = 0
    BY <1>2 DEF NoVictim, IsHeap, HeapFields
  <2> QED
    BY <1>3, <2>1, <2>2 DEF SameBut, HeapFields
<1>5. /\ Span(y, m, e, M, {m}) /\ k.chunk[e].cin /\ ~k.chunk[e].pin /\ e \in DOMAIN k.chunk
      /\ x.dvsize \in Nat \ {0} /\ x.dvsize >= MinChunk
  <2>1. m \in {m} /\ e = m + y.chunk[m].size
    BY <1>1, <1>4
  <2> HIDE DEF y
  <2>2. /\ Span(y, m, e, M, {m}) /\ y.chunk[m].size \in Nat \ {0} /\ y.chunk[m].size >= MinChunk
        /\ y.chunk[e].cin /\ ~y.chunk[e].pin
    BY <1>4, <2>1, LooseSpan
  <2>3. e \in DOMAIN y.chunk
    BY <1>4, <2>2, SpanFields
  <2> QED
    BY <1>1, <1>4, <2>2, <2>3
<1>6. e \in Nat /\ m < e /\ b < e /\ q + MinChunk <= e /\ e \in DOMAIN x.chunk /\ e # m
  BY <1>1, <1>5 DEF MinChunk
<1>7. Span(y, b, e, M, {m})
  <2> HIDE DEF y
  <2>1. Span(y, b, m, M, {m})
    <3> DEFINE V == {m}
               N == {}
    <3>1. N \subseteq V /\ Span(k, b, m, M, N)
      BY <1>1
    <3> HIDE DEF V, N
    <3>2. Span(y, b, m, M, V)
      BY <1>4, <3>1, SpanLoose
    <3> QED
      BY <3>2 DEF V
  <2> QED
    BY <1>4, <1>5, <2>1, SpanJoin
<1>8. M \ (b .. e - 1) = M \ {b} /\ {m} \subseteq b .. e - 1
  <2>1. m \in {m} /\ e = m + y.chunk[m].size
    BY <1>1, <1>4
  <2> HIDE DEF y
  <2>2. M \ (m .. e - 1) = M
    BY <1>4, <2>1, LooseOne
  <2>3. b .. e - 1 = (b .. m - 1) \cup (m .. e - 1)
    BY <1>1, <1>6
  <2> QED
    BY <1>1, <1>6, <2>2, <2>3
<1>9. Cuts(x, W, b, q, e) /\ m <= e /\ b < q /\ q < m
  <2>1. ~x.chunk[e].pin
    BY <1>1, <1>5, <1>6
  <2>2. b < q /\ m <= e
    BY <1>1, <1>6 DEF MinChunk
  <2>3. W = SetFree(SetInUsePart(x, b, q - b), q, e - q)
    OBVIOUS
  <2> QED
    BY <2>1, <2>2, <2>3 DEF Cuts
<1>10. SameBut(W, x, {"chunk"}) /\ IsHeap(W)
  <2>1. Vacant(x, k.chunk, b, m)
    BY <1>2 DEF Ahead, Vacant
  <2> HIDE DEF W
  <2>2. SameBut(W, x, {"chunk"})
    BY <1>6, <1>9, <2>1, InFrontWrites
  <2> QED
    BY <2>2 DEF SameBut
<1> HIDE DEF W
<1>11. SameBut(w, y, {"chunk"}) /\ w.chunk = W.chunk /\ IsHeap(w) /\ w.dv = 0
  <2>1. SameBut(W, k, {"chunk"})
    BY <1>2, <1>10 DEF SameBut, HeapFields
  <2> QED
    BY <1>2, <1>10, <2>1 DEF SameBut, HeapFields, NoVictim, IsHeap
<1> HIDE DEF y, w
<1>14. /\ Sound(w, M, {q}) /\ w.chunk[b].size >= q - b /\ w.chunk[b].cin
       /\ w.chunk[q].size = e - q /\ Spares(k, w, M \ {b})
  <2> DEFINE V == {m}
  <2>1. V \subseteq b .. e - 1 /\ Sound(y, M, V) /\ Span(y, b, e, M, V)
    BY <1>4, <1>7, <1>8
  <2>2. q \in Nat /\ b + MinChunk <= q /\ q + MinChunk <= e
    BY <1>6
  <2> HIDE DEF V
  <2>3. /\ Sound(w, M, {q}) /\ w.chunk[b].size >= q - b /\ w.chunk[b].cin
        /\ w.chunk[q].size >= e - q /\ w.chunk[q].size <= e - q /\ Spares(k, w, M \ {b})
    <3>1. /\ Ahead(x, k, M, b, m) /\ y.chunk = k.chunk /\ k.chunk[e].cin /\ e \in DOMAIN x.chunk
          /\ M \ (b .. e - 1) = M \ {b} /\ Cuts(x, W, b, q, e) /\ m <= e /\ b < q /\ q < m
          /\ SameBut(w, y, {"chunk"}) /\ w.chunk = W.chunk
      BY <1>2, <1>4, <1>5, <1>6, <1>8, <1>9, <1>11
    <3> QED
      BY ONLY <2>1, <2>2, <3>1, FrontSplit
  <2>4. w.chunk[q].size \in Nat
    BY <2>3, Inside, ChunkFields
  <2> QED
    BY <1>6, <2>3, <2>4
<1>15. q \in {q} /\ r = w.chunk[q].size /\ {q} \ {q} = {} /\ w.dv = 0
  BY <1>11, <1>14
<1>16. Sound(Victim(w, q, r), M, {}) /\ SameBut(Victim(w, q, r), w, {"dv", "dvsize"})
  <2>1. Sound(Victim(w, q, r), M, {q} \ {q}) /\ SameBut(Victim(w, q, r), w, {"dv", "dvsize"})
    BY ONLY <1>14, <1>15, VictimIn
  <2> QED
    BY <1>15, <2>1
<1>17. g = Victim(w, q, r)
  <2>1. g = Victim(W, q, r)
    BY DEF W
  <2>2. w = NoVictim(W)
    BY DEF w
  <2> QED
    BY <1>10, <2>1, <2>2 DEF Victim, NoVictim, IsHeap, HeapFields
<1>18. SameBut(g, k, FreeFields) /\ g.chunk = w.chunk
  <2>1. SameBut(g, w, {"dv", "dvsize"})
    BY <1>16, <1>17
  <2> QED
    BY <1>4, <1>11, <2>1 DEF SameBut, HeapFields, FreeFields
<1> QED
  BY <1>2, <1>14, <1>16, <1>17, <1>18 DEF Fronts, Spares, M

\* The remainder joins the top behind it.
LEMMA PrependTop ==
  ASSUME NEW x, NEW k, NEW L, NEW b, NEW m, Ahead(x, k, L \cup {b}, b, m), b \notin L,
         m = x.top, NEW q, q \in Nat, b + MinChunk <= q, q < m,
         NEW n, n = q - b, NEW E, E = m + x.topsize, NEW r, r = E - q,
         NEW g, g = [Put(SetInUsePart(x, b, n), q, r, FALSE, TRUE) EXCEPT !.top = q, !.topsize = r]
  PROVE  Fronts(k, g, L, b, n)
<1> DEFINE M == L \cup {b}
           s == SetInUsePart(x, b, n)
           W == Put(s, q, r, FALSE, TRUE)
           C == x.chunk
           K == k.chunk
           Y == s.chunk
           D == W.chunk
<1>1. /\ Sound(k, M, {}) /\ Ahead(x, k, M, b, m) /\ SameBut(k, x, {"chunk"}) /\ IsHeap(x) /\ IsHeap(k)
      /\ Heads(x.chunk) /\ M \ {b} = L /\ b \in Nat \ {0} /\ m \in DOMAIN C /\ k.chunk[b].cin /\ k.chunk[b].pin
      /\ Overwrites(C, K, b, m - b) /\ \A a \in DOMAIN C : a < b \/ a >= m
  BY DEF Ahead, SameBut
<1> HIDE DEF M
<1>2. /\ Span(k, b, m, M, {}) /\ M \ (b .. m - 1) = M \ {b} /\ m \in Nat /\ b < m
      /\ DOMAIN K = DOMAIN C \cup {b} /\ b \notin DOMAIN C
      /\ M \subseteq DOMAIN K /\ DOMAIN K \subseteq Nat \ {0}
      /\ \A c \in DOMAIN C : c # m => K[c] = C[c]
  <2>1. Span(k, b, m, M, {}) /\ M \ (b .. m - 1) = M \ {b} /\ m \in Nat /\ b < m
    BY <1>1, FrontFields
  <2>2. /\ DOMAIN k.chunk = DOMAIN x.chunk \cup {b} /\ b \notin DOMAIN x.chunk
        /\ M \subseteq DOMAIN k.chunk /\ DOMAIN k.chunk \subseteq Nat \ {0}
    BY <1>1, FrontFields
  <2>3. \A c \in DOMAIN x.chunk : c # m => k.chunk[c] = x.chunk[c]
    BY <1>1, FrontFields
  <2> QED
    BY <2>1, <2>2, <2>3
<1>3. k.top = m /\ k.topsize = x.topsize /\ k.segs = x.segs
  BY <1>1 DEF SameBut, HeapFields
<1>4. /\ k.topsize \in Nat \ {0} /\ E = k.top + k.topsize /\ E \in Nat /\ m < E
      /\ 1 \in DOMAIN k.segs /\ Holds(k.segs[1], m) /\ E < End(k.segs[1]) /\ End(k.segs[1]) \in Nat
      /\ \A a \in DOMAIN K : a <= m \/ a >= End(k.segs[1])
  <2>1. E = k.top + k.topsize
    BY <1>3
  <2> QED
    BY <1>1, <1>2, <1>3, <2>1, TopFields
<1>5. b < q /\ b + MinChunk <= q /\ n \in Nat \ {0} /\ r \in Nat \ {0} /\ q < E /\ q \in Nat \ {0} /\ b + n = q /\ q + r = E
  BY <1>1, <1>2, <1>4 DEF MinChunk
<1>6. Holds(k.segs[1], b) /\ b \in InHeap(K)
  <2>1. PICK i \in DOMAIN k.segs : Holds(k.segs[i], b) /\ Holds(k.segs[i], m)
    BY <1>2 DEF Span
  <2>2. Segments(k.segs)
    BY <1>1, Inside
  <2>3. i = 1
    BY <1>2, <1>4, <2>1, <2>2, OneSegment
  <2> QED
    BY <1>2, <2>1, <2>3 DEF Span
<1>7. \A a \in DOMAIN K : b <= a /\ a < k.top => a \in M \cup {}
  BY <1>2, <1>3 DEF Span
<1>8. /\ SameBut(s, x, {"chunk"}) /\ IsHeap(s) /\ Heads(Y) /\ Overwrites(C, Y, b, n) /\ Y[b].cin /\ Y[b].pin
  BY <1>1, <1>5, UsePartOf
<1>9. /\ DOMAIN Y = DOMAIN C \cup {b} /\ (\A a \in DOMAIN C : Y[a] = C[a]) /\ Y[b].size = n /\ Y[b].foot = Stamp
      /\ q \notin DOMAIN Y
  <2>1. \A a \in DOMAIN C : (a < b \/ a >= b + n) /\ a # b + n /\ a # b /\ a # q
    BY <1>1, <1>2, <1>5
  <2> HIDE DEF C, Y, K
  <2> QED
    BY <1>1, <1>2, <1>5, <1>8, <2>1 DEF Overwrites
<1> HIDE DEF s
<1>10. /\ SameBut(W, s, {"chunk"}) /\ IsHeap(W) /\ Heads(D) /\ Overwrites(Y, D, q, r) /\ ~D[q].cin /\ D[q].pin
  <2>1. SameBut(W, s, {"chunk"}) /\ IsHeap(W) /\ Heads(D) /\ Overwrites(Y, D, q, r)
    BY <1>5, <1>8, PutOf
  <2>2. ~D[q].cin /\ D[q].pin
    BY <1>5, <1>8, PutOf
  <2> QED
    BY <1>2, <1>4, <1>5, <1>9, <2>1, <2>2
<1> HIDE DEF C, K, Y
<1>11. /\ SameBut(g, k, {"chunk", "top", "topsize"}) /\ g.chunk = D /\ g.top = q /\ g.topsize = r
  <2> HIDE DEF W
  <2>1. SameBut(W, k, {"chunk"})
    BY <1>1, <1>8, <1>10 DEF SameBut, HeapFields
  <2>2. g = [W EXCEPT !.top = q, !.topsize = r]
    BY DEF W, s
  <2> QED
    BY <1>10, <2>1, <2>2 DEF SameBut, HeapFields, IsHeap
<1> HIDE DEF D, W
<1>12. \A c \in DOMAIN C : c <= m \/ c > E
  BY <1>2, <1>4
<1>13. /\ DOMAIN D = {c \in DOMAIN K : c < b \/ c >= E} \cup {b, q}
       /\ D[b] = Y[b] /\ D[q].size = r /\ D[q].foot = Stamp
       /\ \A c \in DOMAIN D : c # b /\ c # q => c \in DOMAIN C /\ D[c] = C[c] /\ c # m
  <2>1. DOMAIN D = {c \in DOMAIN Y : c < q \/ c >= q + r} \cup {q} /\ q + r = E
    BY <1>5, <1>10 DEF Overwrites
  <2>2. \A c \in DOMAIN C : c < b \/ c >= m
    BY <1>1
  <2>3. DOMAIN D = {c \in DOMAIN C : c < b \/ c >= E} \cup {b, q}
    BY <1>2, <1>4, <1>5, <1>9, <2>1, <2>2
  <2>4. D[q].size = r /\ D[q].foot = Stamp
    BY <1>5, <1>9, <1>10 DEF Overwrites
  <2>5. \A c \in DOMAIN D : c # q /\ c # E => D[c] = Y[c]
    BY <1>5, <1>10 DEF Overwrites
  <2>6. E \notin DOMAIN D
    BY <1>2, <1>4, <1>5, <1>12, <2>3
  <2>7. DOMAIN D = {c \in DOMAIN K : c < b \/ c >= E} \cup {b, q}
    BY <1>2, <1>4, <1>5, <2>3
  <2>8. m \notin DOMAIN D
    BY <1>2, <1>4, <1>5, <2>3
  <2>9. b \in DOMAIN D /\ b # q /\ b # E
    BY <1>2, <1>4, <1>5, <2>3
  <2>10. \A c \in DOMAIN D : c # b /\ c # q => c \in DOMAIN C /\ D[c] = C[c] /\ c # m
    BY <1>9, <2>3, <2>5, <2>6, <2>8
  <2> QED
    BY <2>4, <2>5, <2>6, <2>7, <2>9, <2>10
<1>14. K[b].foot = Stamp /\ K[b].pin /\ K[b].pin \in BOOLEAN /\ Y[b].pin \in BOOLEAN
  <2>1. K[b].foot = Stamp
    BY <1>1, <1>2 DEF Overwrites
  <2>2. Heads(K)
    BY <1>1, Inside DEF K
  <2> QED
    BY <1>1, <1>2, <1>8, <1>9, <2>1, <2>2, ChunkFields DEF K
<1>15. /\ D[b].size = q - b /\ D[b].foot = K[b].foot /\ D[b].pin = K[b].pin /\ D[b].cin
       /\ D[q].size = E - q /\ D[q].pin /\ ~D[q].cin /\ D[q].foot = Stamp
       /\ \A c \in DOMAIN D : c # b /\ c # q => D[c] = K[c]
  <2>1. D[b].pin = K[b].pin
    BY <1>8, <1>13, <1>14
  <2>2. \A c \in DOMAIN D : c # b /\ c # q => D[c] = K[c]
    BY <1>2, <1>13
  <2> QED
    BY <1>5, <1>8, <1>9, <1>10, <1>13, <1>14, <2>1, <2>2
<1>16. M \ (b .. E - 1) = M \ (b .. m - 1)
  <2>1. M \subseteq M \cup {} /\ b \in Nat /\ b <= k.top /\ E = k.top + k.topsize
    BY <1>1, <1>2, <1>3, <1>4
  <2> QED
    BY <1>1, <1>3, <2>1, TopClear
<1>17. Sound(g, (M \ (b .. E - 1)) \cup {b}, {} \ (b .. E - 1))
  <2> DEFINE V == {}
  <2>1. /\ Sound(k, M, V) /\ SameBut(g, k, {"chunk", "top", "topsize"}) /\ b \in InHeap(k.chunk)
        /\ Holds(k.segs[1], b) /\ b <= k.top
        /\ (\A a \in DOMAIN k.chunk : b <= a /\ a < k.top => a \in M \cup V)
    BY <1>1, <1>2, <1>3, <1>6, <1>7, <1>11 DEF K
  <2>5. /\ E = k.top + k.topsize /\ q \in Nat /\ b + MinChunk <= q /\ q < E
        /\ Heads(g.chunk) /\ g.top = q /\ g.topsize = E - q
    BY <1>3, <1>4, <1>5, <1>10, <1>11
  <2>2. /\ DOMAIN g.chunk = {c \in DOMAIN k.chunk : c < b \/ c >= E} \cup {b, q}
        /\ \A c \in DOMAIN g.chunk : c # b /\ c # q => g.chunk[c] = k.chunk[c]
    BY <1>11, <1>13, <1>15 DEF K
  <2>3. /\ g.chunk[b].size = q - b /\ g.chunk[b].foot = k.chunk[b].foot /\ g.chunk[b].pin = k.chunk[b].pin
        /\ g.chunk[b].cin /\ g.chunk[q].size = E - q /\ g.chunk[q].pin /\ ~g.chunk[q].cin
        /\ g.chunk[q].foot = Stamp
    BY <1>11, <1>15 DEF K
  <2> HIDE DEF V
  <2>4. Sound(g, (M \ (b .. E - 1)) \cup {b}, V \ (b .. E - 1))
    BY ONLY <2>1, <2>2, <2>3, <2>5, TopBehind
  <2> QED
    BY <2>4 DEF V
<1>18. Sound(g, M, {})
  <2>1. (M \ (b .. E - 1)) \cup {b} = M /\ {} \ (b .. E - 1) = {}
    BY <1>2, <1>16 DEF M
  <2> QED
    BY <1>17, <2>1
<1>19. Spares(k, g, L)
  <2> SUFFICES ASSUME NEW a \in L PROVE a \in DOMAIN D /\ D[a] = K[a]
    BY <1>11 DEF Spares, K
  <2>1. a \in M /\ a # b /\ a \in DOMAIN K
    BY <1>1, <1>2
  <2>2. a \notin b .. E - 1 /\ a \in Nat
    BY <1>2, <1>16, <2>1
  <2>3. a < b \/ a >= E
    BY <1>1, <1>4, <2>2
  <2>4. a # q
    BY <1>1, <1>4, <1>5, <2>3
  <2> QED
    BY <1>13, <1>15, <2>1, <2>3, <2>4
<1>20. SameBut(g, k, FreeFields)
  BY <1>11 DEF SameBut, HeapFields, FreeFields
<1>21. g.chunk[b].size >= n
  <2>1. g.chunk[b].size = n
    BY <1>9, <1>11, <1>13
  <2>2. n \in Nat
    BY <1>5
  <2> QED
    BY ONLY <2>1, <2>2
<1> QED
  BY <1>11, <1>15, <1>18, <1>19, <1>20, <1>21 DEF Fronts, M

\* The heads written change the chunks alone.
LEMMA WritesChunks ==
  ASSUME NEW h, IsHeap(h), NEW a, NEW n, NEW v, NEW cin, NEW pin
  PROVE  /\ SameBut(Put(h, a, n, cin, pin), h, {"chunk"})
         /\ SameBut(SetInUsePart(h, a, n), h, {"chunk"})
         /\ SameBut(SetFree(h, a, n), h, {"chunk"})
<1>1. ASSUME NEW k, IsHeap(k), NEW c, NEW d PROVE SameBut(Put(k, a, n, c, d), k, {"chunk"})
  <2> DEFINE outside == {b \in DOMAIN k.chunk : b < a \/ b >= a + n}
             foot == IF a \in DOMAIN k.chunk THEN k.chunk[a].foot ELSE Stamp
             D == [b \in outside \cup {a} |->
                     IF b = a THEN [size |-> n, cin |-> c, pin |-> d, foot |-> foot] ELSE k.chunk[b]]
  <2>1. Put(k, a, n, c, d) = [k EXCEPT !.chunk = D]
    BY DEF Put
  <2> HIDE DEF D
  <2> QED
    BY <1>1, <2>1, NewChunks
<1>2. ASSUME NEW k, IsHeap(k), NEW e, NEW w PROVE SameBut(SetFoot(k, e, w), k, {"chunk"})
  <2>1. CASE e \in DOMAIN k.chunk
    <3> DEFINE D == [k.chunk EXCEPT ![e].foot = w]
    <3>1. SetFoot(k, e, w) = [k EXCEPT !.chunk = D]
      BY <2>1, <1>2 DEF SetFoot, IsHeap, HeapFields
    <3> HIDE DEF D
    <3> QED
      BY <1>2, <3>1, NewChunks
  <2>2. CASE e \notin DOMAIN k.chunk
    BY <1>2, <2>2 DEF SetFoot, SameBut
  <2> QED
    BY <2>1, <2>2
<1>3. ASSUME NEW c, NEW d, NEW w
      PROVE  SameBut(SetFoot(Put(h, a, n, c, d), a + n, w), h, {"chunk"})
  <2>1. SameBut(Put(h, a, n, c, d), h, {"chunk"})
    BY <1>1
  <2> DEFINE k == Put(h, a, n, c, d)
             e == a + n
  <2>2. SameBut(k, h, {"chunk"}) /\ IsHeap(k)
    BY <2>1 DEF SameBut
  <2> HIDE DEF k, e
  <2>3. SameBut(SetFoot(k, e, w), k, {"chunk"})
    BY <1>2, <2>2
  <2>4. SameBut(SetFoot(k, e, w), h, {"chunk"})
    BY <2>2, <2>3 DEF SameBut
  <2> QED
    BY <2>4 DEF k, e
<1> QED
  BY <1>1, <1>3 DEF SetInUsePart, SetFree

\* The chunk at the old base is the top, the victim, another free chunk or one in use.
PrependCases(low, x, g, b, n, old, q) ==
  /\ old = low.top => g = [Put(SetInUsePart(x, b, n), q, old + low.topsize - q, FALSE, TRUE)
                             EXCEPT !.top = q, !.topsize = old + low.topsize - q]
  /\ old # low.top /\ old = low.dv =>
       g = Victim(SetFree(SetInUsePart(x, b, n), q, old + low.dvsize - q), q, old + low.dvsize - q)
  /\ old \notin {low.top, low.dv} /\ ~InUse(low.chunk[old]) =>
       g = Bin(SetFreeBefore(Unbin(SetInUsePart(x, b, n), old, SizeOf(low, old)), q,
                             old + SizeOf(low, old) - q, old + SizeOf(low, old)),
               q, old + SizeOf(low, old) - q)
  /\ old \notin {low.top, low.dv} /\ InUse(low.chunk[old]) =>
       g = Bin(SetFreeBefore(SetInUsePart(x, b, n), q, old - q, old), q, old - q)

\* What Prepend works with.
PrependArgs(low, x, i, b, s, n, old, q) ==
  /\ IsHeap(low) /\ low.top # low.dv /\ old = low.segs[i].base
  /\ b \in Nat /\ n \in Nat /\ s \in Nat /\ old = b + s /\ low.topsize \in Nat /\ low.dvsize \in Nat
  /\ SizeOf(low, old) \in Nat /\ SizeOf(low, old) = low.chunk[old].size
  /\ q = b + n /\ Moves(low, x, i, b, s)

\* The four ways of Prepend, x being the space with the segment extended.
LEMMA PrependWays ==
  ASSUME NEW low, NEW x, NEW i, NEW b, NEW s, NEW n, NEW old, NEW q, PrependArgs(low, x, i, b, s, n, old, q),
         NEW g, g = Prepend(low, i, b, s, n)
  PROVE  PrependCases(low, x, g, b, n, old, q)
<1> USE DEF PrependArgs, Moves, PrependCases
<1> DEFINE y == SetInUsePart(x, b, n)
           r == s - n
<1>1. /\ old - q = r /\ old + low.topsize - q = low.topsize + r /\ old + low.dvsize - q = low.dvsize + r
      /\ old + SizeOf(low, old) - q = r + SizeOf(low, old)
      /\ NextChunk(low, old) = old + SizeOf(low, old)
  BY DEF NextChunk
<1>2. /\ IsHeap(x) /\ x.topsize = low.topsize /\ x.dvsize = low.dvsize
  BY DEF IsHeap, HeapFields
<1>3. /\ IsHeap(y) /\ y.topsize = low.topsize /\ y.dvsize = low.dvsize
  <2>1. SameBut(y, x, {"chunk"})
    BY <1>2, WritesChunks
  <2> HIDE DEF y
  <2> QED
    BY <1>2, <2>1 DEF SameBut, HeapFields
<1>4. \A p, v : Put(y, q, p, FALSE, TRUE).topsize = low.topsize /\ SetFree(y, q, p).dvsize = low.dvsize
        /\ IsHeap(Put(y, q, p, FALSE, TRUE)) /\ IsHeap(SetFree(y, q, p))
  <2> TAKE p, v
  <2>1. SameBut(Put(y, q, p, FALSE, TRUE), y, {"chunk"}) /\ SameBut(SetFree(y, q, p), y, {"chunk"})
    BY <1>3, WritesChunks
  <2> QED
    BY <1>3, <2>1 DEF SameBut, HeapFields
<1> HIDE DEF y, r
<1>5. CASE old = low.top
  <2>1. g = [Put(y, q, low.topsize + r, FALSE, TRUE)
               EXCEPT !.top = q, !.topsize = Put(y, q, low.topsize + r, FALSE, TRUE).topsize + r]
    BY <1>5 DEF Prepend, y, r
  <2> QED
    BY <1>1, <1>4, <1>5, <2>1 DEF y
<1>6. CASE old # low.top /\ old = low.dv
  <2>1. g = [SetFree(y, q, low.dvsize + r)
               EXCEPT !.dv = q, !.dvsize = SetFree(y, q, low.dvsize + r).dvsize + r]
    BY <1>6, <1>4 DEF Prepend, y, r, IsHeap, HeapFields
  <2> QED
    BY <1>1, <1>4, <1>6, <2>1, ZenonT(30) DEF y, Victim
<1>7. CASE old \notin {low.top, low.dv} /\ ~InUse(low.chunk[old])
  <2>1. g = Bin(SetFreeBefore(Unbin(y, old, SizeOf(low, old)), q, r + SizeOf(low, old), NextChunk(low, old)),
                q, r + SizeOf(low, old))
    <3>1. InUse(low.chunk[low.segs[i].base]) <=> FALSE
      BY <1>7
    <3> QED
      BY <1>7, <3>1 DEF Prepend, y, r
  <2> QED
    BY <1>1, <1>7, <2>1 DEF y
<1>8. CASE old \notin {low.top, low.dv} /\ InUse(low.chunk[old])
  <2>1. g = Bin(SetFreeBefore(y, q, r, old), q, r)
    <3>1. InUse(low.chunk[low.segs[i].base]) <=> TRUE
      BY <1>8
    <3> QED
      BY <1>8, <3>1 DEF Prepend, y, r
  <2> QED
    BY <1>1, <1>8, <2>1 DEF y
<1> QED
  BY <1>5, <1>6, <1>7, <1>8

\* What the system gave in s more units changes of a space.
Obtained(h, g, L, s) ==
  /\ Spares(h, g, L) /\ SameBut(g, h, AskFields) /\ h.backed \subseteq g.backed
  /\ g.footprint <= h.footprint + s

\* h with the region b, b + s of the system's counted.
Lower(h, low, b, s) ==
  /\ SameBut(low, h, {"backed", "footprint", "least"})
  /\ low.backed = h.backed \cup GranulesOf(b, s) /\ low.footprint = h.footprint + s
  /\ low.least = IF b < h.least THEN b ELSE h.least

\* A region in front of a segment gives a block and a free remainder.
LEMMA PrependSound ==
  ASSUME NEW h, NEW L, Sound(h, L, {}), NEW i \in DOMAIN h.segs, NEW b, NEW s,
         Whole(b), Whole(s), GranulesOf(b, s) \subseteq Space \ h.backed, b + s = h.segs[i].base,
         NEW low, Lower(h, low, b, s),
         NEW n, n \in Nat, n >= MinChunk, n + MinChunk <= s,
         NEW g, g = Prepend(low, i, b, s, n)
  PROVE  /\ Sound(g, L \cup {b}, {}) /\ b \notin L /\ b # 0
         /\ g.chunk[b].size >= n /\ g.chunk[b].cin /\ g.chunk[b].pin
         /\ Obtained(h, g, L, s)
<1> DEFINE old == h.segs[i].base
           x == [low EXCEPT !.segs[i].base = b, !.segs[i].size = @ + s]
           k == SetInUseWhole(x, b, s)
           q == b + n
<1>1. /\ IsHeap(h) /\ Heads(h.chunk) /\ Segments(h.segs) /\ IsHeap(low) /\ L \subseteq DOMAIN h.chunk
      /\ low.segs = h.segs /\ low.chunk = h.chunk /\ low.small = h.small /\ low.tree = h.tree
      /\ low.top = h.top /\ low.dv = h.dv /\ low.dvsize = h.dvsize /\ low.topsize = h.topsize
  BY Inside DEF SameBut, HeapFields, Lower
<1>2. b \in Nat \ {0} /\ s \in Nat \ {0} /\ MinChunk = 2 /\ s >= MinChunk
      /\ old = b + s /\ old \in Nat /\ b < old
  BY WholeSum DEF MinChunk
<1>m. Moves(low, x, i, b, s)
  BY DEF Moves
<1> HIDE DEF x, old
<1>3. /\ SameBut(x, low, {"segs"})
      /\ x.segs = [h.segs EXCEPT ![i] = [h.segs[i] EXCEPT !.base = b, !.size = h.segs[i].size + s]]
  <2>1. IsHeap(low) /\ Segments(low.segs) /\ i \in DOMAIN low.segs
    BY <1>1
  <2>2. LongerAt(low.segs, x.segs, i, b, s) /\ SameBut(x, low, {"segs"})
    BY ONLY <2>1, <1>m, MovedSegment
  <2> QED
    BY <1>1, <2>2 DEF LongerAt
<1>4. /\ SameBut(x, h, {"segs", "backed", "footprint", "least"}) /\ IsHeap(x) /\ x.chunk = h.chunk
      /\ x.backed = h.backed \cup GranulesOf(b, s) /\ x.footprint = h.footprint + s
      /\ x.least = IF b < h.least THEN b ELSE h.least
  BY <1>1, <1>3 DEF SameBut, HeapFields, Lower
<1>5. /\ Sound(k, L \cup {b}, {}) /\ Spares(h, k, L) /\ b \notin DOMAIN h.chunk /\ SameBut(k, x, {"chunk"})
  <2> DEFINE U == {}
  <2>1. Fronted(h, x, i, b, s) /\ Sound(h, L, U)
    BY <1>2, <1>3, <1>4 DEF old, Fronted
  <2> HIDE DEF U
  <2>2. k = SetInUseWhole(x, b, s)
    OBVIOUS
  <2> HIDE DEF k
  <2>3. Sound(k, L \cup {b}, U) /\ Spares(h, k, L) /\ b \notin DOMAIN h.chunk /\ SameBut(k, x, {"chunk"})
    BY ONLY <2>1, <2>2, RegionInFront
  <2> QED
    BY <2>3 DEF U
<1>6. b \notin L
  BY <1>1, <1>5
<1>7. /\ old \in InHeap(h.chunk) /\ h.chunk[old].pin /\ old \in DOMAIN h.chunk
  BY DEF Sound, Shape, InHeap, old
<1>8. Ahead(x, k, L \cup {b}, b, old)
  <2>1. /\ Overwrites(x.chunk, k.chunk, b, s) /\ k.chunk[b].cin /\ k.chunk[b].pin
    BY <1>1, <1>2, <1>4, UseWholeOf
  <2>2. \A a \in DOMAIN h.chunk : a < b \/ a >= old
    <3> TAKE a \in DOMAIN h.chunk
    <3>1. GranulesOf(b, s) \cap h.backed = {}
      OBVIOUS
    <3>2. a + h.chunk[a].size < b \/ b + s <= a
      BY <3>1, FreshRegion
    <3>3. a \in Nat /\ h.chunk[a].size \in Nat
      BY <1>1, ChunkFields
    <3> QED
      BY <1>2, <3>2, <3>3
  <2>3. old - b = s
    BY <1>2
  <2> QED
    BY <1>1, <1>2, <1>4, <1>5, <1>7, <2>1, <2>2, <2>3 DEF Ahead
<1>9. /\ h.topsize \in Nat /\ h.top # h.dv /\ h.chunk[old].size \in Nat /\ SizeOf(low, old) = h.chunk[old].size
      /\ h.topsize = h.chunk[h.top].size /\ h.top \in Nat
  <2>1. h.topsize \in Nat /\ h.topsize = h.chunk[h.top].size /\ h.top \in Nat
    BY TopFields
  <2>2. h.top # h.dv
    BY DEF Sound, Placed
  <2> QED
    BY <1>1, <1>7, <2>1, <2>2, ChunkFields DEF SizeOf
<1>10. h.dvsize \in Nat
  <2>1. h.dvsize = IF h.dv = 0 THEN 0 ELSE h.chunk[h.dv].size
    BY DEF Sound, Sizes
  <2>2. h.dv # 0 => h.dv \in DOMAIN h.chunk
    <3>1. h.dv # 0 => h.dv \in Idle_(h.chunk)
      BY DEF Sound, Placed
    <3> QED
      BY <3>1 DEF Idle_
  <2> QED
    BY <1>1, <2>1, <2>2, ChunkFields
<1>11. /\ q \in Nat /\ b + MinChunk <= q /\ q + MinChunk <= old /\ q < old /\ n = q - b
  BY <1>2
<1> HIDE DEF q, k
<1>12. Fronts(k, g, L, b, n)
  <2>1. PrependArgs(low, x, i, b, s, n, old, q)
    BY <1>1, <1>2, <1>9, <1>10, <1>m DEF old, q, PrependArgs
  <2>8. SizeOf(low, old) = low.chunk[old].size /\ g = Prepend(low, i, b, s, n)
    BY <1>1, <1>9
  <2>7. PrependCases(low, x, g, b, n, old, q)
    BY ONLY <2>1, <2>8, PrependWays
  <2>2. /\ x.top = low.top /\ x.dv = low.dv /\ x.topsize = low.topsize /\ x.dvsize = low.dvsize
        /\ x.chunk = low.chunk /\ x.small = low.small /\ x.tree = low.tree
    BY <1>3 DEF SameBut, HeapFields
  <2>9. q \in Nat /\ old \in Nat /\ low.topsize \in Nat /\ low.dvsize \in Nat /\ SizeOf(low, old) \in Nat
    BY <1>1, <1>2, <1>9, <1>10, <1>11
  <2>3. CASE old = low.top
    <3>1. g = [Put(SetInUsePart(x, b, n), q, old + low.topsize - q, FALSE, TRUE)
                                    EXCEPT !.top = q, !.topsize = old + low.topsize - q]
      BY ONLY <2>7, <2>3 DEF PrependCases
    <3> DEFINE E == old + x.topsize
               r == E - q
    <3>2. g = [Put(SetInUsePart(x, b, n), q, r, FALSE, TRUE) EXCEPT !.top = q, !.topsize = r]
          /\ E = old + x.topsize /\ r = E - q /\ old = x.top
      <4>1. old + low.topsize - q = r
        BY <2>2, <2>9
      <4> HIDE DEF r
      <4>2. g = [Put(SetInUsePart(x, b, n), q, r, FALSE, TRUE) EXCEPT !.top = q, !.topsize = r]
        BY ONLY <4>1, <3>1
      <4> QED
        BY ONLY <2>2, <2>3, <4>2 DEF E, r
    <3> HIDE DEF E, r
    <3>3. /\ Ahead(x, k, L \cup {b}, b, old) /\ b \notin L /\ old = x.top /\ q \in Nat
          /\ b + MinChunk <= q /\ q < old /\ n = q - b
      BY <1>6, <1>8, <1>11, <3>2
    <3> QED
      BY ONLY <3>2, <3>3, PrependTop
  <2>4. CASE old # low.top /\ old = low.dv
    <3>1. g = Victim(SetFree(SetInUsePart(x, b, n), q, old + low.dvsize - q), q, old + low.dvsize - q)
      BY ONLY <2>7, <2>4 DEF PrependCases
    <3> DEFINE e == old + x.dvsize
               r == e - q
    <3>2. g = Victim(SetFree(SetInUsePart(x, b, n), q, r), q, r)
          /\ e = old + x.dvsize /\ r = e - q /\ old = x.dv
      BY ONLY <2>2, <2>4, <3>1, <2>9 DEF e, r
    <3> HIDE DEF e, r
    <3> QED
      BY <1>6, <1>8, <1>11, <3>2, PrependVictim
  <2>5. CASE old \notin {low.top, low.dv} /\ ~InUse(low.chunk[old])
    <3>1. g = Bin(SetFreeBefore(Unbin(SetInUsePart(x, b, n), old, SizeOf(low, old)), q,
                                old + SizeOf(low, old) - q, old + SizeOf(low, old)),
                      q, old + SizeOf(low, old) - q)
      BY ONLY <2>7, <2>5 DEF PrependCases
    <3> DEFINE z == x.chunk[old].size
               e == old + z
               r == e - q
    <3>2. g = Bin(SetFreeBefore(Unbin(SetInUsePart(x, b, n), old, z), q, r, e), q, r)
          /\ e = old + z /\ r = e - q /\ z = x.chunk[old].size
      BY ONLY <2>8, <2>2, <3>1, <2>9 DEF e, r, z
    <3>3. old \in Binned_(x.small, x.tree)
      <4>1. old \in Idle_(h.chunk)
        BY <1>1, <1>7, <2>5 DEF Idle_, InUse
      <4>2. old \in Binned_(h.small, h.tree)
        BY <1>1, <4>1, <2>5 DEF Sound, Placed
      <4> QED
        BY <1>1, <2>2, <4>2
    <3> HIDE DEF e, r, z
    <3> QED
      BY <1>6, <1>8, <1>11, <3>2, <3>3, PrependFree
  <2>6. CASE old \notin {low.top, low.dv} /\ InUse(low.chunk[old])
    <3>1. g = Bin(SetFreeBefore(SetInUsePart(x, b, n), q, old - q, old), q, old - q)
      BY ONLY <2>7, <2>6 DEF PrependCases
    <3> DEFINE r == old - q
    <3>2. g = Bin(SetFreeBefore(SetInUsePart(x, b, n), q, r, old), q, r) /\ r = old - q
      BY <3>1
    <3>3. x.chunk[old].cin
      BY <1>1, <1>7, <2>2, <2>6, ChunkFields DEF InUse
    <3> HIDE DEF r
    <3> QED
      BY <1>6, <1>8, <1>11, <3>2, <3>3, PrependUsed
  <2> QED
    BY <2>3, <2>4, <2>5, <2>6
<1>13. Spares(h, g, L)
  BY <1>5, <1>12, SparesChain DEF Fronts
<1>14. /\ SameBut(g, h, AskFields) /\ h.backed \subseteq g.backed /\ g.footprint = h.footprint + s
  <2>1. SameBut(g, k, FreeFields)
    BY <1>12 DEF Fronts
  <2>2. g.backed = x.backed /\ g.footprint = x.footprint
    BY <1>5, <2>1 DEF SameBut, HeapFields, FreeFields
  <2>3. SameBut(g, h, AskFields)
    BY <1>4, <1>5, <2>1 DEF SameBut, HeapFields, FreeFields, AskFields
  <2> QED
    BY <1>4, <2>2, <2>3
<1>15. h.footprint \in Nat
  BY FootprintNat
<1>16. g.chunk[b].pin
  <2>1. SameBut(g, k, FreeFields) /\ Sound(g, L \cup {b}, {})
    BY <1>12 DEF Fronts
  <2>2. g.segs = x.segs
    BY <1>5, <2>1 DEF SameBut, HeapFields, FreeFields
  <2>3. i \in DOMAIN g.segs /\ g.segs[i].base = b
    BY <1>1, <1>3, <2>2 DEF Segments, Segment
  <2> QED
    BY <2>1, <2>3 DEF Sound, Shape
<1> QED
  BY <1>2, <1>6, <1>12, <1>13, <1>14, <1>15, <1>16 DEF Fronts, Obtained

----------------------------------------------------------------------------
(* A new segment in front of the others. *)

\* T is S with the region b, s in front, r the record of the segment that was first.
Pushed(S, T, b, s, r) ==
  /\ Segments(T) /\ DOMAIN T = {1} \cup {i + 1 : i \in DOMAIN S}
  /\ T[1].base = b /\ T[1].size = s /\ T[2].rec = r
  /\ \A i \in DOMAIN S : T[i + 1].base = S[i].base /\ T[i + 1].size = S[i].size
  /\ \A i \in DOMAIN S : i # 1 => T[i + 1].rec = S[i].rec

\* A new first segment keeps the account of what the system has lent.
LEMMA LentAdded ==
  ASSUME NEW C, NEW S, NEW B, NEW F, Lent(C, S, B, F), NEW D, NEW T, NEW E, NEW G, Counted(E, G),
         Segments(S), NEW b, NEW s, NEW r, Pushed(S, T, b, s, r), Whole(b), Whole(s),
         NEW R, R = GranulesOf(b, s), B \subseteq E, R \subseteq E, R \cap B = {},
         Maps(D) = Maps(C), \A a \in Maps(C) : D[a] = C[a]
  PROVE  Lent(D, T, E, G)
<1> DEFINE P(i) == GranulesOf(S[i].base, S[i].size)
           Q(i) == GranulesOf(T[i].base, T[i].size)
           M(a) == GranulesOf(MapBase(C, a), MapLength(C, a))
<1>1. /\ B \subseteq Space
      /\ \A i \in DOMAIN S : Whole(S[i].base) /\ Whole(S[i].size) /\ P(i) \subseteq B
      /\ \A i, k \in DOMAIN S : i # k => P(i) \cap P(k) = {}
      /\ \A a \in Maps(C) : Whole(MapBase(C, a)) /\ Whole(MapLength(C, a)) /\ M(a) \subseteq B
                            /\ \A i \in DOMAIN S : M(a) \cap P(i) = {}
      /\ \A a, c \in Maps(C) : a # c => M(a) \cap M(c) = {}
  BY DEF Lent
<1>2. Q(1) = R /\ (\A i \in DOMAIN S : Q(i + 1) = P(i))
  BY DEF Pushed
<1>3. \A a \in Maps(C) : MapBase(D, a) = MapBase(C, a) /\ MapLength(D, a) = MapLength(C, a)
  BY DEF MapBase, MapLength
<1>4. \A a \in Maps(C) : GranulesOf(MapBase(D, a), MapLength(D, a)) = M(a)
  BY <1>3
<1>5. Whole(T[1].base) /\ Whole(T[1].size)
      /\ \A i \in DOMAIN S : Whole(T[i + 1].base) /\ Whole(T[i + 1].size)
  BY <1>1 DEF Pushed
<1>6. \A j \in DOMAIN T : j = 1 \/ \E i \in DOMAIN S : j = i + 1
  BY DEF Pushed
<1> HIDE DEF P, Q, M
<1>7. \A j \in DOMAIN T : Whole(T[j].base) /\ Whole(T[j].size) /\ Q(j) \subseteq E
  BY <1>1, <1>2, <1>5, <1>6
<1>8. \A j, k \in DOMAIN T : j # k => Q(j) \cap Q(k) = {}
  <2> SUFFICES ASSUME NEW j \in DOMAIN T, NEW k \in DOMAIN T, j # k PROVE Q(j) \cap Q(k) = {}
    OBVIOUS
  <2>1. CASE j = 1
    <3>1. PICK i \in DOMAIN S : k = i + 1
      BY <1>6, <2>1
    <3> QED
      BY <1>1, <1>2, <2>1, <3>1
  <2>2. CASE k = 1
    <3>1. PICK i \in DOMAIN S : j = i + 1
      BY <1>6, <2>2
    <3> QED
      BY <1>1, <1>2, <2>2, <3>1
  <2>3. CASE j # 1 /\ k # 1
    <3>1. PICK i \in DOMAIN S : j = i + 1
      BY <1>6, <2>3
    <3>2. PICK m \in DOMAIN S : k = m + 1
      BY <1>6, <2>3
    <3>3. i # m
      BY <3>1, <3>2
    <3> QED
      BY <1>1, <1>2, <3>1, <3>2, <3>3
  <2> QED
    BY <2>1, <2>2, <2>3
<1>9. \A a \in Maps(C) : M(a) \subseteq E /\ \A j \in DOMAIN T : M(a) \cap Q(j) = {}
  BY <1>1, <1>2, <1>6
<1>10. E \subseteq Space /\ G = Granule * Cardinality(E)
  BY DEF Counted
<1>11. \A i \in DOMAIN T : Whole(T[i].base) /\ Whole(T[i].size)
                           /\ GranulesOf(T[i].base, T[i].size) \subseteq E
  BY <1>7 DEF Q
<1>12. \A i, k \in DOMAIN T : i # k =>
          GranulesOf(T[i].base, T[i].size) \cap GranulesOf(T[k].base, T[k].size) = {}
  BY <1>8 DEF Q
<1>13. \A a \in Maps(D) :
        /\ Whole(MapBase(D, a)) /\ Whole(MapLength(D, a))
        /\ GranulesOf(MapBase(D, a), MapLength(D, a)) \subseteq E
        /\ \A i \in DOMAIN T :
            GranulesOf(MapBase(D, a), MapLength(D, a)) \cap GranulesOf(T[i].base, T[i].size) = {}
  BY <1>1, <1>3, <1>4, <1>9 DEF Q
<1>14. \A a, c \in Maps(D) : a # c =>
          GranulesOf(MapBase(D, a), MapLength(D, a))
            \cap GranulesOf(MapBase(D, c), MapLength(D, c)) = {}
  BY <1>1, <1>4
<1> QED
  BY <1>10, <1>11, <1>12, <1>13, <1>14 DEF Lent

\* What AddSegment writes, r being where the record of the first segment goes.
SegmentAdded(h, g, b, s, r) ==
  /\ SameBut(g, h, {"chunk", "segs", "top", "topsize", "backed", "footprint", "least", "trimcheck"})
  /\ Whole(b) /\ Whole(s) /\ GranulesOf(b, s) \subseteq Space \ h.backed
  /\ Pushed(h.segs, g.segs, b, s, r)
  /\ Heads(g.chunk) /\ DOMAIN g.chunk = DOMAIN h.chunk \cup {b, r}
  /\ \A a \in DOMAIN h.chunk : a # r => g.chunk[a] = h.chunk[a]
  /\ g.top = b /\ g.topsize \in Nat \ {0} /\ g.topsize + TopFoot = s
  /\ g.chunk[b].size = g.topsize /\ ~g.chunk[b].cin /\ g.chunk[b].pin
  /\ g.chunk[r].size = SegmentChunk /\ g.chunk[r].cin
  /\ \/ /\ r = h.top /\ g.chunk[r].pin /\ g.chunk[r].foot = h.chunk[r].foot
        /\ r + TopFoot <= End(h.segs[1])
     \/ /\ r = h.top + h.topsize /\ h.topsize >= MinChunk
        /\ ~g.chunk[r].pin /\ g.chunk[r].foot = h.topsize
  /\ Lent(g.chunk, g.segs, g.backed, g.footprint)
  /\ g.least \in Nat /\ g.least <= h.least /\ g.least <= b /\ g.trimcheck \in Nat

\* A new first segment, the old top made its record and perhaps a free chunk before it.
LEMMA SegmentAddedSound ==
  ASSUME NEW h, NEW L, NEW U, Sound(h, L, U), NEW g, NEW b, NEW s, NEW r, SegmentAdded(h, g, b, s, r)
  PROVE  /\ Sound(g, L, U \cup ({h.top} \ {r})) /\ Spares(h, g, L)
         /\ h.top # r => g.chunk[h.top].size = h.topsize
<1> DEFINE C == h.chunk
           D == g.chunk
           S == h.segs
           T == g.segs
           t == h.top
           n == h.topsize
<1>1. /\ IsHeap(h) /\ Shape(C, S, t, h.state) /\ Owned(C, S, h.state, L)
      /\ Placed(C, h.small, h.tree, h.dv, t, U) /\ Sizes(C, h.dv, h.dvsize, t, n)
      /\ Settings(h)
  BY DEF Sound
<1>2. /\ Segments(S) /\ Ends(C, S, t, h.state) /\ Heads(C) /\ Linked(C, S, t, h.state) /\ Apart(C)
  BY <1>1 DEF Shape
<1>3. /\ g.state = h.state /\ g.small = h.small /\ g.tree = h.tree
      /\ g.dv = h.dv /\ g.dvsize = h.dvsize /\ g.limit = h.limit
      /\ g.mmapon = h.mmapon /\ g.checks = h.checks /\ IsHeap(g)
  BY DEF SegmentAdded, SameBut, HeapFields
<1>4. /\ b \in Nat \ {0} /\ s \in Nat \ {0}
      /\ \A j \in DOMAIN S : End(S[j]) <= b \/ b + s <= S[j].base
      /\ \A a \in DOMAIN C : a + C[a].size < b \/ b + s <= a
  <2>1. GranulesOf(b, s) \cap h.backed = {} /\ Whole(b) /\ Whole(s)
    BY DEF SegmentAdded
  <2> QED
    BY <2>1, FreshRegion
<1>5. /\ t \in Nat \ {0} /\ t \in InHeap(C) /\ t \in DOMAIN C /\ n = C[t].size /\ n \in Nat \ {0}
      /\ ~C[t].cin /\ C[t].pin /\ t \in Idle_(C) /\ 1 \in DOMAIN S /\ Holds(S[1], t)
      /\ t + n = End(S[1]) - TopFoot /\ End(S[1]) \in Nat
      /\ \A a \in DOMAIN C : a <= t \/ a >= End(S[1])
      /\ t \notin L /\ t \notin U
  BY TopFields
<1>6. /\ Segments(T) /\ DOMAIN T = {1} \cup {i + 1 : i \in DOMAIN S}
      /\ T[1].base = b /\ T[1].size = s /\ T[2].rec = r
      /\ \A i \in DOMAIN S : T[i + 1].base = S[i].base /\ T[i + 1].size = S[i].size
      /\ \A i \in DOMAIN S : i # 1 => T[i + 1].rec = S[i].rec
  BY DEF SegmentAdded, Pushed
<1>7. /\ Heads(D) /\ DOMAIN D = DOMAIN C \cup {b, r}
      /\ \A a \in DOMAIN C : a # r => D[a] = C[a]
      /\ g.top = b /\ g.topsize \in Nat \ {0} /\ g.topsize + TopFoot = s
      /\ D[b].size = g.topsize /\ ~D[b].cin /\ D[b].pin
      /\ D[r].size = SegmentChunk /\ D[r].cin
      /\ \/ r = t /\ D[r].pin /\ D[r].foot = C[r].foot /\ r + TopFoot <= End(S[1])
         \/ r = t + n /\ n >= MinChunk /\ ~D[r].pin /\ D[r].foot = n
      /\ Lent(D, T, g.backed, g.footprint)
      /\ g.least \in Nat /\ g.least <= h.least /\ g.least <= b /\ g.trimcheck \in Nat
  BY DEF SegmentAdded
<1> HIDE DEF C, D, S, T, t, n
<1>n. TopFoot \in Nat /\ SegmentChunk \in Nat /\ MinChunk = 2 /\ SegmentChunk >= 2
      /\ TopFoot = SegmentChunk + 2
  BY Numbers
<1>8. /\ r \in Nat \ {0} /\ t <= r /\ r + TopFoot <= End(S[1]) /\ r < End(S[1])
      /\ r = t \/ (r \notin DOMAIN C /\ r = t + n)
  <2>1. r \in Nat \ {0} /\ t <= r /\ r + TopFoot <= End(S[1]) /\ (r = t \/ (r = t + n /\ r > t))
    BY <1>5, <1>7, <1>n
  <2>2. r < End(S[1])
    BY <1>5, <1>n, <2>1
  <2> QED
    BY <1>5, <2>1, <2>2
<1>9. /\ S[1].base \in Nat /\ S[1].base <= t
      /\ \A i \in DOMAIN S :
          /\ S[i].base \in Nat /\ S[i].size \in Nat /\ End(S[i]) = S[i].base + S[i].size /\ i \in Nat
          /\ S[i].size > 0 /\ i + 1 \in DOMAIN T /\ End(T[i + 1]) = End(S[i])
          /\ \A a : Holds(T[i + 1], a) <=> Holds(S[i], a)
  <2>1. ASSUME NEW i \in DOMAIN S
        PROVE  /\ S[i].base \in Nat /\ S[i].size \in Nat /\ End(S[i]) = S[i].base + S[i].size
               /\ S[i].size > 0 /\ i \in Nat
    BY <1>2, SegmentFields
  <2>2. ASSUME NEW i \in DOMAIN S
        PROVE  /\ i + 1 \in DOMAIN T /\ End(T[i + 1]) = End(S[i])
               /\ \A a : Holds(T[i + 1], a) <=> Holds(S[i], a)
    BY <1>6 DEF End, Holds
  <2> QED
    BY <1>5, <2>1, <2>2 DEF Holds
<1>10. b \notin DOMAIN C /\ b # r
  <2>1. b \notin DOMAIN C
    <3> SUFFICES ASSUME b \in DOMAIN C PROVE FALSE
      OBVIOUS
    <3>1. C[b].size \in Nat
      BY <1>2, ChunkFields
    <3> QED
      BY <1>4, <3>1
  <2>2. End(S[1]) <= b \/ b + s <= S[1].base
    BY <1>4, <1>5
  <2> QED
    BY <1>4, <1>5, <1>8, <1>9, <2>1, <2>2
<1>11. /\ \A i \in DOMAIN S : ~Holds(S[i], b) /\ (Holds(S[i], r) <=> i = 1)
       /\ Holds(T[1], b) /\ ~Holds(T[1], r) /\ End(T[1]) = b + s
       /\ \A a \in DOMAIN C : ~Holds(T[1], a)
  <2>1. ASSUME NEW i \in DOMAIN S PROVE ~Holds(S[i], b)
    <3>1. End(S[i]) <= b \/ b + s <= S[i].base
      BY <1>4
    <3> QED
      BY <1>4, <1>9, <3>1 DEF Holds
  <2>2. Holds(S[1], r)
    BY <1>5, <1>8, <1>9 DEF Holds
  <2>3. ASSUME NEW i \in DOMAIN S, Holds(S[i], r) PROVE i = 1
    BY <1>2, <1>5, <1>8, <2>2, <2>3, OneSegment
  <2>4. Holds(T[1], b) /\ End(T[1]) = b + s
    BY <1>4, <1>6 DEF Holds, End
  <2>5. ~Holds(T[1], r)
    <3>1. End(S[1]) <= b \/ b + s <= S[1].base
      BY <1>4, <1>5
    <3> QED
      BY <1>4, <1>5, <1>6, <1>8, <1>9, <3>1 DEF Holds
  <2>6. ASSUME NEW a \in DOMAIN C PROVE ~Holds(T[1], a)
    <3>1. a \in Nat /\ C[a].size \in Nat
      BY <1>2, ChunkFields
    <3>2. a + C[a].size < b \/ b + s <= a
      BY <1>4
    <3> QED
      BY <1>4, <1>6, <3>1, <3>2 DEF Holds
  <2> QED
    BY <2>1, <2>2, <2>3, <2>4, <2>5, <2>6
<1>12. /\ \A a \in DOMAIN C : a # t => D[a] = C[a]
       /\ t # r => D[t] = C[t]
       /\ \A a \in DOMAIN C : D[a].pin <=> C[a].pin
       /\ \A a \in DOMAIN C : D[a].foot = C[a].foot
  BY <1>5, <1>7, <1>8
<1>13. InHeap(D) = InHeap(C) \cup {b, r} /\ Idle_(D) = (Idle_(C) \ {r}) \cup {b}
  BY <1>5, <1>7, <1>8, <1>10, <1>12 DEF InHeap, Idle_
<1>14. /\ Len(S) \in Nat /\ DOMAIN S = 1 .. Len(S) /\ Len(T) = Len(S) + 1 /\ DOMAIN T = 1 .. Len(T)
  <2>1. DOMAIN S = 1 .. Len(S) /\ Len(S) \in Nat
    BY <1>2, <1>5, SegmentFields
  <2>2. 1 \in DOMAIN T
    BY <1>6
  <2>3. DOMAIN T = 1 .. Len(T) /\ Len(T) \in Nat
    BY <1>6, <2>2, SegmentFields
  <2>7. Len(S) \in DOMAIN S
    BY <1>5, <2>1
  <2>8. Len(S) + 1 \in DOMAIN T
    BY <1>6, <2>7
  <2>4. Len(S) + 1 \in DOMAIN T /\ Len(T) # 1
    BY <2>1, <2>3, <2>7, <2>8
  <2>5. Len(T) \in DOMAIN T
    BY <2>2, <2>3
  <2>6. PICK i \in DOMAIN S : Len(T) = i + 1
    BY <1>6, <2>4, <2>5
  <2> QED
    BY <2>1, <2>3, <2>4, <2>6
<1>15. Records_(T) = Records_(S) \cup {r}
  <2>1. ASSUME NEW x \in Records_(T) PROVE x \in Records_(S) \cup {r}
    <3>1. PICK j \in 2 .. Len(T) : x = T[j].rec
      BY DEF Records_
    <3>2. PICK i \in DOMAIN S : j = i + 1
      BY <1>6, <1>14
    <3>3. CASE i = 1
      BY <1>6, <3>1, <3>2, <3>3
    <3>4. CASE i # 1
      <4>1. i \in 2 .. Len(S) /\ x = S[i].rec
        BY <1>6, <1>14, <3>1, <3>2, <3>4
      <4> QED
        BY <4>1 DEF Records_
    <3> QED
      BY <3>3, <3>4
  <2>2. r \in Records_(T)
    <3>1. 2 \in 2 .. Len(T)
      BY <1>5, <1>14
    <3> QED
      BY <1>6, <3>1 DEF Records_
  <2>3. ASSUME NEW x \in Records_(S) PROVE x \in Records_(T)
    <3>1. PICK i \in 2 .. Len(S) : x = S[i].rec
      BY DEF Records_
    <3>2. i + 1 \in 2 .. Len(T) /\ i \in DOMAIN S /\ i # 1
      BY <1>14
    <3>3. x = T[i + 1].rec
      BY <1>6, <3>1, <3>2
    <3> QED
      BY <3>2, <3>3 DEF Records_
  <2> QED
    BY <2>1, <2>2, <2>3
<1>16. Apart(D)
  <2> SUFFICES ASSUME NEW a \in DOMAIN D, NEW c \in DOMAIN D, a < c PROVE a + D[a].size <= c
    BY DEF Apart
  <2>0. /\ \A x \in DOMAIN C : x \in Nat /\ C[x].size \in Nat
        /\ \A x, y \in DOMAIN C : x < y => x + C[x].size <= y
    BY <1>2, ChunkFields DEF Apart
  <2>b. End(S[1]) <= b \/ b + s <= S[1].base
    BY <1>4, <1>5
  <2>c. a \in Nat /\ c \in Nat
    BY <1>4, <1>7, <1>8, <2>0
  <2>1. CASE a = b
    <3>1. D[a].size < s
      BY <1>4, <1>7, <1>n, <2>1
    <3>2. D[a].size \in Nat /\ b + s <= c
      <4>1. CASE c = r
        BY <1>4, <1>5, <1>7, <1>8, <1>9, <2>1, <2>b, <4>1
      <4>2. CASE c # r
        <5>1. c \in DOMAIN C
          BY <1>4, <1>7, <2>1, <4>2
        <5>2. c + C[c].size < b \/ b + s <= c
          BY <1>4, <5>1
        <5> QED
          BY <1>4, <1>7, <2>0, <2>1, <5>1, <5>2
      <4> QED
        BY <4>1, <4>2
    <3> QED
      BY <1>4, <2>1, <2>c, <3>1, <3>2
  <2>2. CASE a = r
    <3>1. D[a].size = SegmentChunk
      BY <1>7, <2>2
    <3>2. c >= End(S[1])
      <4>1. CASE c = b
        BY <1>4, <1>5, <1>8, <1>9, <2>2, <2>b, <4>1
      <4>2. CASE c # b
        <5>1. c \in DOMAIN C /\ c # t
          <6>1. c # r /\ c > t
            BY <1>5, <1>8, <2>2, <2>c
          <6> QED
            BY <1>5, <1>7, <2>c, <4>2, <6>1
        <5>2. c <= t \/ c >= End(S[1])
          BY <1>5, <5>1
        <5> QED
          BY <1>5, <1>8, <2>0, <2>2, <5>1, <5>2
      <4> QED
        BY <4>1, <4>2
    <3>3. c \in Nat
      BY <1>4, <1>7, <1>8, <2>0
    <3> QED
      BY <1>5, <1>8, <1>n, <2>2, <3>1, <3>2, <3>3
  <2>3. CASE a \notin {b, r}
    <3>1. a \in DOMAIN C /\ D[a].size = C[a].size /\ a \in Nat /\ C[a].size \in Nat
      BY <1>7, <2>0, <2>3
    <3>2. CASE c = b
      BY <1>4, <3>1, <3>2
    <3>3. CASE c = r
      <4>1. CASE r = t
        BY <1>5, <2>0, <3>1, <3>3, <4>1
      <4>2. CASE r # t
        <5>1. a <= t \/ a >= End(S[1])
          BY <1>5, <3>1
        <5>2. a <= t
          BY <1>5, <1>8, <3>1, <3>3, <5>1
        <5>3. a + C[a].size <= t \/ a = t
          BY <1>5, <2>0, <3>1, <5>2
        <5> QED
          BY <1>5, <1>8, <3>1, <3>3, <4>2, <5>3
      <4> QED
        BY <4>1, <4>2
    <3>4. CASE c \notin {b, r}
      BY <1>7, <2>0, <3>1, <3>4
    <3> QED
      BY <3>2, <3>3, <3>4
  <2> QED
    BY <2>1, <2>2, <2>3
<1>17. \A j \in DOMAIN T : T[j].base \in InHeap(D) /\ D[T[j].base].pin
  <2> SUFFICES ASSUME NEW j \in DOMAIN T PROVE T[j].base \in InHeap(D) /\ D[T[j].base].pin
    OBVIOUS
  <2>1. CASE j = 1
    BY <1>6, <1>7, <1>13, <2>1
  <2>2. CASE j # 1
    <3>1. PICK i \in DOMAIN S : j = i + 1
      BY <1>6, <2>2
    <3>2. S[i].base \in InHeap(C) /\ C[S[i].base].pin
      BY <1>1 DEF Shape
    <3> QED
      BY <1>6, <1>12, <1>13, <3>1, <3>2 DEF InHeap
  <2> QED
    BY <2>1, <2>2
<1>18. \A a \in DOMAIN D : (\E j \in DOMAIN T : Holds(T[j], a)) <=> a \in InHeap(D)
  <2> SUFFICES ASSUME NEW a \in DOMAIN D
               PROVE  (\E j \in DOMAIN T : Holds(T[j], a)) <=> a \in InHeap(D)
    OBVIOUS
  <2>1. CASE a = b
    BY <1>6, <1>11, <1>13, <2>1
  <2>2. CASE a = r
    BY <1>5, <1>6, <1>9, <1>11, <1>13, <2>2
  <2>3. CASE a \notin {b, r}
    <3>1. a \in DOMAIN C /\ ((\E i \in DOMAIN S : Holds(S[i], a)) <=> a \in InHeap(C))
      BY <1>1, <1>7, <2>3 DEF Shape
    <3>2. (\E j \in DOMAIN T : Holds(T[j], a)) <=> (\E i \in DOMAIN S : Holds(S[i], a))
      BY <1>6, <1>9, <1>11, <3>1
    <3> QED
      BY <1>13, <2>3, <3>1, <3>2
  <2> QED
    BY <2>1, <2>2, <2>3
<1>19. Ends(D, T, b, h.state)
  <2>1. /\ b \in InHeap(D) /\ ~D[b].cin /\ Holds(T[1], b) /\ b + D[b].size = End(T[1]) - TopFoot
    BY <1>4, <1>7, <1>11, <1>13, <1>n
  <2>2. h.state \in InHeap(D) /\ D[h.state].cin /\ h.state # r
    <3>1. h.state \in InHeap(C) /\ C[h.state].cin /\ h.state \in DOMAIN C
      BY <1>2 DEF Ends, InHeap
    <3>2. h.state # t
      BY <1>5, <3>1
    <3> QED
      BY <1>8, <1>12, <1>13, <3>1, <3>2
  <2>3. ASSUME NEW j \in 2 .. Len(T)
        PROVE  /\ T[j].rec \in InHeap(D) /\ Holds(T[j], T[j].rec) /\ T[j].rec # h.state
               /\ D[T[j].rec].cin /\ D[T[j].rec].size = SegmentChunk
               /\ T[j].rec + TopFoot <= End(T[j])
    <3>1. PICK i \in DOMAIN S : j = i + 1
      BY <1>6, <1>14
    <3>2. CASE i = 1
      <4>1. j = 2 /\ T[j].rec = r /\ (Holds(T[j], r) <=> Holds(S[1], r)) /\ End(T[j]) = End(S[1])
        BY <1>6, <1>9, <3>1, <3>2, SMTT(30)
      <4>2. Holds(S[1], r) /\ r \in InHeap(D)
        BY <1>5, <1>11, <1>13
      <4> QED
        BY <1>7, <1>8, <2>2, <4>1, <4>2
    <3>3. CASE i # 1
      <4>1. i \in 2 .. Len(S)
        BY <1>14, <3>3
      <4>2. /\ S[i].rec \in InHeap(C) /\ Holds(S[i], S[i].rec) /\ S[i].rec # h.state
            /\ C[S[i].rec].cin /\ C[S[i].rec].size = SegmentChunk
            /\ S[i].rec + TopFoot <= End(S[i])
        BY <1>2, <4>1 DEF Ends
      <4>3. S[i].rec \in DOMAIN C /\ S[i].rec # t
        BY <1>5, <4>2 DEF InHeap
      <4> QED
        BY <1>6, <1>9, <1>12, <1>13, <3>1, <3>3, <4>2, <4>3
    <3> QED
      BY <3>2, <3>3
  <2> QED
    BY <2>1, <2>2, <2>3 DEF Ends
<1>20. /\ t <= LastOf(S, 1, t) /\ LastOf(T, 1, b) = b /\ LastOf(T, 2, b) = r
       /\ \A i \in DOMAIN S : i # 1 => LastOf(T, i + 1, b) = LastOf(S, i, t)
  <2>1. ASSUME NEW i \in DOMAIN S PROVE i + 1 # 1
    <3>1. i \in 1 .. Len(S) /\ Len(S) \in Nat
      BY <1>14
    <3> QED
      BY ONLY <3>1
  <2> QED
    BY <1>5, <1>6, <2>1 DEF LastOf
<1>21. Linked(D, T, b, h.state)
  <2> SUFFICES ASSUME NEW j \in DOMAIN T, NEW a \in InHeap(D), Holds(T[j], a)
               PROVE  /\ a <= LastOf(T, j, b)
                      /\ a # LastOf(T, j, b) =>
                          /\ D[a].size >= MinChunk
                          /\ a + D[a].size \in InHeap(D) /\ Holds(T[j], a + D[a].size)
                          /\ Tells(D, a, a + D[a].size, h.state)
                      /\ a # T[j].base => \E c \in InHeap(D) : c + D[c].size = a /\ Holds(T[j], c)
    BY DEF Linked
  <2>1. CASE j = 1
    <3>1. a = b
      BY <1>7, <1>11, <2>1 DEF InHeap
    <3> QED
      BY <1>4, <1>6, <1>20, <2>1, <3>1
  <2>2. CASE j # 1
    <3>1. PICK i \in DOMAIN S : j = i + 1
      BY <1>6, <2>2
    <3>2. Holds(S[i], a) /\ a # b
      BY <1>9, <1>11, <3>1
    <3>3. CASE a = r
      <4>1. i = 1 /\ j = 2 /\ LastOf(T, j, b) = r
        BY <1>11, <1>20, <3>1, <3>2, <3>3
      <4>2. ASSUME a # T[j].base PROVE \E c \in InHeap(D) : c + D[c].size = a /\ Holds(T[j], c)
        <5>1. CASE r = t
          <6>1. t # S[1].base
            BY <1>6, <3>1, <3>3, <4>1, <4>2, <5>1
          <6>2. PICK c \in InHeap(C) : c + C[c].size = t /\ Holds(S[1], c)
            BY <1>2, <1>5, <6>1 DEF Linked
          <6>3. c \in DOMAIN C /\ c # t
            <7>1. c \in DOMAIN C
              BY DEF InHeap
            <7>2. c \in Nat /\ C[c].size \in Nat \ {0}
              BY <1>2, <7>1, ChunkFields
            <7> QED
              BY <1>5, <6>2, <7>1, <7>2
          <6>4. c \in InHeap(D) /\ c + D[c].size = a /\ Holds(T[j], c)
            BY <1>9, <1>12, <1>13, <3>1, <3>3, <4>1, <5>1, <6>2, <6>3
          <6> QED
            BY <6>4
        <5>2. CASE r # t
          <6>1. t \in InHeap(D) /\ t + D[t].size = a /\ Holds(T[j], t)
            BY <1>5, <1>8, <1>9, <1>12, <1>13, <3>1, <3>3, <4>1, <5>2
          <6> QED
            BY <6>1
        <5> QED
          BY <5>1, <5>2
      <4>3. a <= LastOf(T, j, b)
        BY <1>8, <3>3, <4>1
      <4> QED
        BY <3>3, <4>1, <4>2, <4>3
    <3>4. CASE a # r
      <4>1. a \in InHeap(C) /\ a \in DOMAIN C /\ a \in Nat /\ C[a].size \in Nat \ {0} /\ D[a] = C[a]
        <5>1. a \in InHeap(C) /\ a \in DOMAIN C
          BY <1>13, <3>2, <3>4 DEF InHeap
        <5>2. a \in Nat /\ C[a].size \in Nat \ {0}
          BY <1>2, <5>1, ChunkFields
        <5> QED
          BY <1>7, <3>4, <5>1, <5>2
      <4>2. a <= LastOf(S, i, t)
        BY <1>2, <3>2, <4>1 DEF Linked
      <4>3. CASE a = t
        <5>1. i = 1 /\ j = 2 /\ LastOf(T, j, b) = r
          BY <1>2, <1>5, <1>20, <3>1, <3>2, <4>3, OneSegment
        <5>2. a + D[a].size = r /\ r > a /\ D[a].size >= MinChunk /\ ~D[r].pin /\ D[r].foot = n
              /\ D[a].size = n
          BY <1>5, <1>7, <1>8, <3>4, <4>1, <4>3
        <5>3. Tells(D, a, r, h.state)
          <6>1. D[r].pin \in BOOLEAN /\ D[a].cin \in BOOLEAN
            BY <1>7, <4>1, ChunkFields
          <6> QED
            BY <1>5, <1>7, <4>1, <4>3, <5>2, <6>1 DEF Tells
        <5>4. r \in InHeap(D) /\ Holds(T[j], r)
          BY <1>5, <1>9, <1>11, <1>13, <3>1, <5>1
        <5>5. ASSUME a # T[j].base PROVE \E c \in InHeap(D) : c + D[c].size = a /\ Holds(T[j], c)
          <6>1. a # S[1].base
            BY <1>6, <3>1, <5>1, <5>5
          <6>2. PICK c \in InHeap(C) : c + C[c].size = a /\ Holds(S[1], c)
            BY <1>2, <1>5, <4>1, <4>3, <6>1 DEF Linked
          <6>3. c \in DOMAIN C /\ c # r
            BY <1>8, <3>4, <4>3 DEF InHeap
          <6>4. c \in InHeap(D) /\ c + D[c].size = a /\ Holds(T[j], c)
            BY <1>7, <1>9, <1>13, <3>1, <5>1, <6>2, <6>3
          <6> QED
            BY <6>4
        <5>6. a <= LastOf(T, j, b)
          BY <1>8, <4>1, <5>1, <5>2
        <5> QED
          BY <5>1, <5>2, <5>3, <5>4, <5>5, <5>6
      <4>4. CASE a # t
        <5>1. \/ a <= LastOf(T, j, b) /\ a # LastOf(S, i, t)
              \/ LastOf(T, j, b) = LastOf(S, i, t)
          <6>1. CASE i = 1
            <7>1. LastOf(S, i, t) = t /\ LastOf(T, j, b) = r
              BY <1>20, <3>1, <6>1 DEF LastOf
            <7> QED
              BY <1>5, <1>8, <3>4, <4>1, <4>2, <4>4, <7>1
          <6>2. CASE i # 1
            BY <1>20, <3>1, <6>2
          <6> QED
            BY <6>1, <6>2
        <5>2. a <= LastOf(T, j, b) /\ (a # LastOf(T, j, b) => a # LastOf(S, i, t))
          BY <4>2, <5>1
        <5>3. ASSUME a # LastOf(T, j, b)
              PROVE  /\ D[a].size >= MinChunk
                     /\ a + D[a].size \in InHeap(D) /\ Holds(T[j], a + D[a].size)
                     /\ Tells(D, a, a + D[a].size, h.state)
          <6>1. /\ C[a].size >= MinChunk
                /\ a + C[a].size \in InHeap(C) /\ Holds(S[i], a + C[a].size)
                /\ Tells(C, a, a + C[a].size, h.state)
            BY <1>2, <3>2, <4>1, <5>2, <5>3 DEF Linked
          <6> DEFINE e == a + C[a].size
          <6>2. e \in DOMAIN C /\ e \in InHeap(C) /\ Holds(S[i], e) /\ Tells(C, a, e, h.state)
            BY <6>1 DEF InHeap
          <6>3. a + D[a].size = e /\ D[a].size >= MinChunk
            BY <4>1, <6>1
          <6> HIDE DEF e
          <6>4. D[e].foot = C[e].foot /\ (D[e].pin <=> C[e].pin) /\ (e # t => D[e] = C[e])
            BY <1>12, <6>2
          <6>5. /\ D[e].pin \in BOOLEAN /\ D[a].cin \in BOOLEAN /\ C[e].pin \in BOOLEAN
            BY <1>2, <1>7, <4>1, <6>2, ChunkFields
          <6>6. e = t => C[a].cin
            BY <1>5, <6>2 DEF Tells
          <6>7. Tells(D, a, e, h.state)
            BY <4>1, <6>2, <6>4, <6>5, <6>6 DEF Tells
          <6> QED
            BY <1>9, <1>13, <3>1, <6>2, <6>3, <6>7
        <5>4. ASSUME a # T[j].base PROVE \E c \in InHeap(D) : c + D[c].size = a /\ Holds(T[j], c)
          <6>1. a # S[i].base
            BY <1>6, <3>1, <5>4
          <6>2. PICK c \in InHeap(C) : c + C[c].size = a /\ Holds(S[i], c)
            BY <1>2, <3>2, <4>1, <6>1 DEF Linked
          <6>3. c \in DOMAIN C /\ c # t
            <7>1. c \in DOMAIN C
              BY DEF InHeap
            <7>2. ASSUME c = t PROVE FALSE
              <8>1. i = 1
                BY <1>2, <1>5, <6>2, <7>2, OneSegment
              <8>2. a <= t
                BY <4>2, <8>1 DEF LastOf
              <8> QED
                BY <1>5, <4>1, <6>2, <7>2, <8>2
            <7> QED
              BY <7>1, <7>2
          <6>4. c \in InHeap(D) /\ c + D[c].size = a /\ Holds(T[j], c)
            BY <1>9, <1>12, <1>13, <3>1, <6>2, <6>3
          <6> QED
            BY <6>4
        <5> QED
          BY <5>2, <5>3, <5>4
      <4> QED
        BY <4>3, <4>4
    <3> QED
      BY <3>3, <3>4
  <2> QED
    BY <2>1, <2>2
<1>22. Owned(D, T, h.state, L)
  <2>1. Owned(C, S, h.state, L)
    BY <1>1
  <2>2. h.state \in DOMAIN C /\ C[h.state].cin
    BY <1>2 DEF Ends, InHeap
  <2>3. {a \in DOMAIN D : D[a].cin \/ ~D[a].pin} = {a \in DOMAIN C : C[a].cin \/ ~C[a].pin} \cup {r}
    BY <1>5, <1>7, <1>8, <1>10, <1>12
  <2>4. L \cup {h.state} \cup Records_(T) = {a \in DOMAIN D : D[a].cin \/ ~D[a].pin}
    BY <1>15, <2>1, <2>3 DEF Owned
  <2>5. r \notin L
    <3>1. L \subseteq DOMAIN C
      BY Inside DEF C
    <3> QED
      BY <1>5, <1>8, <3>1
  <2>6. h.state \notin L /\ L \cap Records_(T) = {}
    BY <1>15, <2>1, <2>5 DEF Owned
  <2> QED
    BY <2>4, <2>6 DEF Owned
<1>23. Placed(D, h.small, h.tree, h.dv, b, U \cup ({t} \ {r})) /\ Sizes(D, h.dv, h.dvsize, b, g.topsize)
  <2>1. Placed(C, h.small, h.tree, h.dv, t, U) /\ Sizes(C, h.dv, h.dvsize, t, n)
    BY <1>1
  <2>2. Binned_(h.small, h.tree) \subseteq Idle_(C) /\ t \notin Binned_(h.small, h.tree) /\ t # h.dv
        /\ Idle_(C) = {t} \cup Binned_(h.small, h.tree) \cup ({h.dv} \ {0}) \cup U
    BY <2>1 DEF Placed
  <2>3. Idle_(C) \subseteq DOMAIN C
    BY DEF Idle_
  <2>4. \A a \in Idle_(C) : a # t => D[a].size = C[a].size
    BY <1>12, <2>3
  <2>5. \A x \in SmallSizes : \A a \in Range(h.small[x]) : D[a].size = x
    <3>1. \A x \in SmallSizes : \A a \in Range(h.small[x]) : a \in Idle_(C) /\ a # t
      BY <2>2, BinnedHas
    <3> QED
      BY <2>1, <2>4, <3>1 DEF Placed
  <2>6. \A a \in h.tree : D[a].size >= SmallLimit
    <3>1. \A a \in h.tree : a \in Idle_(C) /\ a # t
      BY <2>2, BinnedHas
    <3> QED
      BY <2>1, <2>4, <3>1 DEF Placed
  <2>7. Sizes(D, h.dv, h.dvsize, b, g.topsize)
    <3>1. h.dv # 0 => D[h.dv].size = C[h.dv].size
      BY <2>2, <2>4
    <3> QED
      BY <1>7, <2>1, <3>1 DEF Sizes
  <2>8. b \notin Binned_(h.small, h.tree) \cup U \cup {t} /\ b # h.dv
    BY <1>4, <1>10, <2>2, <2>3
  <2>9. r = t \/ r \notin Idle_(C)
    BY <1>8, <2>3
  <2>10. Idle_(D) = {b} \cup Binned_(h.small, h.tree) \cup ({h.dv} \ {0}) \cup (U \cup ({t} \ {r}))
    <3>1. Idle_(D) = (Idle_(C) \ {r}) \cup {b}
      BY <1>13
    <3>2. t \notin U /\ t \notin Binned_(h.small, h.tree)
      BY <1>5, <2>2
    <3> QED
      BY <2>2, <2>9, <3>1, <3>2
  <2>11. /\ {b, h.dv} \cap (Binned_(h.small, h.tree) \cup (U \cup ({t} \ {r}))) = {}
         /\ (U \cup ({t} \ {r})) \cap Binned_(h.small, h.tree) = {}
    BY <2>1, <2>2, <2>8 DEF Placed
  <2> QED
    BY <2>1, <2>5, <2>6, <2>7, <2>8, <2>10, <2>11 DEF Placed
<1>24. Settings(g)
  <2>0. h.least \in Nat /\ (\A a \in DOMAIN C : a >= h.least) /\ (\A i \in DOMAIN S : S[i].base >= h.least)
    BY <1>1 DEF Settings, C, S
  <2>1. \A j \in DOMAIN T : T[j].base >= g.least
    <3> SUFFICES ASSUME NEW j \in DOMAIN T PROVE T[j].base >= g.least
      OBVIOUS
    <3>1. CASE j = 1
      BY <1>4, <1>6, <1>7, <3>1
    <3>2. CASE j # 1
      <4>1. PICK i \in DOMAIN S : j = i + 1
        BY <1>6, <3>2
      <4>2. T[j].base = S[i].base /\ S[i].base \in Nat /\ S[i].base >= h.least
        BY <1>6, <1>9, <2>0, <4>1
      <4> QED
        BY <1>7, <2>0, <4>2
    <3> QED
      BY <3>1, <3>2
  <2>2. \A a \in DOMAIN D : a >= g.least
    <3> SUFFICES ASSUME NEW a \in DOMAIN D PROVE a >= g.least
      OBVIOUS
    <3>1. CASE a = b
      BY <1>4, <1>7, <3>1
    <3>2. CASE a # b
      <4>1. PICK c \in DOMAIN C : c <= a
        <5>1. CASE a = r
          BY <1>5, <1>8, <5>1
        <5>2. CASE a # r
          <6>1. a \in DOMAIN C /\ a \in Nat
            BY <1>2, <1>7, <3>2, <5>2, ChunkFields
          <6> QED
            BY <6>1
        <5> QED
          BY <5>1, <5>2
      <4>2. c \in Nat /\ c >= h.least /\ a \in Nat
        <5>1. a \in Nat
          BY <1>2, <1>7, <1>8, <3>2, ChunkFields
        <5> QED
          BY <1>2, <2>0, <5>1, ChunkFields
      <4> QED
        BY <1>7, <2>0, <4>1, <4>2
    <3> QED
      BY <3>1, <3>2
  <2> QED
    BY <1>1, <1>3, <1>7, <2>1, <2>2 DEF Settings, T, D
<1>25. Shape(D, T, b, h.state)
  BY <1>6, <1>7, <1>16, <1>17, <1>18, <1>19, <1>21 DEF Shape
<1>26. Sound(g, L, U \cup ({h.top} \ {r}))
  BY <1>3, <1>7, <1>22, <1>23, <1>24, <1>25 DEF Sound, D, T, t
<1>27. Spares(h, g, L)
  <2>1. L \subseteq DOMAIN C
    BY Inside DEF C
  <2>2. \A a \in L : a \in DOMAIN C /\ a # t
    BY <1>5, <2>1
  <2> QED
    BY <1>7, <1>12, <2>2 DEF Spares, C, D
<1> QED
  BY <1>5, <1>12, <1>26, <1>27 DEF t, D, C, n

\* Link puts the new segment in front.
LEMMA LinkOf ==
  ASSUME NEW S, Segments(S), NEW b, b \in Nat \ {0}, NEW s, s \in Nat \ {0}, NEW r, r \in Nat,
         NEW home, home \in Nat, \A i \in DOMAIN S : End(S[i]) <= b \/ b + s <= S[i].base,
         NEW T, T = Link(S, [base |-> b, size |-> s, external |-> FALSE, rec |-> 0], r, home)
  PROVE  Pushed(S, T, b, s, r)
<1> DEFINE new == [base |-> b, size |-> s, external |-> FALSE, rec |-> 0]
           x == [new EXCEPT !.rec = home]
           y == [S[1] EXCEPT !.rec = r]
<1>1. S \in Seq(Segment) /\ Len(S) \in Nat /\ Len(S) >= 1 /\ DOMAIN S = 1 .. Len(S) /\ 1 \in DOMAIN S
      /\ S # <<>>
  <2>1. S \in Seq(Segment) /\ Len(S) >= 1
    BY DEF Segments
  <2> QED
    BY <2>1
<1>2. T = <<x, y>> \o Tail(S)
  <2>1. Head(S) = S[1]
    BY <1>1
  <2> QED
    BY <2>1 DEF Link
<1>3. S[1] \in Segment
  BY <1>1
<1>4. x \in Segment /\ x.base = b /\ x.size = s
  BY DEF Segment
<1>5. y \in Segment /\ y.base = S[1].base /\ y.size = S[1].size /\ y.rec = r
  BY <1>3 DEF Segment
<1> HIDE DEF x, y
<1>6. /\ Tail(S) \in Seq(Segment) /\ Len(Tail(S)) = Len(S) - 1
      /\ \A i \in 1 .. Len(S) - 1 : Tail(S)[i] = S[i + 1]
  BY <1>1
<1>7. <<x, y>> \in Seq(Segment) /\ Len(<<x, y>>) = 2 /\ <<x, y>>[1] = x /\ <<x, y>>[2] = y
  BY <1>4, <1>5
<1>8. /\ T \in Seq(Segment) /\ Len(T) = Len(S) + 1 /\ T[1] = x /\ T[2] = y
      /\ \A i \in 3 .. Len(T) : T[i] = Tail(S)[i - 2]
  <2> DEFINE p == <<x, y>>
             q == Tail(S)
  <2>1. p \in Seq(Segment) /\ q \in Seq(Segment) /\ Len(p) = 2 /\ p[1] = x /\ p[2] = y
        /\ Len(q) = Len(S) - 1
    BY <1>6, <1>7
  <2>2. T = p \o q
    BY <1>2
  <2> HIDE DEF p, q
  <2>9. p \in Seq(Segment) /\ q \in Seq(Segment)
    BY <2>1
  <2>3. T \in Seq(Segment) /\ Len(T) = Len(p) + Len(q)
        /\ \A i \in 1 .. Len(p) + Len(q) : T[i] = IF i <= Len(p) THEN p[i] ELSE q[i - Len(p)]
    BY ONLY <2>2, <2>9, ConcatProperties
  <2>4. Len(T) = Len(S) + 1
    BY <1>1, <2>1, <2>3
  <2>7. Len(p) + Len(q) = Len(S) + 1
    BY <1>1, <2>1
  <2>8. \A i \in 1 .. Len(S) + 1 : T[i] = IF i <= 2 THEN p[i] ELSE q[i - 2]
    BY ONLY <2>1, <2>3, <2>7
  <2>5. T[1] = x /\ T[2] = y
    <3>1. 1 \in 1 .. Len(S) + 1 /\ 2 \in 1 .. Len(S) + 1
      BY <1>1
    <3> QED
      BY ONLY <2>1, <2>8, <3>1
  <2>6. \A i \in 3 .. Len(T) : T[i] = q[i - 2]
    <3> TAKE i \in 3 .. Len(T)
    <3>1. i \in 1 .. Len(S) + 1 /\ ~(i <= 2)
      BY <1>1, <2>4
    <3> QED
      BY <2>8, <3>1
  <2> QED
    BY <2>3, <2>4, <2>5, <2>6 DEF q
<1>9. DOMAIN T = 1 .. Len(T) /\ DOMAIN T = {1} \cup {i + 1 : i \in DOMAIN S}
  <2>1. DOMAIN T = 1 .. (Len(S) + 1)
    BY <1>8
  <2>2. ASSUME NEW j \in 1 .. (Len(S) + 1) PROVE j \in {1} \cup {i + 1 : i \in DOMAIN S}
    <3>1. j # 1 => j - 1 \in DOMAIN S /\ j = (j - 1) + 1
      BY <1>1
    <3> QED
      BY <3>1
  <2>3. \A i \in DOMAIN S : i + 1 \in 1 .. (Len(S) + 1)
    BY <1>1
  <2>4. 1 \in 1 .. (Len(S) + 1)
    BY <1>1
  <2> QED
    BY <1>8, <2>1, <2>2, <2>3, <2>4
<1>10. \A i \in DOMAIN S : /\ T[i + 1].base = S[i].base /\ T[i + 1].size = S[i].size
                           /\ i # 1 => T[i + 1] = S[i]
  <2> SUFFICES ASSUME NEW i \in DOMAIN S
               PROVE  /\ T[i + 1].base = S[i].base /\ T[i + 1].size = S[i].size
                      /\ i # 1 => T[i + 1] = S[i]
    OBVIOUS
  <2>1. CASE i = 1
    BY <1>5, <1>8, <2>1
  <2>2. CASE i # 1
    <3>1. i + 1 \in 3 .. Len(T) /\ (i + 1) - 2 = i - 1 /\ i - 1 \in 1 .. Len(S) - 1 /\ (i - 1) + 1 = i
      BY <1>1, <1>8, <2>2
    <3>2. T[i + 1] = Tail(S)[i - 1]
      BY <1>8, <3>1
    <3>3. Tail(S)[i - 1] = S[i]
      BY <1>6, <3>1
    <3> QED
      BY <3>2, <3>3
  <2> QED
    BY <2>1, <2>2
<1>11. \A i \in DOMAIN S : S[i].base \in Nat /\ End(S[i]) = End(T[i + 1])
  <2>1. \A i \in DOMAIN S : S[i].base \in Nat
    BY SegmentFields
  <2> QED
    BY <1>10, <2>1 DEF End
<1>12. Segments(T)
  <2>1. \A j, k \in DOMAIN T : j # k => End(T[j]) <= T[k].base \/ End(T[k]) <= T[j].base
    <3> SUFFICES ASSUME NEW j \in DOMAIN T, NEW k \in DOMAIN T, j # k
                 PROVE  End(T[j]) <= T[k].base \/ End(T[k]) <= T[j].base
      OBVIOUS
    <3>0. End(T[1]) = b + s /\ T[1].base = b
      BY <1>4, <1>8 DEF End
    <3>1. CASE j = 1
      <4>1. PICK i \in DOMAIN S : k = i + 1
        BY <1>9, <3>1
      <4> QED
        BY <1>10, <1>11, <3>0, <3>1, <4>1
    <3>2. CASE k = 1
      <4>1. PICK i \in DOMAIN S : j = i + 1
        BY <1>9, <3>2
      <4> QED
        BY <1>10, <1>11, <3>0, <3>2, <4>1
    <3>3. CASE j # 1 /\ k # 1
      <4>1. PICK i \in DOMAIN S : j = i + 1
        BY <1>9, <3>3
      <4>2. PICK m \in DOMAIN S : k = m + 1
        BY <1>9, <3>3
      <4>3. i # m
        BY <4>1, <4>2
      <4>4. End(S[i]) <= S[m].base \/ End(S[m]) <= S[i].base
        BY <4>3 DEF Segments
      <4> QED
        BY <1>10, <1>11, <4>1, <4>2, <4>4
    <3> QED
      BY <3>1, <3>2, <3>3
  <2>2. Len(T) >= 1
    BY <1>1, <1>8
  <2> QED
    BY <1>8, <2>1, <2>2 DEF Segments
<1> QED
  BY <1>4, <1>5, <1>8, <1>9, <1>10, <1>12 DEF Pushed

\* The space AddSegment has made before it bins what is left of the old top.
Linked_(low, b, s, r) ==
  [SetInUsePart(InitTop(low, b, s - TopFoot), r, SegmentChunk)
     EXCEPT !.segs = Link(@, [base |-> b, size |-> s, external |-> FALSE, rec |-> 0], r, low.state)]

Added(low, b, s, r) ==
  IF r = low.top THEN Linked_(low, b, s, r)
  ELSE SetFreeBefore(Linked_(low, b, s, r), low.top, r - low.top, r)

\* r is where the old first segment keeps its record.
RecordAt(h, r) ==
  r = IF End(h.segs[1]) - TopFoot < h.top + MinChunk THEN h.top ELSE End(h.segs[1]) - TopFoot

\* The region, the record and the old top do not meet.
LEMMA RecordPlace ==
  ASSUME NEW h, NEW L, Sound(h, L, {}), NEW b, NEW s, Whole(b), Whole(s),
         GranulesOf(b, s) \cap h.backed = {}, NEW r, RecordAt(h, r)
  PROVE  /\ b \in Nat \ {0} /\ s \in Nat \ {0} /\ s > TopFoot
         /\ r \in Nat \ {0} /\ h.top <= r /\ r + SegmentChunk < End(h.segs[1])
         /\ b + s <= h.top \/ b >= End(h.segs[1])
         /\ \A a \in DOMAIN h.chunk : a < b \/ a >= b + s
         /\ r # h.top => r \notin DOMAIN h.chunk /\ r = h.top + h.topsize /\ h.topsize >= MinChunk
         /\ r = h.top => r + TopFoot <= End(h.segs[1])
<1>1. /\ h.top \in Nat \ {0} /\ h.topsize \in Nat \ {0} /\ 1 \in DOMAIN h.segs /\ Holds(h.segs[1], h.top)
      /\ h.top + h.topsize = End(h.segs[1]) - TopFoot /\ End(h.segs[1]) \in Nat
      /\ \A a \in DOMAIN h.chunk : a <= h.top \/ a >= End(h.segs[1])
  BY TopFields
<1>2. TopFoot \in Nat /\ SegmentChunk \in Nat /\ MinChunk = 2 /\ TopFoot = SegmentChunk + 2
      /\ Granule > TopFoot /\ Granule \in Nat \ {0}
  BY Numbers
<1>3. b \in Nat \ {0} /\ s \in Nat \ {0} /\ s > TopFoot
  <2>1. \E k \in Nat \ {0} : s = k * Granule
    BY DEF Whole
  <2>2. PICK k \in Nat \ {0} : s = k * Granule
    BY <2>1
  <2>3. s >= Granule
    <3>1. 1 * Granule <= k * Granule
      BY <1>2, Products
    <3> QED
      BY <1>2, <2>2, <3>1
  <2>4. b \in Nat \ {0} /\ s \in Nat \ {0}
    BY WholeSum
  <2> QED
    BY <1>2, <2>3, <2>4
<1>4. \A a \in DOMAIN h.chunk : a < b \/ a >= b + s
  <2> TAKE a \in DOMAIN h.chunk
  <2>1. a + h.chunk[a].size < b \/ b + s <= a
    BY FreshRegion
  <2>2. Heads(h.chunk)
    BY Inside
  <2>3. a \in Nat /\ h.chunk[a].size \in Nat
    BY <2>2, ChunkFields
  <2> QED
    BY <1>3, <2>1, <2>3
<1>5. b + s <= h.top \/ b >= End(h.segs[1])
  <2>1. End(h.segs[1]) <= b \/ b + s <= h.segs[1].base
    BY <1>1, FreshRegion
  <2>2. h.segs[1].base <= h.top /\ h.segs[1].base \in Nat
    <3>1. Segments(h.segs)
      BY Inside
    <3>2. h.segs[1].base \in Nat
      BY <1>1, <3>1, SegmentFields
    <3> QED
      BY <1>1, <3>2 DEF Holds
  <2> QED
    BY <1>1, <1>3, <2>1, <2>2
<1>6. /\ r \in Nat \ {0} /\ h.top <= r /\ r + SegmentChunk < End(h.segs[1])
      /\ r # h.top => r = h.top + h.topsize /\ h.topsize >= MinChunk
      /\ r = h.top => r + TopFoot <= End(h.segs[1])
  BY <1>1, <1>2 DEF RecordAt
<1>7. r # h.top => r \notin DOMAIN h.chunk
  BY <1>1, <1>2, <1>6
<1> QED
  BY <1>3, <1>4, <1>5, <1>6, <1>7

\* What is written over memory no other chunk is in.
LEMMA WrittenClear ==
  ASSUME NEW C, NEW D, NEW a, NEW n, Overwrites(C, D, a, n), Heads(C), a \in Nat, n \in Nat \ {0},
         \A x \in DOMAIN C : x = a \/ x < a \/ x > a + n
  PROVE  /\ DOMAIN D = DOMAIN C \cup {a} /\ D[a].size = n
         /\ \A x \in DOMAIN C : x # a => D[x] = C[x]
         /\ D[a].foot = IF a \in DOMAIN C THEN C[a].foot ELSE Stamp
<1>0. \A x \in DOMAIN C : x \in Nat
  BY DEF Heads
<1>1. DOMAIN D = DOMAIN C \cup {a}
  <2>1. \A x \in DOMAIN C : x # a => x < a \/ x >= a + n
    BY <1>0
  <2> QED
    BY <2>1 DEF Overwrites
<1>2. \A x \in DOMAIN C : x # a => x # a + n
  BY <1>0
<1> QED
  BY <1>1, <1>2 DEF Overwrites

\* What is written there before the old top is made a free chunk.
LEMMA LinkedOf ==
  ASSUME NEW h, NEW L, Sound(h, L, {}), NEW b, NEW s, Whole(b), Whole(s),
         GranulesOf(b, s) \cap h.backed = {}, NEW r, RecordAt(h, r), NEW low, Lower(h, low, b, s),
         NEW x, x = Linked_(low, b, s, r)
  PROVE  /\ SameBut(x, low, {"chunk", "segs", "top", "topsize", "trimcheck"})
         /\ x.top = b /\ x.topsize = s - TopFoot /\ x.trimcheck = TrimThreshold
         /\ Pushed(h.segs, x.segs, b, s, r)
         /\ Heads(x.chunk) /\ DOMAIN x.chunk = DOMAIN h.chunk \cup {b, r}
         /\ \A a \in DOMAIN h.chunk : a # r => x.chunk[a] = h.chunk[a]
         /\ x.chunk[b].size = s - TopFoot /\ ~x.chunk[b].cin /\ x.chunk[b].pin
         /\ x.chunk[r].size = SegmentChunk /\ x.chunk[r].cin /\ x.chunk[r].pin
         /\ r \in DOMAIN h.chunk => x.chunk[r].foot = h.chunk[r].foot
<1> DEFINE C == h.chunk
           t == h.top
           n == s - TopFoot
           y == InitTop(low, b, n)
           z == SetInUsePart(y, r, SegmentChunk)
           T == Link(low.segs, [base |-> b, size |-> s, external |-> FALSE, rec |-> 0], r, low.state)
<1>1. /\ IsHeap(h) /\ Heads(C) /\ Segments(h.segs) /\ DOMAIN C \subseteq Nat \ {0}
      /\ IsHeap(low) /\ low.segs = h.segs /\ low.chunk = C /\ low.state = h.state
  BY Inside DEF SameBut, HeapFields, Lower
<1>2. /\ b \in Nat \ {0} /\ s \in Nat \ {0} /\ s > TopFoot
      /\ r \in Nat \ {0} /\ t <= r /\ r + SegmentChunk < End(h.segs[1])
      /\ b + s <= t \/ b >= End(h.segs[1])
      /\ \A a \in DOMAIN C : a < b \/ a >= b + s
      /\ r # t => r \notin DOMAIN C
  BY RecordPlace
<1>3. /\ t \in Nat \ {0} /\ End(h.segs[1]) \in Nat /\ t \in DOMAIN C
      /\ \A a \in DOMAIN C : a <= t \/ a >= End(h.segs[1])
  BY TopFields
<1>4. /\ n \in Nat \ {0} /\ n < s /\ TopFoot \in Nat /\ SegmentChunk \in Nat \ {0}
      /\ TrimThreshold \in Nat
  BY <1>2, Numbers
<1>5. /\ SameBut(y, low, {"chunk", "top", "topsize", "trimcheck"})
      /\ y.top = b /\ y.topsize = n /\ y.trimcheck = TrimThreshold
      /\ Heads(y.chunk) /\ Overwrites(C, y.chunk, b, n)
      /\ ~y.chunk[b].cin /\ y.chunk[b].pin /\ y.chunk[b].size = n
  <2>1. Heads(low.chunk) /\ n \in Nat \ {0} /\ b \in Nat \ {0} /\ y = InitTop(low, b, n)
    BY <1>1, <1>2, <1>4
  <2> HIDE DEF n, y
  <2>2. /\ SameBut(y, low, {"chunk", "top", "topsize", "trimcheck"})
        /\ y.top = b /\ y.topsize = n /\ y.trimcheck = TrimThreshold
        /\ Heads(y.chunk) /\ Overwrites(low.chunk, y.chunk, b, n)
        /\ ~y.chunk[b].cin /\ y.chunk[b].pin /\ y.chunk[b].size = n
    BY <1>1, <2>1, InitTopOf
  <2> QED
    BY <1>1, <2>2
<1> HIDE DEF C, t, y
<1>6. /\ DOMAIN y.chunk = DOMAIN C \cup {b} /\ b \notin DOMAIN C
      /\ \A a \in DOMAIN C : y.chunk[a] = C[a]
  <2>0. \A a \in DOMAIN C : a \in Nat
    BY <1>1
  <2>1. \A a \in DOMAIN C : a = b \/ a < b \/ a > b + n
    BY <1>2, <1>4, <2>0
  <2>2. b \notin DOMAIN C
    BY <1>2
  <2>3. n \in Nat \ {0} /\ b \in Nat /\ Overwrites(C, y.chunk, b, n) /\ Heads(C)
    BY <1>1, <1>2, <1>4, <1>5
  <2> HIDE DEF n
  <2>4. /\ DOMAIN y.chunk = DOMAIN C \cup {b} /\ \A a \in DOMAIN C : a # b => y.chunk[a] = C[a]
    BY <2>1, <2>3, WrittenClear, ZenonT(30)
  <2> QED
    BY <2>2, <2>4
<1>7. /\ SameBut(z, y, {"chunk"}) /\ IsHeap(z) /\ Heads(z.chunk)
      /\ Overwrites(y.chunk, z.chunk, r, SegmentChunk) /\ z.chunk[r].cin /\ z.chunk[r].pin
  <2>1. IsHeap(y) /\ Heads(y.chunk) /\ r \in Nat \ {0} /\ SegmentChunk \in Nat \ {0}
    BY <1>2, <1>4, <1>5 DEF SameBut
  <2> DEFINE Z == z.chunk
             e == r + SegmentChunk
  <2>2. /\ SameBut(z, y, {"chunk"}) /\ IsHeap(z) /\ Heads(Z)
        /\ Overwrites(y.chunk, Z, r, SegmentChunk) /\ Z[r].cin /\ Z[r].pin
    BY <2>1, UsePartOf
  <2> QED
    BY <2>2
<1> HIDE DEF z
<1>8. /\ DOMAIN z.chunk = DOMAIN C \cup {b, r} /\ z.chunk[r].size = SegmentChunk
      /\ z.chunk[b] = y.chunk[b] /\ \A a \in DOMAIN C : a # r => z.chunk[a] = C[a]
      /\ r \in DOMAIN C => z.chunk[r].foot = C[r].foot
  <2>0. \A a \in DOMAIN C : a \in Nat
    BY <1>1
  <2>1. \A a \in DOMAIN y.chunk : a = r \/ a < r \/ a > r + SegmentChunk
    <3> SUFFICES ASSUME NEW a \in DOMAIN y.chunk PROVE a = r \/ a < r \/ a > r + SegmentChunk
      OBVIOUS
    <3>1. CASE a = b
      BY <1>2, <1>3, <1>4, <3>1
    <3>2. CASE a # b
      <4>1. a \in Nat /\ (a <= t \/ a >= End(h.segs[1]))
        BY <1>3, <1>6, <2>0, <3>2
      <4> QED
        BY <1>2, <1>3, <1>4, <4>1
    <3> QED
      BY <3>1, <3>2
  <2>2. b # r
    BY <1>2, <1>3, <1>4
  <2>3. r \in Nat /\ SegmentChunk \in Nat \ {0}
    BY <1>2, <1>4
  <2>4. /\ DOMAIN z.chunk = DOMAIN y.chunk \cup {r} /\ z.chunk[r].size = SegmentChunk
        /\ \A a \in DOMAIN y.chunk : a # r => z.chunk[a] = y.chunk[a]
        /\ z.chunk[r].foot = IF r \in DOMAIN y.chunk THEN y.chunk[r].foot ELSE Stamp
    BY <1>5, <1>7, <2>1, <2>3, WrittenClear
  <2> QED
    BY <1>6, <2>2, <2>4
<1>9. Pushed(h.segs, T, b, s, r)
  <2>1. \A i \in DOMAIN h.segs : End(h.segs[i]) <= b \/ b + s <= h.segs[i].base
    BY FreshRegion
  <2>2. h.state \in Nat
    <3>1. h.state \in DOMAIN h.chunk
      BY DEF Sound, Shape, Ends, InHeap
    <3> QED
      BY <1>1, <3>1 DEF C
  <2>3. T = Link(h.segs, [base |-> b, size |-> s, external |-> FALSE, rec |-> 0], r, h.state)
    BY <1>1
  <2> HIDE DEF T
  <2> QED
    BY <1>1, <1>2, <2>1, <2>2, <2>3, LinkOf
<1>10. x = [z EXCEPT !.segs = T]
  <2>1. z.segs = low.segs
    BY <1>5, <1>7 DEF SameBut, HeapFields
  <2> QED
    BY <2>1 DEF Linked_, z, y
<1> HIDE DEF T, n
<1>11. SameBut(x, z, {"segs"}) /\ x.segs = T
  BY <1>7, <1>10 DEF SameBut, IsHeap, HeapFields
<1>12. /\ SameBut(x, low, {"chunk", "segs", "top", "topsize", "trimcheck"})
       /\ x.top = b /\ x.topsize = n /\ x.trimcheck = TrimThreshold /\ x.chunk = z.chunk
  BY <1>5, <1>7, <1>11 DEF SameBut, HeapFields
<1> QED
  BY <1>5, <1>7, <1>8, <1>9, <1>11, <1>12 DEF C, n

\* The old top, a free chunk again before the record.
LEMMA AddedOf ==
  ASSUME NEW h, NEW L, Sound(h, L, {}), NEW b, NEW s, Whole(b), Whole(s),
         GranulesOf(b, s) \subseteq Space \ h.backed, NEW r, RecordAt(h, r),
         NEW low, Lower(h, low, b, s), NEW g, g = Added(low, b, s, r)
  PROVE  SegmentAdded(h, g, b, s, r) /\ g.backed = low.backed /\ g.footprint = low.footprint
<1> DEFINE C == h.chunk
           t == h.top
           x == Linked_(low, b, s, r)
           D == g.chunk
<1>0. GranulesOf(b, s) \cap h.backed = {}
  OBVIOUS
<1>1. /\ IsHeap(h) /\ Heads(C) /\ Segments(h.segs) /\ IsHeap(low) /\ low.top = t /\ low.state = h.state
      /\ DOMAIN C \subseteq Nat \ {0}
  BY Inside DEF SameBut, HeapFields, Lower
<1>2. /\ b \in Nat \ {0} /\ s \in Nat \ {0} /\ s > TopFoot
      /\ r \in Nat \ {0} /\ t <= r /\ r + SegmentChunk < End(h.segs[1])
      /\ b + s <= t \/ b >= End(h.segs[1])
      /\ \A a \in DOMAIN C : a < b \/ a >= b + s
      /\ r # t => r \notin DOMAIN C /\ r = t + h.topsize /\ h.topsize >= MinChunk
      /\ r = t => r + TopFoot <= End(h.segs[1])
  BY <1>0, RecordPlace
<1>3. /\ t \in Nat \ {0} /\ End(h.segs[1]) \in Nat /\ t \in DOMAIN C /\ C[t].size = h.topsize
      /\ ~C[t].cin /\ C[t].pin /\ h.topsize \in Nat \ {0} /\ t \in InHeap(C)
      /\ \A a \in DOMAIN C : a <= t \/ a >= End(h.segs[1])
  BY TopFields
<1>4. /\ SameBut(x, low, {"chunk", "segs", "top", "topsize", "trimcheck"})
      /\ x.top = b /\ x.topsize = s - TopFoot /\ x.trimcheck = TrimThreshold
      /\ Pushed(h.segs, x.segs, b, s, r)
      /\ Heads(x.chunk) /\ DOMAIN x.chunk = DOMAIN C \cup {b, r}
      /\ \A a \in DOMAIN C : a # r => x.chunk[a] = C[a]
      /\ x.chunk[b].size = s - TopFoot /\ ~x.chunk[b].cin /\ x.chunk[b].pin
      /\ x.chunk[r].size = SegmentChunk /\ x.chunk[r].cin /\ x.chunk[r].pin
      /\ r \in DOMAIN C => x.chunk[r].foot = C[r].foot
  BY <1>0, LinkedOf
<1>5. /\ b # r /\ b # t /\ b \notin DOMAIN C /\ SegmentChunk \in Nat \ {0} /\ TopFoot \in Nat
  <2>1. SegmentChunk \in Nat \ {0} /\ TopFoot \in Nat
    BY Numbers
  <2> QED
    BY <1>2, <1>3, <2>1
<1> HIDE DEF x, C, t
<1>6. /\ SameBut(g, x, {"chunk"}) /\ Heads(D) /\ DOMAIN D = DOMAIN C \cup {b, r}
      /\ \A a \in DOMAIN C : a # r => D[a] = C[a]
      /\ D[b] = x.chunk[b] /\ D[r].size = SegmentChunk /\ D[r].cin
      /\ r = t => D[r].pin /\ D[r].foot = C[r].foot
      /\ r # t => ~D[r].pin /\ D[r].foot = h.topsize
  <2>1. CASE r = t
    <3>1. g = x
      BY <1>1, <2>1 DEF Added, x
    <3>2. SameBut(g, x, {"chunk"})
      BY <1>4, <3>1 DEF SameBut
    <3> QED
      BY <1>3, <1>4, <2>1, <3>1, <3>2
  <2>2. CASE r # t
    <3> DEFINE n == r - t
    <3>1. g = SetFreeBefore(x, t, n, r) /\ n = h.topsize /\ n \in Nat \ {0} /\ r = t + n
      BY <1>1, <1>2, <1>3, <2>2 DEF Added, x
    <3> HIDE DEF n
    <3>2. IsHeap(x) /\ Heads(x.chunk) /\ r \in DOMAIN x.chunk
      BY <1>4 DEF SameBut
    <3>3. /\ SameBut(g, x, {"chunk"}) /\ IsHeap(g) /\ Heads(D)
          /\ Overwrites(x.chunk, D, t, n) /\ ~D[t].cin /\ D[t].pin
          /\ ~D[r].pin /\ D[r].foot = n
      <4> HIDE DEF D
      <4>1. D = SetFreeBefore(x, t, n, r).chunk
        BY <3>1 DEF D
      <4>2. /\ SameBut(SetFreeBefore(x, t, n, r), x, {"chunk"}) /\ IsHeap(SetFreeBefore(x, t, n, r))
            /\ Heads(D) /\ Overwrites(x.chunk, D, t, n) /\ ~D[t].cin /\ D[t].pin
            /\ r \in DOMAIN x.chunk => ~D[r].pin /\ D[r].foot = n
        BY <1>3, <3>1, <3>2, <4>1, FreeBeforeOf, SMTT(30)
      <4> QED
        BY <3>1, <3>2, <4>2
    <3> HIDE DEF D
    <3>4. \A a \in DOMAIN x.chunk : a = t \/ a < t \/ a >= r
      <4>1. \A a \in DOMAIN C : a \in Nat /\ (a = t \/ a < t \/ a >= r)
        BY <1>1, <1>2, <1>3, <1>5 DEF C
      <4>2. b < t \/ b >= r
        BY <1>2, <1>3, <1>5
      <4> QED
        BY <1>2, <1>4, <4>1, <4>2
    <3>5. DOMAIN D = DOMAIN C \cup {b, r}
      <4>1. DOMAIN D = {a \in DOMAIN x.chunk : a < t \/ a >= r} \cup {t}
        BY <3>1, <3>3 DEF Overwrites
      <4> QED
        BY <1>3, <1>4, <3>4, <4>1
    <3>6. /\ \A a \in DOMAIN D : a # t /\ a # r => D[a] = x.chunk[a]
          /\ D[t].size = n /\ D[r].size = x.chunk[r].size /\ D[r].cin = x.chunk[r].cin
          /\ D[t].foot = IF t \in DOMAIN x.chunk THEN x.chunk[t].foot ELSE Stamp
      BY <3>1, <3>2, <3>3 DEF Overwrites
    <3>7. D[t] = C[t]
      <4>1. D[t].size = C[t].size /\ D[t].foot = C[t].foot
        BY <1>3, <1>4, <2>2, <3>1, <3>6
      <4>2. D[t] \in Header /\ C[t] \in Header
        BY <1>1, <1>3, <3>3, <3>5 DEF Heads
      <4>3. D[t].cin = C[t].cin /\ D[t].pin = C[t].pin
        BY <1>3, <3>3, <4>2 DEF Header
      <4> QED
        BY <4>1, <4>2, <4>3 DEF Header
    <3>8. \A a \in DOMAIN C : a # r => D[a] = C[a]
      BY <1>4, <3>5, <3>6, <3>7
    <3>9. D[b] = x.chunk[b]
      BY <1>5, <3>5, <3>6
    <3> QED
      BY <1>4, <2>2, <3>1, <3>3, <3>5, <3>6, <3>8, <3>9
  <2> QED
    BY <2>1, <2>2
<1> HIDE DEF D
<1>7. /\ SameBut(g, h, {"chunk", "segs", "top", "topsize", "backed", "footprint", "least", "trimcheck"})
      /\ g.top = b /\ g.topsize = s - TopFoot /\ g.trimcheck = TrimThreshold /\ g.segs = x.segs
      /\ g.backed = h.backed \cup GranulesOf(b, s) /\ g.footprint = h.footprint + s
      /\ g.least = IF b < h.least THEN b ELSE h.least
  BY <1>4, <1>6 DEF SameBut, HeapFields, Lower
<1>8. /\ D[b].size = g.topsize /\ ~D[b].cin /\ D[b].pin /\ g.topsize \in Nat \ {0} /\ g.topsize + TopFoot = s
  BY <1>2, <1>4, <1>5, <1>6, <1>7
<1>9. Lent(D, g.segs, g.backed, g.footprint)
  <2>1. Lent(C, h.segs, h.backed, h.footprint)
    BY DEF Sound, C
  <2>2. h.footprint = Granule * Cardinality(h.backed) /\ h.backed \subseteq Space
    BY <2>1 DEF Lent
  <2>3. Counted(g.backed, g.footprint)
    <3>1. Granule * Cardinality(h.backed) + s = Granule * Cardinality(h.backed \cup GranulesOf(b, s))
      BY <2>2, MoreBacked
    <3>2. g.backed \subseteq Space
      BY <1>7, <2>2
    <3> QED
      BY <1>7, <2>2, <3>1, <3>2 DEF Counted
  <2>4. Maps(D) = Maps(C) /\ \A a \in Maps(C) : D[a] = C[a]
    <3>1. \A a \in Maps(C) : a \in DOMAIN C /\ a # r
      BY <1>2, <1>3 DEF Maps
    <3>2. b \notin Maps(D) /\ r \notin Maps(D)
      BY <1>6, <1>8 DEF Maps
    <3> QED
      BY <1>6, <3>1, <3>2 DEF Maps
  <2>5. Pushed(h.segs, g.segs, b, s, r)
    BY <1>4, <1>7
  <2> DEFINE R == GranulesOf(b, s)
  <2>6. R = GranulesOf(b, s) /\ h.backed \subseteq g.backed /\ R \subseteq g.backed /\ R \cap h.backed = {}
    BY <1>7
  <2> HIDE DEF R
  <2> QED
    BY <1>1, <2>1, <2>3, <2>4, <2>5, <2>6, LentAdded
<1>10. /\ g.least \in Nat /\ g.least <= h.least /\ g.least <= b /\ g.trimcheck \in Nat
  <2>1. h.least \in Nat
    BY DEF Sound, Settings
  <2>2. TrimThreshold \in Nat
    BY Numbers
  <2> QED
    BY <1>2, <1>7, <2>1, <2>2
<1>11. \/ /\ r = t /\ D[r].pin /\ D[r].foot = C[r].foot /\ r + TopFoot <= End(h.segs[1])
       \/ /\ r = t + h.topsize /\ h.topsize >= MinChunk /\ ~D[r].pin /\ D[r].foot = h.topsize
  BY <1>2, <1>6
<1>12. Pushed(h.segs, g.segs, b, s, r)
  BY <1>4, <1>7
<1>13. g.backed = low.backed /\ g.footprint = low.footprint
  BY <1>7 DEF Lower
<1> QED
  BY <1>6, <1>7, <1>8, <1>9, <1>10, <1>11, <1>12, <1>13 DEF SegmentAdded, C, D, t

\* sm_add_segment: the region becomes the segment of the top.
LEMMA AddSegmentSound ==
  ASSUME NEW h, NEW L, Sound(h, L, {}), NEW b, NEW s, Whole(b), Whole(s),
         GranulesOf(b, s) \subseteq Space \ h.backed,
         NEW low, Lower(h, low, b, s), NEW g, g = AddSegment(low, b, s)
  PROVE  Sound(g, L, {}) /\ Obtained(h, g, L, s) /\ g.topsize + TopFoot >= s
<1> DEFINE t == h.top
           last == End(h.segs[1]) - TopFoot
           r == IF last < t + MinChunk THEN t ELSE last
           k == Added(low, b, s, r)
<1>1. /\ low.top = t /\ low.segs = h.segs /\ IsHeap(low)
  BY DEF SameBut, HeapFields, Lower
<1>2. RecordAt(h, r)
  BY DEF RecordAt
<1>3. g = IF r # t THEN Bin(k, t, r - t) ELSE k
  BY <1>1 DEF AddSegment, Added, Linked_
<1> HIDE DEF r, last
<1>4. SegmentAdded(h, k, b, s, r) /\ k.backed = low.backed /\ k.footprint = low.footprint
  <2>1. k = Added(low, b, s, r)
    OBVIOUS
  <2> HIDE DEF k
  <2> QED
    BY <1>2, <2>1, AddedOf
<1> HIDE DEF k
<1>5. /\ Sound(k, L, {} \cup ({t} \ {r})) /\ Spares(h, k, L) /\ (t # r => k.chunk[t].size = h.topsize)
  BY <1>4, SegmentAddedSound
<1>6. /\ k.topsize + TopFoot = s /\ SameBut(k, h, {"chunk", "segs", "top", "topsize", "backed", "footprint", "least", "trimcheck"})
      /\ (r # t => r = t + h.topsize)
  BY <1>4 DEF SegmentAdded
<1>7. /\ Sound(g, L, {}) /\ SameBut(g, k, {"small", "tree"})
  <2>1. CASE r = t
    <3>1. g = k /\ {} \cup ({t} \ {r}) = {}
      BY <1>3, <2>1
    <3> QED
      BY <1>5, <3>1 DEF Sound, SameBut
  <2>2. CASE r # t
    <3> DEFINE U == {} \cup ({t} \ {r})
               n == r - t
    <3>1. t \in U /\ U \ {t} = {} /\ Sound(k, L, U)
      BY <1>5, <2>2
    <3>2. n = k.chunk[t].size /\ g = Bin(k, t, n)
      <4>1. t \in Nat /\ h.topsize \in Nat
        BY TopFields
      <4> QED
        BY <1>3, <1>5, <1>6, <2>2, <4>1
    <3> HIDE DEF U, n
    <3>3. Sound(Bin(k, t, n), L, U \ {t}) /\ SameBut(Bin(k, t, n), k, {"small", "tree"})
      BY <3>1, <3>2, BinSound
    <3> QED
      BY <3>1, <3>2, <3>3
  <2> QED
    BY <2>1, <2>2
<1>8. g.chunk = k.chunk /\ g.topsize = k.topsize /\ g.backed = k.backed /\ g.footprint = k.footprint
  BY <1>7 DEF SameBut, HeapFields
<1>9. Spares(h, g, L)
  BY <1>5, <1>8 DEF Spares
<1>10. SameBut(g, h, AskFields)
  BY <1>6, <1>7 DEF SameBut, HeapFields, AskFields
<1>11. h.backed \subseteq g.backed /\ g.footprint <= h.footprint + s
  <2>2. k.backed = h.backed \cup GranulesOf(b, s) /\ k.footprint = h.footprint + s
    BY <1>4 DEF Lower
  <2>3. h.footprint \in Nat /\ s \in Nat
    BY FootprintNat, WholeSum
  <2> QED
    BY <1>8, <2>2, <2>3
<1>12. g.topsize + TopFoot >= s
  <2>1. s \in Nat
    BY WholeSum
  <2> QED
    BY <1>6, <1>8, <2>1
<1> QED
  BY <1>7, <1>9, <1>10, <1>11, <1>12 DEF Obtained

----------------------------------------------------------------------------
(* Growing, binning and allocating. *)

\* Memory obtained within the limit is memory asked for.
LEMMA ObtainedAsked ==
  ASSUME NEW h, NEW L, Sound(h, L, {}), NEW s \in Nat, WithinLimit(h, s), NEW g, NEW M,
         Sound(g, M, {}), Obtained(h, g, L, s)
  PROVE  Asked(h, g, L)
<1>1. g.footprint \in Nat /\ h.footprint \in Nat /\ h.limit \in Nat
  BY FootprintNat DEF Sound, Settings
<1>2. h.limit = 0 \/ g.footprint <= h.limit
  <2>1. g.footprint <= h.footprint + s
    BY DEF Obtained
  <2>2. h.limit = 0 \/ h.footprint + s <= h.limit
    BY DEF WithinLimit
  <2> QED
    BY <1>1, <2>1, <2>2
<1> QED
  BY <1>2 DEF Obtained, Asked

\* The top that has grown serves the request, if it has grown enough.
LEMMA ToppedLends ==
  ASSUME NEW h, NEW L, Sound(h, L, {}), NEW x, Sound(x, L, {}), Asked(h, x, L),
         NEW n \in Nat, n >= MinChunk,
         NEW o, o = IF n < x.topsize THEN FromTop(x, n) ELSE Null(x)
  PROVE  Lends(h, o, L, n)
<1>1. CASE ~(n < x.topsize)
  <2>1. o.heap = x /\ o.at = 0
    BY <1>1 DEF Null, Outcome
  <2> QED
    BY <2>1 DEF Lends
<1>2. CASE n < x.topsize
  <2>1. Gives(x, o.heap, L, o.at, n)
    BY <1>2, TopLends
  <2>2. /\ Sound(o.heap, L \cup {o.at}, {}) /\ o.at \notin L /\ o.at # 0
        /\ o.heap.chunk[o.at].size >= n /\ o.heap.chunk[o.at].cin /\ o.heap.chunk[o.at].pin
        /\ Spares(x, o.heap, L) /\ SameBut(o.heap, x, FreeFields)
    BY <2>1 DEF Gives
  <2>3. Spares(h, o.heap, L)
    BY <2>2, SparesChain DEF Asked
  <2>4. o.heap.backed = x.backed /\ o.heap.footprint = x.footprint
    BY <2>2 DEF SameBut, FreeFields, HeapFields
  <2>5. SameBut(o.heap, h, AskFields)
    BY <2>2 DEF Asked, SameBut, FreeFields, AskFields, HeapFields
  <2>6. Asked(h, o.heap, L)
    BY <2>3, <2>4, <2>5 DEF Asked
  <2> QED
    BY <2>2, <2>6 DEF Lends
<1> QED
  BY <1>1, <1>2

\* The first segment grows over the memory behind it.
LEMMA ExtendLends ==
  ASSUME NEW h, NEW L, Sound(h, L, {}), NEW s, Whole(s), WithinLimit(h, s),
         GranulesOf(End(h.segs[1]), s) \subseteq Space \ h.backed,
         NEW g, SameBut(g, h, {"backed", "footprint"}),
         g.backed = h.backed \cup GranulesOf(End(h.segs[1]), s), g.footprint = h.footprint + s,
         NEW n \in Nat, n >= MinChunk, NEW x,
         x = InitTop([g EXCEPT !.segs[1].size = @ + s], h.top, h.topsize + s),
         NEW o, o = IF n < x.topsize THEN FromTop(x, n) ELSE Null(x)
  PROVE  Lends(h, o, L, n)
<1> DEFINE k == [g EXCEPT !.segs[1].size = @ + s]
           m == h.topsize + s
<1>1. 1 \in DOMAIN h.segs /\ Segments(h.segs) /\ IsHeap(g) /\ g.segs = h.segs
  BY SegmentFields DEF Sound, Shape, Segments, SameBut, HeapFields
<1>2. k.segs = [h.segs EXCEPT ![1].size = h.segs[1].size + s]
  BY <1>1 DEF IsHeap, HeapFields
<1>3. SameBut(k, h, {"segs", "backed", "footprint"})
  BY <1>1 DEF SameBut, IsHeap, HeapFields
<1>4. k.backed = g.backed /\ k.footprint = g.footprint
  BY <1>1 DEF IsHeap, HeapFields
<1>5. x = InitTop(k, h.top, m)
  OBVIOUS
<1> HIDE DEF k, m
<1>6. m = h.topsize + s
  BY DEF m
<1>7. /\ Sound(x, L, {}) /\ Spares(h, x, L) /\ h.backed \subseteq x.backed
      /\ x.footprint <= h.footprint + s
      /\ SameBut(x, h, {"chunk", "topsize", "segs", "backed", "footprint", "trimcheck"})
  BY <1>2, <1>3, <1>4, <1>5, <1>6, ExtendTop
<1>8. Obtained(h, x, L, s)
  BY <1>7 DEF Obtained, SameBut, AskFields, HeapFields
<1>9. s \in Nat
  BY WholeSum
<1>10. Asked(h, x, L)
  BY <1>7, <1>8, <1>9, ObtainedAsked
<1> QED
  BY <1>7, <1>10, ToppedLends

\* A block from the memory the system gave, in whichever of its three places that lies.
LEMMA AddMemoryLends ==
  ASSUME NEW h, NEW L, Sound(h, L, {}), NEW b, NEW s, Whole(b), Whole(s), WithinLimit(h, s),
         GranulesOf(b, s) \subseteq Space \ h.backed,
         NEW n \in Nat, n >= MinChunk, n + MinChunk <= s, NEW o, o = AddMemory(h, b, s, n)
  PROVE  Lends(h, o, L, n)
<1> DEFINE g == [h EXCEPT !.backed = @ \cup GranulesOf(b, s), !.footprint = @ + s]
           low == [g EXCEPT !.least = IF b < @ THEN b ELSE @]
           above == {i \in DOMAIN h.segs : h.segs[i].base = b + s /\ ~h.segs[i].external}
           x == InitTop([g EXCEPT !.segs[1].size = @ + s], h.top, h.topsize + s)
           y == AddSegment(low, b, s)
           j == CHOOSE i \in above : TRUE
           z == Prepend(low, j, b, s, n)
<1>1. IsHeap(h) /\ s \in Nat
  BY WholeSum DEF Sound
<1>2. /\ SameBut(g, h, {"backed", "footprint"})
      /\ g.backed = h.backed \cup GranulesOf(b, s) /\ g.footprint = h.footprint + s
  BY <1>1 DEF SameBut, IsHeap, HeapFields
<1>3. Lower(h, low, b, s)
  BY <1>1, <1>2 DEF Lower, SameBut, IsHeap, HeapFields
<1>4. o = IF End(h.segs[1]) = b /\ ~h.segs[1].external
          THEN IF n < x.topsize THEN FromTop(x, n) ELSE Null(x)
          ELSE IF above # {} THEN Outcome(z, b)
          ELSE IF n < y.topsize THEN FromTop(y, n) ELSE Null(y)
  BY DEF AddMemory
<1>5. above # {} => j \in DOMAIN h.segs /\ b + s = h.segs[j].base
  OBVIOUS
<1>6. x = InitTop([g EXCEPT !.segs[1].size = @ + s], h.top, h.topsize + s)
  OBVIOUS
<1>7. y = AddSegment(low, b, s) /\ z = Prepend(low, j, b, s, n)
  OBVIOUS
<1> HIDE DEF g, low, above, x, y, z, j
<1>8. CASE End(h.segs[1]) = b /\ ~h.segs[1].external
  <2>1. o = IF n < x.topsize THEN FromTop(x, n) ELSE Null(x)
    BY <1>4, <1>8
  <2>2. /\ GranulesOf(End(h.segs[1]), s) \subseteq Space \ h.backed
        /\ g.backed = h.backed \cup GranulesOf(End(h.segs[1]), s)
    BY <1>2, <1>8
  <2> QED
    BY <1>2, <1>6, <2>1, <2>2, ExtendLends
<1>9. CASE ~(End(h.segs[1]) = b /\ ~h.segs[1].external) /\ above # {}
  <2>1. o.heap = z /\ o.at = b
    BY <1>4, <1>9 DEF Outcome
  <2>2. /\ Sound(z, L \cup {b}, {}) /\ b \notin L /\ b # 0 /\ z.chunk[b].size >= n
        /\ z.chunk[b].cin /\ z.chunk[b].pin /\ Obtained(h, z, L, s)
    <3>1. j \in DOMAIN h.segs /\ b + s = h.segs[j].base /\ Lower(h, low, b, s)
          /\ z = Prepend(low, j, b, s, n)
      BY <1>3, <1>5, <1>7, <1>9
    <3>2. n \in Nat /\ n >= MinChunk /\ n + MinChunk <= s /\ Sound(h, L, {})
          /\ Whole(b) /\ Whole(s) /\ GranulesOf(b, s) \subseteq Space \ h.backed
      OBVIOUS
    <3> QED
      BY ONLY <3>1, <3>2, PrependSound
  <2>3. Asked(h, z, L)
    BY <1>1, <2>2, ObtainedAsked
  <2> QED
    BY <2>1, <2>2, <2>3 DEF Lends
<1>10. CASE ~(End(h.segs[1]) = b /\ ~h.segs[1].external) /\ above = {}
  <2>1. o = IF n < y.topsize THEN FromTop(y, n) ELSE Null(y)
    BY <1>4, <1>10
  <2>2. Sound(y, L, {}) /\ Obtained(h, y, L, s)
    BY <1>3, <1>7, AddSegmentSound
  <2>3. Asked(h, y, L)
    BY <1>1, <2>2, ObtainedAsked
  <2> QED
    BY <2>1, <2>2, <2>3, ToppedLends
<1> QED
  BY <1>8, <1>9, <1>10

\* What the system is asked for is enough.
LEMMA GrowLends ==
  ASSUME NEW h, NEW L, Sound(h, L, {}), NEW n \in Nat, n >= MinChunk, NEW o \in Grow(h, n)
  PROVE  Lends(h, o, L, n)
<1> DEFINE s == SystemSize(n)
           places == IF WithinLimit(h, s) THEN Places(h, s) ELSE {}
<1>1. Padding \in Nat /\ Padding >= MinChunk /\ MinChunk = 2
  BY HeapAssumption DEF Padding, TopFoot, MinChunk
<1>2. Whole(s) /\ s >= n + Padding /\ s \in Nat
  <2>1. n + Padding \in Nat \ {0}
    BY <1>1
  <2>2. Whole(s) /\ s >= n + Padding
    BY <2>1, RoundedUp DEF SystemSize
  <2> QED
    BY <2>2, WholeSum
<1>3. o \in {AddMemory(h, b, s, n) : b \in places}
            \cup IF MapFails \/ places = {} THEN {Null(h)} ELSE {}
  BY DEF Grow
<1> HIDE DEF s
<1>4. CASE o = Null(h)
  <2>1. o.heap = h /\ o.at = 0
    BY <1>4 DEF Null, Outcome
  <2>2. L \subseteq DOMAIN h.chunk
    BY Inside
  <2>3. Asked(h, h, L)
    BY <2>2, SparesSame DEF Asked, SameBut, Sound
  <2> QED
    BY <2>1, <2>3 DEF Lends
<1>5. CASE \E b \in places : o = AddMemory(h, b, s, n)
  <2>1. PICK b \in Places(h, s) : WithinLimit(h, s) /\ o = AddMemory(h, b, s, n)
    BY <1>5
  <2>2. Whole(b) /\ GranulesOf(b, s) \subseteq Space \ h.backed
    BY PlaceOf
  <2>3. n + MinChunk <= s
    BY <1>1, <1>2
  <2> QED
    BY <1>2, <2>1, <2>2, <2>3, AddMemoryLends
<1> QED
  BY <1>3, <1>4, <1>5

\* A block from memory asked of the system, mapped or added to the space.
LEMMA SystemLends ==
  ASSUME NEW h, NEW L, Sound(h, L, {}), NEW n \in Nat, n >= MinChunk, NEW o \in SystemAllocate(h, n)
  PROVE  Lends(h, o, L, n)
<1>1. CASE o \in Grow(h, n)
  BY <1>1, GrowLends
<1>2. CASE h.mmapon /\ o \in MapAllocate(h, n)
  BY <1>2, MapAllocateSound
<1> QED
  BY <1>1, <1>2 DEF SystemAllocate

\* A block from the victim, the top or the system.
LEMMA RestLends ==
  ASSUME NEW h, NEW L, Sound(h, L, {}), NEW n \in Nat, n >= MinChunk, NEW o \in FromRest(h, n)
  PROVE  Lends(h, o, L, n)
<1>1. CASE n <= h.dvsize /\ o = FromDv(h, n)
  BY <1>1, FromDvSound, GivesLends
<1>2. CASE n < h.topsize /\ o = FromTop(h, n)
  BY <1>2, TopLends, GivesLends
<1>3. CASE o \in SystemAllocate(h, n)
  BY <1>3, SystemLends
<1> QED
  BY <1>1, <1>2, <1>3 DEF FromRest

\* A set of sizes has a least one.
LEMMA Least ==
  ASSUME NEW S \in SUBSET Nat, S # {}
  PROVE  \E m \in S : \A n \in S : m <= n
<1> DEFINE R == {p \in Nat \X Nat : p[1] < p[2]}
<1>1. IsWellFoundedOn(R, Nat)
  BY NatLessThanWellFounded DEF OpToRel
<1>2. \E x \in S : \A y \in S : ~(<<y, x>> \in R)
  <2> HIDE DEF R
  <2> QED BY <1>1, WFMin
<1>3. PICK x \in S : \A y \in S : ~(<<y, x>> \in R)
  BY <1>2
<1>4. \A y \in S : x \in Nat /\ y \in Nat /\ ~(y < x)
  BY <1>3
<1> QED
  BY <1>4

\* Whatever way the request is served, the block is as large as asked, is nobody else's,
\* and the space stays sound (sm_space_allocate 3645-3791).
THEOREM Allocation ==
  ASSUME NEW h, NEW L, Sound(h, L, {}), NEW n \in Nat, n >= MinChunk, NEW o \in Allocate(h, n)
  PROVE  Lends(h, o, L, n)
<1> DEFINE filled == {m \in SmallSizes : m >= n /\ h.small[m] # <<>>}
           least == CHOOSE m \in filled : \A k \in filled : m <= k
<1>1. SmallSizes \subseteq Nat /\ filled \subseteq SmallSizes
  BY HeapAssumption DEF SmallSizes, MinChunk
<1>2. \A m \in filled : m \in SmallSizes /\ h.small[m] # <<>> /\ n <= m
  BY <1>1
<1>3. filled # {} => least \in filled
  <2>1. filled # {} => \E m \in filled : \A k \in filled : m <= k
    <3>1. filled \in SUBSET Nat
      BY <1>1
    <3> HIDE DEF filled
    <3> QED
      BY <3>1, Least
  <2> QED
    BY <2>1
<1>4. \/ n \in filled /\ o = FromBin(h, n, n)
      \/ filled # {} /\ o = FromBin(h, n, least)
      \/ n < SmallLimit /\ o \in FromTreeSmall(h, n)
      \/ n >= SmallLimit /\ o \in FromTreeLarge(h, n)
      \/ o \in FromRest(h, n)
  BY DEF Allocate
<1> HIDE DEF filled, least
<1>5. CASE n \in filled /\ o = FromBin(h, n, n)
  BY <1>2, <1>5, FromBinLends
<1>6. CASE filled # {} /\ o = FromBin(h, n, least)
  BY <1>2, <1>3, <1>6, FromBinLends
<1>7. CASE n < SmallLimit /\ o \in FromTreeSmall(h, n)
  <2>1. PICK a \in SmallestOf(h, h.tree) : o = Outcome(SplitToDv(Unbin(h, a, SizeOf(h, a)), a, n), a)
    BY <1>7 DEF FromTreeSmall
  <2>2. a \in h.tree
    BY <2>1 DEF SmallestOf
  <2>3. n <= h.chunk[a].size
    BY <1>7, <2>2, TreeSizes, HeapAssumption
  <2> QED
    BY <2>1, <2>2, <2>3, TreeLends
<1>8. CASE n >= SmallLimit /\ o \in FromTreeLarge(h, n)
  <2>1. PICK a \in TreeFit(h, n) : o = Outcome(SplitToBin(Unbin(h, a, SizeOf(h, a)), a, n), a)
    BY <1>8 DEF FromTreeLarge
  <2>2. a \in h.tree /\ h.chunk[a].size >= n
    BY <2>1 DEF TreeFit, SmallestOf, SizeOf
  <2>3. n <= h.chunk[a].size
    BY <2>2, TreeSizes
  <2> QED
    BY <2>1, <2>2, <2>3, TreeLends
<1>9. CASE o \in FromRest(h, n)
  BY <1>9, RestLends
<1> QED
  BY <1>4, <1>5, <1>6, <1>7, <1>8, <1>9

----------------------------------------------------------------------------
(* Resizing in place. *)

\* A block keeps its place, and is as large as asked.
Reworks(h, g, L, a, n) ==
  /\ Sound(g, L, {}) /\ Spares(h, g, L \ {a}) /\ SameBut(g, h, FreeFields)
  /\ g.chunk[a].size >= n /\ g.chunk[a].cin

\* A block is cut, together with loose chunks behind it, and the rest disposed of.
LEMMA ShortenSound ==
  ASSUME NEW h, NEW L, NEW U, Sound(h, L, U), NEW a, NEW e, Span(h, a, e, L, U), a \in L,
         L \ (a .. e - 1) = L \ {a}, U \subseteq a .. e - 1, NEW all, all = e - a,
         NEW n \in Nat, n >= MinChunk, n <= all, NEW g \in Shorten(h, a, all, n)
  PROVE  Reworks(h, g, L, a, n)
<1> DEFINE k == SetInUse(h, a, n)
           r == all - n
           b == a + n
           x == SetInUseWhole(k, b, r)
<1>1. /\ a \in Nat \ {0} /\ e \in Nat \ {0} /\ a < e /\ all \in Nat \ {0} /\ a + all = e
      /\ Heads(h.chunk) /\ IsHeap(h) /\ L \subseteq DOMAIN h.chunk
  BY SpanFields
<1>2. (L \ (a .. e - 1)) \cup {a} = L /\ U \ (a .. e - 1) = {} /\ MinChunk = 2
  BY DEF MinChunk
<1>3. CASE r < MinChunk
  <2>1. g = SetInUse(h, a, all)
    BY <1>3 DEF Shorten
  <2>2. Sound(g, (L \ (a .. e - 1)) \cup {a}, U \ (a .. e - 1))
    BY <2>1, UseSpan
  <2>3. Sound(g, L, {})
    BY <1>2, <2>2
  <2>4. Spares(h, g, L \ (a .. e - 1)) /\ SameBut(g, h, {"chunk"})
    BY <2>1, WriteSparesSpan
  <2>5. g.chunk[a].size = all /\ g.chunk[a].cin
    BY <1>1, <2>1, WriteSize
  <2>6. SameBut(g, h, FreeFields)
    BY <2>4 DEF SameBut, FreeFields
  <2> QED
    BY <1>1, <2>3, <2>4, <2>5, <2>6 DEF Reworks
<1>4. CASE ~(r < MinChunk)
  <2>1. r \in Nat /\ r >= MinChunk /\ a + n + r = e /\ b \in Nat \ {0} /\ n \in Nat \ {0} /\ r \in Nat \ {0}
        /\ b \in a .. e - 1 /\ b # a
    BY <1>1, <1>2, <1>4
  <2>2. PICK d \in Dispose(x, b, r) : g = d.heap
    BY <1>4 DEF Shorten
  <2>3. x = SetInUseWhole(SetInUse(h, a, n), a + n, r)
    OBVIOUS
  <2> HIDE DEF x
  <2>4. Sound(x, (L \ (a .. e - 1)) \cup {a, a + n}, U \ (a .. e - 1))
    BY <2>1, <2>3, CutSpan
  <2>5. Sound(x, L \cup {b}, {})
    <3>1. (L \ (a .. e - 1)) \cup {a, a + n} = L \cup {b}
      BY <1>2
    <3> QED
      BY <1>2, <2>4, <3>1
  <2>6. Spares(h, x, L \ (a .. e - 1)) /\ SameBut(x, h, {"chunk"})
    BY <2>1, <2>3, WritesSpareSpan
  <2>7. x.chunk[a].size = n /\ x.chunk[b].size = r /\ x.chunk[a].cin
    <3>1. /\ x.chunk[a].size = n /\ x.chunk[a + n].size = r /\ x.chunk[a].cin
          /\ a \in DOMAIN x.chunk /\ a + n \in DOMAIN x.chunk
      <4>1. r \in Nat \ {0} /\ n \in Nat \ {0}
        BY <2>1
      <4> HIDE DEF r, b, k
      <4> QED
        BY ONLY <1>1, <2>3, <4>1, WritesSizes
    <3> QED
      BY <3>1
  <2>8. x.chunk[b].cin
    <3>1. IsHeap(k) /\ Heads(k.chunk)
      BY <1>1, <2>1, UseOf
    <3>2. x = SetInUseWhole(k, b, r)
      BY <2>3
    <3> HIDE DEF k, b, r
    <3> QED
      BY <2>1, <3>1, <3>2, UseWholeOf
  <2>9. b \notin L
    BY <2>1
  <2> HIDE DEF b, r, k
  <2>10. Frees(x, d.heap, L \cup {b}, (L \cup {b}) \ {b})
    BY <2>2, <2>5, <2>7, <2>8, DisposeInHeap
  <2>11. (L \cup {b}) \ {b} = L
    BY <2>9
  <2>12. Sound(g, L, {}) /\ Spares(x, g, L) /\ SameBut(g, x, FreeFields)
    BY <2>2, <2>10, <2>11 DEF Frees
  <2>13. Spares(h, g, L \ {a})
    <3>1. Spares(x, g, L \ {a})
      BY <2>12 DEF Spares
    <3> QED
      BY <2>6, <3>1, SparesChain
  <2>14. SameBut(g, h, FreeFields)
    BY <2>6, <2>12 DEF SameBut, FreeFields
  <2>15. g.chunk[a].size = n /\ g.chunk[a].cin
    BY <2>7, <2>12 DEF Spares
  <2> QED
    BY <2>12, <2>13, <2>14, <2>15 DEF Reworks
<1> QED
  BY <1>3, <1>4

\* A block, the loose chunk behind it, and what is behind that.
Behind(h, a, b, e) == b = a + h.chunk[a].size /\ e = b + h.chunk[b].size

\* A block and the loose chunk behind it are one span.
LEMMA BlockAndLoose ==
  ASSUME NEW h, NEW L, NEW k, NEW a \in L, NEW b, NEW e, Behind(h, a, b, e),
         Sound(h, L, {}), Sound(k, L, {b}), k.chunk = h.chunk, k.segs = h.segs, h.chunk[a].cin
  PROVE  /\ Span(k, a, e, L, {b}) /\ L \ (a .. e - 1) = L \ {a} /\ {b} \subseteq a .. e - 1
         /\ a \in Nat \ {0} /\ h.chunk[a].size \in Nat \ {0} /\ h.chunk[b].size \in Nat \ {0}
         /\ b \in Nat \ {0} /\ e \in Nat \ {0} /\ k.chunk[e].cin /\ ~k.chunk[e].pin
         /\ {b} \ (a .. e - 1) = {} /\ h.chunk[a].size >= MinChunk
<1> DEFINE none == {}
           one == {b}
<1> USE DEF Behind
<1>0. Sound(h, L, none) /\ Sound(k, L, one) /\ b \in one
  OBVIOUS
<1> HIDE DEF none, one
<1>1. /\ Span(h, a, b, L, none) /\ a \in Nat \ {0} /\ h.chunk[a].size \in Nat \ {0}
      /\ h.chunk[a].size >= MinChunk
  BY <1>0, BlockSpan
<1>2. /\ Span(k, b, e, L, one) /\ b \in Nat \ {0} /\ k.chunk[b].size \in Nat \ {0}
      /\ k.chunk[e].cin /\ ~k.chunk[e].pin
  <2>1. e = b + k.chunk[b].size
    OBVIOUS
  <2> QED
    BY <1>0, <2>1, LooseSpan
<1>3. L \ (a .. b - 1) = L \ {a}
  BY <1>0, OneOf
<1>4. L \ (b .. e - 1) = L
  <2>1. e = b + k.chunk[b].size
    OBVIOUS
  <2> QED
    BY <1>0, <2>1, LooseOne
<1>5. Span(k, a, b, L, one)
  <2>1. none \subseteq one
    BY DEF none
  <2> QED
    BY <1>1, <2>1, SpanLoose
<1>6. Span(k, a, e, L, one)
  BY <1>0, <1>2, <1>5, SpanJoin, SMTT(30)
<1>7. a < b /\ b < e /\ e \in Nat \ {0} /\ h.chunk[b].size \in Nat \ {0}
  BY <1>1, <1>2, SMTT(30)
<1>8. a .. e - 1 = (a .. b - 1) \cup (b .. e - 1) /\ b \in a .. e - 1
  <2>1. a \in Nat /\ b \in Nat /\ e \in Nat /\ a < b /\ b < e
    BY <1>1, <1>2, <1>7
  <2> QED
    BY ONLY <2>1
<1>9. L \ (a .. e - 1) = L \ {a}
  BY <1>3, <1>4, <1>8
<1>10. Span(k, a, e, L, {b})
  BY <1>6 DEF one
<1>11. {b} \subseteq a .. e - 1 /\ {b} \ (a .. e - 1) = {}
  BY <1>8
<1> QED
  BY <1>1, <1>2, <1>7, <1>9, <1>10, <1>11

\* The block grows over a free chunk of the bins behind it.
LEMMA GrowIntoFree ==
  ASSUME NEW h, NEW L, Sound(h, L, {}), NEW a \in L, h.chunk[a].cin,
         NEW b, b = a + h.chunk[a].size, b # h.top, b # h.dv, ~h.chunk[b].cin,
         NEW n \in Nat, n >= MinChunk, NEW all, all = h.chunk[a].size + h.chunk[b].size, n <= all,
         NEW g \in Shorten(Unbin(h, b, h.chunk[b].size), a, all, n)
  PROVE  Reworks(h, g, L, a, n)
<1> DEFINE k == Unbin(h, b, h.chunk[b].size)
           e == b + h.chunk[b].size
<1>1. b \in Binned_(h.small, h.tree)
  <2>1. b \in InHeap(h.chunk)
    BY BlockSpan
  <2>2. b \in Idle_(h.chunk)
    BY <2>1 DEF InHeap, Idle_
  <2> QED
    BY <2>2 DEF Sound, Placed
<1>2. Sound(k, L, {} \cup {b}) /\ SameBut(k, h, {"small", "tree"})
  BY <1>1, UnbinSound
<1>3. k.chunk = h.chunk /\ k.segs = h.segs /\ {} \cup {b} = {b}
  BY <1>2 DEF SameBut, HeapFields
<1>4. e = b + h.chunk[b].size /\ g \in Shorten(k, a, all, n) /\ Sound(k, L, {b})
  BY <1>2, <1>3
<1> HIDE DEF k, e
<1>5. /\ Span(k, a, e, L, {b}) /\ L \ (a .. e - 1) = L \ {a} /\ {b} \subseteq a .. e - 1
      /\ a \in Nat \ {0} /\ h.chunk[a].size \in Nat \ {0} /\ h.chunk[b].size \in Nat \ {0}
      /\ b \in Nat \ {0} /\ e \in Nat \ {0}
  <2>1. k.chunk = h.chunk /\ k.segs = h.segs /\ Sound(k, L, {b})
    BY <1>3, <1>4
  <2>2. Sound(h, L, {}) /\ h.chunk[a].cin /\ Behind(h, a, b, e) /\ a \in L
    BY <1>4 DEF Behind
  <2> QED
    BY ONLY <2>1, <2>2, BlockAndLoose
<1>6. all = e - a
  BY <1>4, <1>5, SMTT(30)
<1>7. Reworks(k, g, L, a, n)
  <2> DEFINE one == {b}
  <2>1. Span(k, a, e, L, one) /\ one \subseteq a .. e - 1 /\ Sound(k, L, one)
    BY <1>4, <1>5
  <2> HIDE DEF one
  <2> QED
    BY <1>4, <1>5, <1>6, <2>1, ShortenSound
<1> QED
  BY <1>2, <1>3, <1>7 DEF Reworks, Spares, SameBut, FreeFields

\* The block grows over the designated victim behind it.
LEMMA GrowIntoDvSound ==
  ASSUME NEW h, NEW L, Sound(h, L, {}), NEW a \in L, h.chunk[a].cin,
         a + h.chunk[a].size = h.dv, NEW n \in Nat, n >= MinChunk, h.chunk[a].size < n,
         n <= h.chunk[a].size + h.dvsize, NEW g, g = GrowIntoDv(h, a, n)
  PROVE  Reworks(h, g, L, a, n)
<1> DEFINE b == h.dv
           k == NoVictim(h)
           e == b + h.chunk[b].size
           r == h.chunk[a].size + h.dvsize - n
<1>0. b = h.dv /\ k = NoVictim(h) /\ b = a + h.chunk[a].size
  OBVIOUS
<1>1. b # 0
  <2>1. a \in Nat \ {0} /\ h.chunk[a].size \in Nat
    BY BlockSpan
  <2> QED
    BY <2>1
<1>2. Sound(k, L, {b}) /\ SameBut(k, h, {"dv", "dvsize"}) /\ h.dvsize = h.chunk[b].size
  <2>1. {} \cup {b} = {b}
    OBVIOUS
  <2>2. Sound(NoVictim(h), L, {} \cup {h.dv})
    BY <1>1, VictimOut
  <2> QED
    BY <1>1, <2>1, <2>2, VictimOut
<1>3. IsHeap(h) /\ IsHeap(k) /\ k.chunk = h.chunk /\ k.dv = 0 /\ k.segs = h.segs
  BY <1>2, Inside DEF SameBut, HeapFields, NoVictim, IsHeap
<1> HIDE DEF b, k
<1>4. Behind(h, a, b, e)
  BY <1>0 DEF Behind
<1> HIDE DEF e
<1>5. /\ Span(k, a, e, L, {b}) /\ L \ (a .. e - 1) = L \ {a} /\ {b} \subseteq a .. e - 1
      /\ a \in Nat \ {0} /\ h.chunk[a].size \in Nat \ {0} /\ h.chunk[b].size \in Nat \ {0}
      /\ b \in Nat \ {0} /\ e \in Nat \ {0} /\ k.chunk[e].cin /\ ~k.chunk[e].pin
      /\ {b} \ (a .. e - 1) = {}
  <2>1. Sound(h, L, {}) /\ h.chunk[a].cin /\ Behind(h, a, b, e) /\ a \in L
    BY <1>4
  <2>2. k.chunk = h.chunk /\ k.segs = h.segs /\ Sound(k, L, {b})
    BY <1>2, <1>3
  <2> QED
    BY ONLY <2>1, <2>2, BlockAndLoose
<1>6. /\ r \in Nat /\ a + n + r = e /\ n \in Nat \ {0} /\ e - a = n + r /\ r < h.chunk[b].size
      /\ n + r = h.chunk[a].size + h.chunk[b].size
  <2> DEFINE s == h.chunk[a].size
             t == h.chunk[b].size
  <2>1. s \in Nat \ {0} /\ t \in Nat \ {0} /\ a \in Nat /\ n \in Nat /\ s < n /\ n <= s + t
        /\ b = a + s /\ e = b + t /\ r = s + t - n
    BY <1>0, <1>2, <1>4, <1>5 DEF Behind
  <2> HIDE DEF s, t, r
  <2>2. /\ r \in Nat /\ a + n + r = e /\ n \in Nat \ {0} /\ e - a = n + r /\ r < t /\ n + r = s + t
    BY ONLY <2>1
  <2> QED
    BY <2>2 DEF s, t
<1>7. Heads(h.chunk) /\ Heads(k.chunk) /\ L \subseteq DOMAIN h.chunk
  BY <1>3, Inside
<1>8. SameChunks(h, k)
  BY <1>3 DEF SameChunks
<1>9. (L \ (a .. e - 1)) \cup {a} = L
  BY <1>5
<1>10. g = IF r >= MinChunk
           THEN [SetPin(SetFree(SetInUse(h, a, n), a + n, r), e, FALSE)
                    EXCEPT !.dv = a + n, !.dvsize = r]
           ELSE [SetInUse(h, a, n + r) EXCEPT !.dv = 0, !.dvsize = 0]
  BY <1>6 DEF GrowIntoDv, SizeOf
<1> HIDE DEF r
<1>11. CASE r >= MinChunk
  <2> DEFINE x == SetFree(SetInUse(k, a, n), a + n, r)
             y == SetFree(SetInUse(h, a, n), a + n, r)
             f == SetPin(x, e, FALSE)
             j == SetPin(y, e, FALSE)
             q == a + n
  <2>0. x = SetFree(SetInUse(k, a, n), a + n, r) /\ y = SetFree(SetInUse(h, a, n), a + n, r)
        /\ q = a + n /\ q \in Nat \ {0} /\ MinChunk = 2 /\ r \in Nat \ {0} /\ f = SetPin(x, e, FALSE)
        /\ j = SetPin(y, e, FALSE)
    BY <1>5, <1>6, <1>11 DEF MinChunk
  <2>1. g = Victim(j, q, r)
    BY <1>10, <1>11 DEF Victim
  <2>2. Sound(f, (L \ (a .. e - 1)) \cup {a}, ({b} \ (a .. e - 1)) \cup {a + n})
    <3> DEFINE one == {b}
    <3>1. Span(k, a, e, L, one) /\ Sound(k, L, one)
      BY <1>2, <1>5
    <3> HIDE DEF one, x
    <3>2. Sound(f, (L \ (a .. e - 1)) \cup {a}, (one \ (a .. e - 1)) \cup {a + n})
      BY <1>5, <1>6, <1>11, <2>0, <3>1, GrowSpan
    <3> QED
      BY <3>2 DEF one
  <2>3. Sound(f, L, {q})
    <3>1. ({b} \ (a .. e - 1)) \cup {a + n} = {q}
      BY <1>5
    <3> QED
      BY <1>9, <2>2, <3>1
  <2>4. Spares(k, x, L \ {a}) /\ SameBut(x, k, {"chunk"}) /\ IsHeap(x) /\ Heads(x.chunk)
    <3> DEFINE one == {b}
    <3>1. Span(k, a, e, L, one) /\ Sound(k, L, one)
      BY <1>2, <1>5
    <3> HIDE DEF one, x
    <3>2. Spares(k, x, L \ (a .. e - 1)) /\ SameBut(x, k, {"chunk"}) /\ IsHeap(x) /\ Heads(x.chunk)
      BY <1>6, <2>0, <3>1, WritesSpareSpan
    <3> QED
      BY <1>5, <3>2
  <2>5. x.chunk[a].size = n /\ x.chunk[q].size = r /\ x.chunk[a].cin /\ a \in DOMAIN x.chunk
        /\ q \in DOMAIN x.chunk
    <3> HIDE DEF x, q
    <3>1. /\ x.chunk[a].size = n /\ x.chunk[a + n].size = r /\ x.chunk[a].cin
          /\ a \in DOMAIN x.chunk /\ a + n \in DOMAIN x.chunk
      <4>1. IsHeap(k) /\ Heads(k.chunk) /\ a \in Nat \ {0} /\ n \in Nat \ {0} /\ r \in Nat \ {0}
        BY <1>3, <1>5, <1>6, <1>7, <2>0
      <4>2. x = SetFree(SetInUse(k, a, n), a + n, r)
        BY <2>0
      <4> QED
        BY ONLY <4>1, <4>2, WritesSizes
    <3> QED
      BY <2>0, <3>1
  <2>6. SameChunks(x, y) /\ SameChunks(f, j)
    <3>1. SameChunks(SetInUse(k, a, n), SetInUse(h, a, n))
      BY <1>3, WritesSame DEF SameChunks
    <3>2. SameChunks(x, y)
      BY <3>1, WritesSame
    <3> HIDE DEF x, y
    <3> QED
      BY <3>2, SetPinSame
  <2> HIDE DEF x, y, q
  <2>7. /\ SameBut(f, x, {"chunk"}) /\ DOMAIN f.chunk = DOMAIN x.chunk /\ IsHeap(f)
        /\ \A c \in DOMAIN x.chunk : f.chunk[c].size = x.chunk[c].size /\ f.chunk[c].cin = x.chunk[c].cin
    <3>1. f = SetPin(x, e, FALSE) /\ IsHeap(x) /\ Heads(x.chunk)
      BY <2>0, <2>4
    <3>2. /\ SameBut(f, x, {"chunk"}) /\ DOMAIN f.chunk = DOMAIN x.chunk /\ IsHeap(f)
          /\ \A c \in DOMAIN x.chunk : c # e => f.chunk[c] = x.chunk[c]
          /\ e \in DOMAIN x.chunk => f.chunk[e].size = x.chunk[e].size /\ f.chunk[e].cin = x.chunk[e].cin
      <4> DEFINE bit == FALSE
      <4>1. bit \in BOOLEAN /\ f = SetPin(x, e, bit) /\ IsHeap(x) /\ Heads(x.chunk)
        BY <3>1
      <4> HIDE DEF x, f, bit
      <4> DEFINE w == SetPin(x, e, bit)
      <4>2. /\ SameBut(w, x, {"chunk"}) /\ IsHeap(w) /\ DOMAIN w.chunk = DOMAIN x.chunk
            /\ \A c \in DOMAIN x.chunk : c # e => w.chunk[c] = x.chunk[c]
            /\ e \in DOMAIN x.chunk => w.chunk[e].size = x.chunk[e].size /\ w.chunk[e].cin = x.chunk[e].cin
        BY ONLY <4>1, SetPinOf
      <4> QED
        BY ONLY <4>1, <4>2
    <3> QED
      BY ONLY <3>2
  <2>8. SameBut(f, k, {"chunk"}) /\ f.dv = 0 /\ f.chunk[q].size = r
    BY <1>3, <2>4, <2>5, <2>7 DEF SameBut, HeapFields
  <2>9. SameBut(j, h, {"chunk"})
    <3>1. SameBut(SetInUse(h, a, n), h, {"chunk"}) /\ IsHeap(SetInUse(h, a, n))
          /\ Heads(SetInUse(h, a, n).chunk)
      <4>1. IsHeap(h) /\ Heads(h.chunk) /\ a \in Nat \ {0} /\ n \in Nat \ {0}
        BY <1>3, <1>5, <1>6, <1>7
      <4> QED
        BY ONLY <4>1, UseOf
    <3>2. SameBut(y, SetInUse(h, a, n), {"chunk"}) /\ IsHeap(y) /\ Heads(y.chunk)
      <4> DEFINE i == SetInUse(h, a, n)
      <4>1. y = SetFree(i, q, r) /\ IsHeap(i) /\ Heads(i.chunk)
        BY <2>0, <3>1
      <4> HIDE DEF i
      <4>2. SameBut(y, i, {"chunk"}) /\ IsHeap(y)
        BY <2>0, <4>1, FreeOf
      <4>3. Heads(y.chunk)
        BY <2>4, <2>6 DEF SameChunks
      <4> QED
        BY <4>2, <4>3 DEF i
    <3>3. SameBut(j, y, {"chunk"})
      BY <3>2, SetPinOf
    <3> QED
      BY <3>1, <3>2, <3>3 DEF SameBut
  <2> HIDE DEF f, j
  <2>10. Sound(Victim(f, q, r), L, {}) /\ SameBut(Victim(f, q, r), f, {"dv", "dvsize"})
    <3>1. Sound(Victim(f, q, r), L, {q} \ {q}) /\ SameBut(Victim(f, q, r), f, {"dv", "dvsize"})
      <4> DEFINE one == {q}
      <4>1. q \in one /\ Sound(f, L, one)
        BY <2>3
      <4> HIDE DEF one
      <4>2. Sound(Victim(f, q, r), L, one \ {q}) /\ SameBut(Victim(f, q, r), f, {"dv", "dvsize"})
        BY <2>8, <4>1, VictimIn
      <4> QED
        BY <4>2 DEF one
    <3>2. {q} \ {q} = {}
      OBVIOUS
    <3> QED
      BY <3>1, <3>2
  <2>11. g = Victim(f, q, r)
    <3>1. SameBut(f, NoVictim(h), {"chunk"})
      BY <1>0, <2>8
    <3> QED
      BY <1>3, <2>1, <2>6, <2>9, <3>1, VictimLater
  <2>12. g.chunk = f.chunk /\ SameBut(g, h, FreeFields)
    BY <1>2, <2>8, <2>10, <2>11 DEF SameBut, HeapFields, FreeFields
  <2>13. Spares(h, g, L \ {a})
    BY <1>3, <2>4, <2>7, <2>12 DEF Spares
  <2>14. g.chunk[a].size = n /\ g.chunk[a].cin
    BY <2>5, <2>7, <2>12
  <2> QED
    BY <2>10, <2>11, <2>12, <2>13, <2>14 DEF Reworks
<1>12. CASE ~(r >= MinChunk)
  <2> DEFINE m == n + r
             f == SetInUse(k, a, m)
             j == SetInUse(h, a, m)
  <2>0. m = e - a /\ m \in Nat \ {0} /\ m >= n /\ f = SetInUse(k, a, m) /\ j = SetInUse(h, a, m)
    BY <1>5, <1>6
  <2>1. g = [j EXCEPT !.dv = 0, !.dvsize = 0]
    BY <1>10, <1>12
  <2> HIDE DEF m, f, j
  <2>2. Sound(f, L, {}) /\ Spares(k, f, L \ {a}) /\ SameBut(f, k, {"chunk"})
    <3> DEFINE one == {b}
    <3>1. Span(k, a, e, L, one) /\ Sound(k, L, one) /\ one \ (a .. e - 1) = {}
      BY <1>2, <1>5
    <3> HIDE DEF one
    <3>2. Sound(f, (L \ (a .. e - 1)) \cup {a}, one \ (a .. e - 1))
      BY <2>0, <3>1, UseSpan
    <3>3. Spares(k, f, L \ (a .. e - 1)) /\ SameBut(f, k, {"chunk"})
      BY <2>0, <3>1, WriteSparesSpan
    <3> QED
      BY <1>5, <1>9, <3>1, <3>2, <3>3
  <2>3. f.chunk[a].size = m /\ f.chunk[a].cin
    BY <1>3, <1>5, <1>7, <2>0, WriteSize
  <2>4. SameChunks(f, j) /\ SameBut(j, h, {"chunk"})
    <3>1. SameChunks(f, j)
      BY <1>3, <2>0, WritesSame DEF SameChunks
    <3>2. SameBut(j, h, {"chunk"})
      BY <1>3, <1>5, <1>7, <2>0, UseOf
    <3> QED
      BY <3>1, <3>2
  <2>5. /\ IsHeap(g) /\ g.chunk = j.chunk /\ g.dv = 0 /\ g.dvsize = 0
        /\ SameBut(g, h, {"chunk", "dv", "dvsize"})
    BY <2>1, <2>4 DEF SameBut, IsHeap, HeapFields
  <2>6. g = f
    <3>1. f.dv = 0 /\ f.dvsize = 0 /\ SameBut(f, h, {"chunk", "dv", "dvsize"})
      <4>1. k.dv = 0 /\ k.dvsize = 0
        BY <1>3, <1>0 DEF NoVictim, IsHeap, HeapFields
      <4> QED
        BY <1>2, <2>2, <4>1 DEF SameBut, HeapFields
    <3>2. SameChunks(g, f)
      BY <2>4, <2>5 DEF SameChunks
    <3> QED
      BY <2>5, <3>1, <3>2, VictimSame
  <2>7. SameBut(g, h, FreeFields)
    BY <2>5 DEF SameBut, FreeFields
  <2>8. Spares(h, g, L \ {a})
    BY <1>3, <2>2, <2>6 DEF Spares
  <2> QED
    BY <2>0, <2>2, <2>3, <2>6, <2>7, <2>8 DEF Reworks
<1> QED
  BY <1>11, <1>12

\* What an attempt to resize a block in place may come to: it gives up and changes nothing,
\* or the block is as large as asked where it was, and no other block is touched.
Resizes(h, o, L, a, n) ==
  \/ o.at = 0 /\ o.heap = h
  \/ /\ o.at = a /\ Sound(o.heap, L, {}) /\ Spares(h, o.heap, L \ {a})
     /\ SameBut(o.heap, h, FreeFields) /\ o.heap.chunk[a].size >= n

\* Every chunk has a size.
LEMMA BinnedSize ==
  ASSUME NEW h, NEW L, NEW U, Sound(h, L, U), NEW b \in DOMAIN h.chunk
  PROVE  h.chunk[b].size \in Nat \ {0}
<1>1. Heads(h.chunk)
  BY Inside
<1> QED
  BY <1>1 DEF Heads, Header

\* Resizing in place (sm_try_reallocate_chunk 3047-3157, where mremap is not there).
THEOREM Resizing ==
  ASSUME NEW h, NEW L, Sound(h, L, {}), NEW a \in L, NEW n \in Nat, n >= MinChunk, NEW movable,
         ~Remaps, NEW o \in TryReallocate(h, a, n, movable)
  PROVE  Resizes(h, o, L, a, n)
<1> DEFINE size == h.chunk[a].size
           next == a + size
<1>1. /\ L \subseteq DOMAIN h.chunk /\ a \in DOMAIN h.chunk /\ size \in Nat \ {0} /\ MinChunk = 2
      /\ SameBut(h, h, FreeFields) /\ Spares(h, h, L \ {a}) /\ a \in Nat \ {0}
  BY Inside, BinnedSize DEF SameBut, Spares, MinChunk
<1>2. o = Null(h) => Resizes(h, o, L, a, n)
  BY DEF Null, Outcome, Resizes
<1>3. o = Outcome(h, a) /\ size >= n => Resizes(h, o, L, a, n)
  BY <1>1 DEF Outcome, Resizes
<1>4. ASSUME NEW g, o = Outcome(g, a), Reworks(h, g, L, a, n)
      PROVE  Resizes(h, o, L, a, n)
  BY <1>4 DEF Outcome, Resizes, Reworks
<1>5. IsMapped(h.chunk[a]) <=> ~h.chunk[a].cin
  BY BlockUse
<1>6. CASE ~h.chunk[a].cin
  <2>1. o \in MapResize(h, a, n, movable)
    BY <1>5, <1>6 DEF TryReallocate
  <2>2. o = Null(h) \/ (o = Outcome(h, a) /\ size >= n + 1)
    BY <2>1 DEF MapResize
  <2> QED
    BY <1>1, <1>2, <1>3, <2>2
<1>7. CASE h.chunk[a].cin
  <2>1. \/ size >= n /\ o = Outcome(h, a)
        \/ size >= n /\ \E g \in Shorten(h, a, size, n) : o = Outcome(g, a)
        \/ /\ size < n /\ next = h.top /\ size + h.topsize > n
           /\ o = Outcome(GrowIntoTop(h, a, n), a)
        \/ /\ size < n /\ next = h.dv /\ size + h.dvsize >= n
           /\ o = Outcome(GrowIntoDv(h, a, n), a)
        \/ /\ size < n /\ next # h.top /\ next # h.dv /\ ~h.chunk[next].cin
           /\ size + h.chunk[next].size >= n
           /\ \E g \in Shorten(Unbin(h, next, h.chunk[next].size), a, size + h.chunk[next].size, n) :
                o = Outcome(g, a)
        \/ o = Null(h)
    BY <1>5, <1>7 DEF TryReallocate, SizeOf
  <2>a. next = a + size /\ next \in DOMAIN h.chunk /\ h.chunk[next].size \in Nat
    BY <1>7, BlockSpan, BinnedSize
  <2> HIDE DEF next
  <2>2. CASE size >= n /\ o = Outcome(h, a)
    BY <1>3, <2>2
  <2>3. CASE size >= n /\ \E g \in Shorten(h, a, size, n) : o = Outcome(g, a)
    <3>1. PICK g \in Shorten(h, a, size, n) : o = Outcome(g, a)
      BY <2>3
    <3> DEFINE none == {}
    <3>2. Sound(h, L, none)
      OBVIOUS
    <3> HIDE DEF none
    <3>3. Span(h, a, next, L, none)
      BY <1>7, <2>a, <3>2, BlockSpan
    <3>4. L \ (a .. next - 1) = L \ {a} /\ none \ (a .. next - 1) = none
      BY <1>7, <2>a, <3>2, OneOf
    <3>5. none \subseteq a .. next - 1
      BY DEF none
    <3>6. size = next - a /\ n <= size
      BY <1>1, <2>a, <2>3
    <3>7. Reworks(h, g, L, a, n)
      BY <3>1, <3>2, <3>3, <3>4, <3>5, <3>6, ShortenSound
    <3> QED
      BY <1>4, <3>1, <3>7
  <2>4. CASE /\ size < n /\ next = h.top /\ size + h.topsize > n
             /\ o = Outcome(GrowIntoTop(h, a, n), a)
    <3> DEFINE g == GrowIntoTop(h, a, n)
               none == {}
    <3>1. g = GrowIntoTop(h, a, n) /\ Sound(h, L, none) /\ o = Outcome(g, a)
      BY <2>4
    <3> HIDE DEF g, none
    <3>2. n < size + h.topsize
      <4>1. h.topsize \in Nat
        BY TopFields
      <4> QED
        BY <1>1, <2>4, <4>1
    <3>3. /\ Sound(g, L, none) /\ g.chunk[a].size = n /\ g.chunk[a].cin
          /\ Spares(h, g, L \ {a}) /\ SameBut(g, h, {"chunk", "top", "topsize"})
      BY <1>7, <2>a, <2>4, <3>1, <3>2, GrowIntoTopSound
    <3>4. Reworks(h, g, L, a, n)
      BY <3>3 DEF Reworks, SameBut, FreeFields, none
    <3> QED
      BY <1>4, <3>1, <3>4
  <2>5. CASE /\ size < n /\ next = h.dv /\ size + h.dvsize >= n
             /\ o = Outcome(GrowIntoDv(h, a, n), a)
    <3>1. h.dvsize \in Nat
      BY <2>a, <2>5 DEF Sound, Sizes
    <3>2. n <= size + h.dvsize
      BY <1>1, <2>5, <3>1
    <3>3. Reworks(h, GrowIntoDv(h, a, n), L, a, n)
      BY <1>7, <2>a, <2>5, <3>2, GrowIntoDvSound
    <3> QED
      BY <1>4, <2>5, <3>3
  <2>6. CASE /\ size < n /\ next # h.top /\ next # h.dv /\ ~h.chunk[next].cin
             /\ size + h.chunk[next].size >= n
             /\ \E g \in Shorten(Unbin(h, next, h.chunk[next].size), a, size + h.chunk[next].size, n) :
                  o = Outcome(g, a)
    <3> DEFINE all == size + h.chunk[next].size
    <3>1. PICK g \in Shorten(Unbin(h, next, h.chunk[next].size), a, all, n) : o = Outcome(g, a)
      BY <2>6
    <3>2. n <= all /\ all = size + h.chunk[next].size
      BY <1>1, <2>a, <2>6
    <3> HIDE DEF all
    <3>3. Reworks(h, g, L, a, n)
      BY <1>7, <2>a, <2>6, <3>1, <3>2, GrowIntoFree
    <3> QED
      BY <1>4, <3>1, <3>3
  <2>7. CASE o = Null(h)
    BY <1>2, <2>7
  <2> QED
    BY <2>1, <2>2, <2>3, <2>4, <2>5, <2>6, <2>7
<1> QED
  BY <1>6, <1>7

----------------------------------------------------------------------------
(* The list of the segments without those released. *)

\* The list of the segments as the scan of sm_release_unused_segments builds it.
KeptUpTo(f, S, gone, m) ==
  f = [i \in 0 .. m |-> IF i = 0 THEN <<>>
                        ELSE IF S[i] \in gone THEN f[i - 1] ELSE Append(f[i - 1], S[i])]

\* The list of the kept segments can be built up to any length.
LEMMA KeptExists ==
  ASSUME NEW S, NEW gone, NEW m \in Nat
  PROVE  \E f : KeptUpTo(f, S, gone, m)
<1> DEFINE bad == {k \in Nat : ~\E f : KeptUpTo(f, S, gone, k)}
<1>1. bad = {}
  <2> SUFFICES ASSUME bad # {} PROVE FALSE
    OBVIOUS
  <2>1. PICK k \in bad : \A n \in bad : k <= n
    <3>1. bad \in SUBSET Nat
      OBVIOUS
    <3> HIDE DEF bad
    <3> QED
      BY <3>1, Least
  <2>2. k \in Nat /\ ~\E f : KeptUpTo(f, S, gone, k)
    BY <2>1
  <2>3. CASE k = 0
    <3> DEFINE f == [i \in 0 .. 0 |-> <<>>]
    <3>1. KeptUpTo(f, S, gone, 0)
      BY DEF KeptUpTo
    <3> QED
      BY <2>2, <2>3, <3>1
  <2>4. CASE k # 0
    <3>1. k - 1 \in Nat /\ k - 1 \notin bad
      BY <2>1, <2>2, <2>4
    <3>2. PICK f : KeptUpTo(f, S, gone, k - 1)
      BY <3>1
    <3> DEFINE g == [i \in 0 .. k |-> IF i < k THEN f[i]
                       ELSE IF S[k] \in gone THEN f[k - 1] ELSE Append(f[k - 1], S[k])]
    <3>3. \A i \in 0 .. k : g[i] = IF i = 0 THEN <<>>
                              ELSE IF S[i] \in gone THEN g[i - 1] ELSE Append(g[i - 1], S[i])
      <4> SUFFICES ASSUME NEW i \in 0 .. k
                   PROVE  g[i] = IF i = 0 THEN <<>>
                                 ELSE IF S[i] \in gone THEN g[i - 1] ELSE Append(g[i - 1], S[i])
        OBVIOUS
      <4>1. CASE i < k
        <5>1. i \in 0 .. k - 1 /\ g[i] = f[i] /\ (i # 0 => i - 1 \in 0 .. k /\ i - 1 < k)
          BY <2>2, <4>1
        <5>2. i # 0 => g[i - 1] = f[i - 1]
          BY <5>1
        <5> HIDE DEF g
        <5> QED
          BY <3>2, <5>1, <5>2 DEF KeptUpTo
      <4>2. CASE i = k
        <5>1. k - 1 \in 0 .. k /\ k - 1 < k
          BY <2>2, <2>4
        <5>2. g[k - 1] = f[k - 1]
          BY <5>1
        <5> QED
          BY <2>2, <2>4, <4>2, <5>2
      <4> QED
        BY <2>2, <4>1, <4>2
    <3>4. KeptUpTo(g, S, gone, k)
      <4>1. g = [i \in 0 .. k |-> g[i]]
        OBVIOUS
      <4> HIDE DEF g
      <4> QED
        BY <3>3, <4>1 DEF KeptUpTo
    <3> QED
      BY <2>2, <3>4
  <2> QED
    BY <2>3, <2>4
<1> QED
  BY <1>1

\* It is what Kept returns.
LEMMA KeptIs ==
  ASSUME NEW S, NEW gone, Len(S) \in Nat
  PROVE  \E f : KeptUpTo(f, S, gone, Len(S)) /\ Kept(S, gone) = f[Len(S)]
<1> DEFINE f == CHOOSE f : KeptUpTo(f, S, gone, Len(S))
<1>1. KeptUpTo(f, S, gone, Len(S))
  BY KeptExists
<1>2. Kept(S, gone) = f[Len(S)]
  BY DEF Kept, KeptUpTo
<1> QED
  BY <1>1, <1>2

\* K lists the segments among the first n of S that are not gone, each once.
Lists(K, S, gone, n) ==
  /\ K \in Seq(Segment)
  /\ \A j \in DOMAIN K : \E i \in 1 .. n : K[j] = S[i] /\ S[i] \notin gone
  /\ \A i \in 1 .. n : S[i] \notin gone => \E j \in DOMAIN K : K[j] = S[i]
  /\ \A i, j \in DOMAIN K : i # j => K[i] # K[j]
  /\ n >= 1 /\ S[1] \notin gone => Len(K) >= 1 /\ K[1] = S[1]

\* The next segment is listed if it is kept.
LEMMA ListsMore ==
  ASSUME NEW S \in Seq(Segment), NEW gone, NEW n \in Nat, n + 1 <= Len(S),
         \A i, j \in DOMAIN S : i # j => S[i] # S[j], NEW K, Lists(K, S, gone, n)
  PROVE  /\ S[n + 1] \in gone => Lists(K, S, gone, n + 1)
         /\ S[n + 1] \notin gone => Lists(Append(K, S[n + 1]), S, gone, n + 1)
<1> DEFINE s == S[n + 1]
<1>1. s \in Segment /\ (\A i \in 1 .. n + 1 : i \in 1 .. n \/ i = n + 1)
      /\ (\A i \in 1 .. n : i \in 1 .. n + 1 /\ S[i] # s) /\ n + 1 \in 1 .. n + 1
  <2>1. n + 1 \in DOMAIN S /\ (\A i \in 1 .. n : i \in DOMAIN S /\ i # n + 1)
    OBVIOUS
  <2> QED
    BY <2>1
<1>2. /\ K \in Seq(Segment) /\ Len(K) \in Nat /\ DOMAIN K = 1 .. Len(K)
      /\ \A j \in DOMAIN K : \E i \in 1 .. n : K[j] = S[i] /\ S[i] \notin gone
      /\ \A i \in 1 .. n : S[i] \notin gone => \E j \in DOMAIN K : K[j] = S[i]
      /\ \A i, j \in DOMAIN K : i # j => K[i] # K[j]
      /\ n >= 1 /\ S[1] \notin gone => Len(K) >= 1 /\ K[1] = S[1]
  BY DEF Lists
<1>3. ASSUME s \in gone PROVE Lists(K, S, gone, n + 1)
  <2>1. n + 1 >= 1 /\ S[1] \notin gone => Len(K) >= 1 /\ K[1] = S[1]
    <3>1. CASE n = 0
      BY <1>3, <3>1
    <3>2. CASE n # 0
      BY <1>2, <3>2
    <3> QED
      BY <3>1, <3>2
  <2> HIDE DEF s
  <2>2. s = S[n + 1]
    BY DEF s
  <2>3. \A j \in DOMAIN K : \E i \in 1 .. n + 1 : K[j] = S[i] /\ S[i] \notin gone
    BY <1>1, <1>2
  <2>4. \A i \in 1 .. n + 1 : S[i] \notin gone => \E j \in DOMAIN K : K[j] = S[i]
    BY <1>1, <1>2, <1>3, <2>2
  <2> QED
    BY <1>2, <2>1, <2>3, <2>4 DEF Lists
<1>4. ASSUME s \notin gone PROVE Lists(Append(K, s), S, gone, n + 1)
  <2> DEFINE D == Append(K, s)
             l == Len(K) + 1
  <2>1. /\ D \in Seq(Segment) /\ Len(D) = l /\ DOMAIN D = 1 .. l /\ D[l] = s
        /\ \A j \in 1 .. Len(K) : D[j] = K[j]
    BY <1>1, <1>2
  <2>2. /\ \A j \in DOMAIN D : (j \in DOMAIN K /\ D[j] = K[j]) \/ (j = l /\ D[j] = s)
        /\ \A j \in DOMAIN K : j \in DOMAIN D /\ D[j] = K[j]
        /\ l \in DOMAIN D /\ D[l] = s
    BY <1>2, <2>1
  <2>3. n + 1 >= 1 /\ S[1] \notin gone => Len(D) >= 1 /\ D[1] = S[1]
    <3>1. CASE n = 0
      <4>1. \A j \in DOMAIN K : FALSE
        BY <1>2, <3>1
      <4>2. Len(K) = 0
        <5>1. ~(1 \in DOMAIN K)
          BY <4>1
        <5> QED
          BY <1>2, <5>1
      <4> QED
        BY <2>1, <3>1, <4>2
    <3>2. CASE n # 0
      BY <1>2, <2>1, <3>2
    <3> QED
      BY <3>1, <3>2
  <2> HIDE DEF D, l, s
  <2>a. s = S[n + 1]
    BY DEF s
  <2>4. \A j \in DOMAIN D : \E i \in 1 .. n + 1 : D[j] = S[i] /\ S[i] \notin gone
    BY <1>1, <1>2, <1>4, <2>2, <2>a
  <2>5. \A i \in 1 .. n + 1 : S[i] \notin gone => \E j \in DOMAIN D : D[j] = S[i]
    BY <1>1, <1>2, <2>2, <2>a
  <2>6. \A j \in DOMAIN K : K[j] # s
    BY <1>1, <1>2
  <2>7. \A i, j \in DOMAIN D : i # j => D[i] # D[j]
    BY <1>2, <2>2, <2>6
  <2>8. Lists(D, S, gone, n + 1)
    BY <2>1, <2>3, <2>4, <2>5, <2>7 DEF Lists
  <2> QED
    BY <2>8 DEF D
<1> QED
  BY <1>3, <1>4

\* The kept segments are listed once each and in their order.
LEMMA KeptLists ==
  ASSUME NEW S \in Seq(Segment), NEW gone, \A i, j \in DOMAIN S : i # j => S[i] # S[j],
         NEW K, K = Kept(S, gone)
  PROVE  Lists(K, S, gone, Len(S))
<1>1. PICK f : KeptUpTo(f, S, gone, Len(S)) /\ K = f[Len(S)]
  BY KeptIs
<1>2. /\ f[0] = <<>>
      /\ \A i \in 0 .. Len(S) : i # 0 =>
            f[i] = IF S[i] \in gone THEN f[i - 1] ELSE Append(f[i - 1], S[i])
  <2>1. 0 \in 0 .. Len(S)
    OBVIOUS
  <2>2. \A i \in 0 .. Len(S) :
            f[i] = IF i = 0 THEN <<>>
                   ELSE IF S[i] \in gone THEN f[i - 1] ELSE Append(f[i - 1], S[i])
    BY ONLY <1>1 DEF KeptUpTo
  <2> QED
    BY ONLY <2>1, <2>2
<1> DEFINE bad == {k \in Nat : k <= Len(S) /\ ~Lists(f[k], S, gone, k)}
<1>3. bad = {}
  <2> SUFFICES ASSUME bad # {} PROVE FALSE
    OBVIOUS
  <2>1. PICK k \in bad : \A n \in bad : k <= n
    <3>1. bad \in SUBSET Nat
      OBVIOUS
    <3> HIDE DEF bad
    <3> QED
      BY <3>1, Least
  <2>2. k \in Nat /\ k <= Len(S) /\ ~Lists(f[k], S, gone, k)
    BY <2>1
  <2>3. k # 0
    <3>1. Lists(<<>>, S, gone, 0)
      BY DEF Lists
    <3> QED
      BY <1>2, <2>2, <3>1
  <2>4. k - 1 \in Nat /\ k - 1 <= Len(S) /\ k - 1 \notin bad
    BY <2>1, <2>2, <2>3
  <2> DEFINE n == k - 1
  <2>5. n \in Nat /\ n + 1 = k /\ n + 1 <= Len(S) /\ Lists(f[n], S, gone, n)
    BY <2>2, <2>4
  <2>6. f[k] = IF S[k] \in gone THEN f[n] ELSE Append(f[n], S[k])
    BY <1>2, <2>2, <2>3
  <2> HIDE DEF n, bad
  <2>7. /\ S[n + 1] \in gone => Lists(f[n], S, gone, n + 1)
        /\ S[n + 1] \notin gone => Lists(Append(f[n], S[n + 1]), S, gone, n + 1)
    BY <2>5, ListsMore
  <2> QED
    BY <2>2, <2>5, <2>6, <2>7
<1>4. Len(S) \in Nat /\ Len(S) \notin bad
  BY <1>3
<1> QED
  BY <1>1, <1>4

\* What the same scan has given back.
ReleasedUpTo(f, S, gone, m) ==
  f = [i \in 0 .. m |-> IF i = 0 THEN 0
                        ELSE f[i - 1] + IF S[i] \in gone THEN S[i].size ELSE 0]

\* The sum of the released sizes can be built up to any length.
LEMMA ReleasedExists ==
  ASSUME NEW S, NEW gone, NEW m \in Nat
  PROVE  \E f : ReleasedUpTo(f, S, gone, m)
<1> DEFINE bad == {k \in Nat : ~\E f : ReleasedUpTo(f, S, gone, k)}
<1>1. bad = {}
  <2> SUFFICES ASSUME bad # {} PROVE FALSE
    OBVIOUS
  <2>1. PICK k \in bad : \A n \in bad : k <= n
    <3>1. bad \in SUBSET Nat
      OBVIOUS
    <3> HIDE DEF bad
    <3> QED
      BY <3>1, Least
  <2>2. k \in Nat /\ ~\E f : ReleasedUpTo(f, S, gone, k)
    BY <2>1
  <2>3. CASE k = 0
    <3> DEFINE f == [i \in 0 .. 0 |-> 0]
    <3>1. ReleasedUpTo(f, S, gone, 0)
      BY DEF ReleasedUpTo
    <3> QED
      BY <2>2, <2>3, <3>1
  <2>4. CASE k # 0
    <3>1. k - 1 \in Nat /\ k - 1 \notin bad
      BY <2>1, <2>2, <2>4
    <3>2. PICK f : ReleasedUpTo(f, S, gone, k - 1)
      BY <3>1
    <3> DEFINE g == [i \in 0 .. k |-> IF i < k THEN f[i]
                       ELSE f[k - 1] + IF S[k] \in gone THEN S[k].size ELSE 0]
    <3>3. \A i \in 0 .. k : g[i] = IF i = 0 THEN 0
                              ELSE g[i - 1] + IF S[i] \in gone THEN S[i].size ELSE 0
      <4> SUFFICES ASSUME NEW i \in 0 .. k
                   PROVE  g[i] = IF i = 0 THEN 0
                                 ELSE g[i - 1] + IF S[i] \in gone THEN S[i].size ELSE 0
        OBVIOUS
      <4>1. CASE i < k
        <5>1. i \in 0 .. k - 1 /\ g[i] = f[i] /\ (i # 0 => i - 1 \in 0 .. k /\ i - 1 < k)
          BY <2>2, <4>1
        <5>2. i # 0 => g[i - 1] = f[i - 1]
          BY <5>1
        <5> HIDE DEF g
        <5> QED
          BY <3>2, <5>1, <5>2 DEF ReleasedUpTo
      <4>2. CASE i = k
        <5>1. k - 1 \in 0 .. k /\ k - 1 < k
          BY <2>2, <2>4
        <5>2. g[k - 1] = f[k - 1]
          BY <5>1
        <5> QED
          BY <2>2, <2>4, <4>2, <5>2
      <4> QED
        BY <2>2, <4>1, <4>2
    <3>4. ReleasedUpTo(g, S, gone, k)
      <4>1. g = [i \in 0 .. k |-> g[i]]
        OBVIOUS
      <4> HIDE DEF g
      <4> QED
        BY <3>3, <4>1 DEF ReleasedUpTo
    <3> QED
      BY <2>2, <3>4
  <2> QED
    BY <2>3, <2>4
<1> QED
  BY <1>1

\* It is what Released returns.
LEMMA ReleasedIs ==
  ASSUME NEW S, NEW gone, Len(S) \in Nat
  PROVE  \E f : ReleasedUpTo(f, S, gone, Len(S)) /\ Released(S, gone) = f[Len(S)]
<1> DEFINE f == CHOOSE f : ReleasedUpTo(f, S, gone, Len(S))
<1>1. ReleasedUpTo(f, S, gone, Len(S))
  BY ReleasedExists
<1>2. Released(S, gone) = f[Len(S)]
  BY DEF Released, ReleasedUpTo
<1> QED
  BY <1>1, <1>2

\* The granules of the first n segments of S that are gone.
GoneUpTo(S, gone, n) == UNION {GranulesOf(S[i].base, S[i].size) : i \in {j \in 1 .. n : S[j] \in gone}}

\* What is given back is what the segments that are gone occupy.
Returns(S, gone, B, n, r) ==
  /\ r \in Nat
  /\ Granule * Cardinality(B) - r = Granule * Cardinality(B \ GoneUpTo(S, gone, n))

\* The next segment adds its size if it is released.
LEMMA ReturnsMore ==
  ASSUME NEW C, NEW S \in Seq(Segment), NEW B, NEW F, Lent(C, S, B, F), NEW gone,
         NEW n \in Nat, n + 1 <= Len(S), NEW r, Returns(S, gone, B, n, r)
  PROVE  /\ S[n + 1] \notin gone => Returns(S, gone, B, n + 1, r)
         /\ S[n + 1] \in gone => Returns(S, gone, B, n + 1, r + S[n + 1].size)
<1> DEFINE P(i) == GranulesOf(S[i].base, S[i].size)
           m == n + 1
           R == GoneUpTo(S, gone, n)
           Q == GoneUpTo(S, gone, m)
<1>1. /\ B \subseteq Space
      /\ \A i \in DOMAIN S : Whole(S[i].base) /\ Whole(S[i].size) /\ P(i) \subseteq B
      /\ \A i, j \in DOMAIN S : i # j => P(i) \cap P(j) = {}
  BY DEF Lent
<1>2. /\ m \in DOMAIN S /\ \A i \in 1 .. n : i \in DOMAIN S /\ i # m
      /\ \A i \in 1 .. m : i \in 1 .. n \/ i = m
      /\ \A i \in 1 .. n : i \in 1 .. m
      /\ m \in 1 .. m
  OBVIOUS
<1>3. /\ \A x : x \in R <=> \E i \in 1 .. n : S[i] \in gone /\ x \in P(i)
      /\ \A x : x \in Q <=> \E i \in 1 .. m : S[i] \in gone /\ x \in P(i)
  BY DEF GoneUpTo
<1> HIDE DEF P, Q, R, m
<1>4. S[m] \notin gone => Q = R
  BY <1>2, <1>3
<1>5. S[m] \in gone => Q = R \cup P(m)
  BY <1>2, <1>3
<1>6. P(m) \subseteq B \ R
  BY <1>1, <1>2, <1>3
<1>7. r \in Nat /\ Granule * Cardinality(B) - r = Granule * Cardinality(B \ R)
  BY DEF Returns, R
<1>8. ASSUME S[m] \in gone PROVE Returns(S, gone, B, m, r + S[m].size)
  <2> DEFINE E == B \ R
             s == S[m].size
  <2>1. E \subseteq Space /\ Whole(S[m].base) /\ Whole(s) /\ GranulesOf(S[m].base, s) \subseteq E
    BY <1>1, <1>2, <1>6 DEF P
  <2> HIDE DEF E, s
  <2>2. /\ Granule * Cardinality(E) - s = Granule * Cardinality(E \ GranulesOf(S[m].base, s))
        /\ Granule * Cardinality(E) \in Nat /\ s \in Nat \ {0}
        /\ Granule * Cardinality(E) - s \in Nat
    BY <2>1, LessBacked
  <2>3. E \ GranulesOf(S[m].base, s) = B \ Q
    BY <1>5, <1>8 DEF E, s, P
  <2>4. Granule * Cardinality(B) \in Nat
    <3>1. Cardinality(B) \in Nat
      BY <1>1, HeapAssumption, FS_Subset, FS_CardinalityType
    <3> QED
      BY <3>1, HeapAssumption
  <2>5. Granule * Cardinality(B) - r = Granule * Cardinality(E)
    BY <1>7 DEF E
  <2>6. Granule * Cardinality(B) - (r + s) = Granule * Cardinality(B \ Q)
    <3> DEFINE x == Granule * Cardinality(B)
               y == Granule * Cardinality(E)
               z == Granule * Cardinality(B \ Q)
    <3>1. x \in Nat /\ y \in Nat /\ s \in Nat /\ r \in Nat /\ x - r = y /\ y - s = z
      BY <1>7, <2>2, <2>3, <2>4, <2>5
    <3> HIDE DEF x, y, z
    <3>2. x - (r + s) = z
      BY ONLY <3>1
    <3> QED
      BY <3>2 DEF x, z
  <2> QED
    BY <1>7, <2>2, <2>6 DEF Returns, Q, s
<1>9. ASSUME S[m] \notin gone PROVE Returns(S, gone, B, m, r)
  BY <1>4, <1>7, <1>9 DEF Returns, Q, R
<1> QED
  BY <1>8, <1>9 DEF m

\* The released size counts the granules of the released segments.
LEMMA ReleasedReturns ==
  ASSUME NEW C, NEW S \in Seq(Segment), NEW B, NEW F, Lent(C, S, B, F), NEW gone,
         NEW r, r = Released(S, gone)
  PROVE  Returns(S, gone, B, Len(S), r)
<1>1. PICK f : ReleasedUpTo(f, S, gone, Len(S)) /\ r = f[Len(S)]
  BY ReleasedIs
<1>2. /\ f[0] = 0
      /\ \A i \in 0 .. Len(S) : i # 0 =>
            f[i] = f[i - 1] + IF S[i] \in gone THEN S[i].size ELSE 0
  <2>1. 0 \in 0 .. Len(S)
    OBVIOUS
  <2>2. \A i \in 0 .. Len(S) :
            f[i] = IF i = 0 THEN 0
                   ELSE f[i - 1] + IF S[i] \in gone THEN S[i].size ELSE 0
    BY ONLY <1>1 DEF ReleasedUpTo
  <2> QED
    BY ONLY <2>1, <2>2
<1> DEFINE bad == {k \in Nat : k <= Len(S) /\ ~Returns(S, gone, B, k, f[k])}
<1>3. bad = {}
  <2> SUFFICES ASSUME bad # {} PROVE FALSE
    OBVIOUS
  <2>1. PICK k \in bad : \A n \in bad : k <= n
    <3>1. bad \in SUBSET Nat
      OBVIOUS
    <3> HIDE DEF bad
    <3> QED
      BY <3>1, Least
  <2>2. k \in Nat /\ k <= Len(S) /\ ~Returns(S, gone, B, k, f[k])
    BY <2>1
  <2>3. k # 0
    <3>1. GoneUpTo(S, gone, 0) = {}
      BY DEF GoneUpTo
    <3>2. Granule * Cardinality(B) - 0 = Granule * Cardinality(B \ {})
      <4>1. B \ {} = B /\ Cardinality(B) \in Nat
        BY HeapAssumption, FS_Subset, FS_CardinalityType DEF Lent
      <4>2. Granule * Cardinality(B) \in Nat
        BY <4>1, HeapAssumption
      <4> QED
        BY <4>1, <4>2
    <3> QED
      BY <1>2, <2>2, <3>1, <3>2 DEF Returns
  <2>4. k - 1 \in Nat /\ k - 1 <= Len(S) /\ k - 1 \notin bad
    BY <2>1, <2>2, <2>3
  <2> DEFINE n == k - 1
  <2>5. n \in Nat /\ n + 1 = k /\ n + 1 <= Len(S) /\ Returns(S, gone, B, n, f[n])
    BY <2>2, <2>4
  <2>6. f[k] = f[n] + IF S[k] \in gone THEN S[k].size ELSE 0
    BY <1>2, <2>2, <2>3
  <2> HIDE DEF n, bad
  <2>7. /\ S[n + 1] \notin gone => Returns(S, gone, B, n + 1, f[n])
        /\ S[n + 1] \in gone => Returns(S, gone, B, n + 1, f[n] + S[n + 1].size)
    BY <2>5, ReturnsMore
  <2>8. f[n] \in Nat
    BY <2>5 DEF Returns
  <2> QED
    BY <2>2, <2>5, <2>6, <2>7, <2>8
<1>4. Len(S) \in Nat /\ Len(S) \notin bad
  BY <1>3
<1> QED
  BY <1>1, <1>4

\* The chunks of an unused segment are the free one at its base and its record.
LEMMA UnusedSegment ==
  ASSUME NEW h, NEW L, Sound(h, L, {}), NEW s \in Unused(h)
  PROVE  /\ \E i \in DOMAIN h.segs : i # 1 /\ h.segs[i] = s
         /\ \A a \in DOMAIN h.chunk : Holds(s, a) <=> a = s.base \/ a = s.rec
         /\ s.base \in Idle_(h.chunk) /\ s.base # h.top /\ h.chunk[s.base].size >= SmallLimit
         /\ s.base \notin L /\ s.rec \notin L /\ s.base # h.state /\ s.rec # h.state
         /\ s.rec \notin Idle_(h.chunk) /\ s.base # 0
         /\ \A n \in SmallSizes : s.base \notin Range(h.small[n])
<1> DEFINE S == h.segs
           C == h.chunk
           b == s.base
           r == s.rec
<1>1. /\ Shape(C, S, h.top, h.state) /\ Owned(C, S, h.state, L) /\ Segments(S) /\ Heads(C)
      /\ Apart(C) /\ S \in Seq(Segment)
  BY DEF Sound, Shape, Segments
<1>2. /\ s \in Range(Tail(S)) /\ ~InUse(C[b]) /\ b + C[b].size >= End(s) - TopFoot
  BY DEF Unused, SizeOf
<1>3. PICK k \in DOMAIN Tail(S) : s = Tail(S)[k]
  BY <1>2 DEF Range
<1>4. PICK i \in DOMAIN S : i # 1 /\ S[i] = s /\ i \in 2 .. Len(S)
  <2>1. Len(S) \in Nat /\ Len(S) >= 1 /\ S # <<>>
    BY <1>1 DEF Segments
  <2>2. k \in 1 .. Len(S) - 1 /\ Tail(S)[k] = S[k + 1]
    BY <1>1, <1>3, <2>1
  <2>3. k + 1 \in DOMAIN S /\ k + 1 # 1 /\ k + 1 \in 2 .. Len(S)
    BY <1>1, <2>1, <2>2
  <2> QED
    BY <1>3, <2>2, <2>3
<1>5. /\ b \in Nat /\ b > 0 /\ s.size \in Nat /\ r \in Nat /\ End(s) = b + s.size /\ s.size > 0
      /\ S[i].base = b /\ S[i].rec = r
  BY <1>1, <1>4, SegmentFields
<1>6. /\ b \in InHeap(C) /\ C[b].pin /\ b \in DOMAIN C /\ C[b].size \in Nat /\ Holds(s, b)
  <2>1. b \in InHeap(C) /\ C[b].pin
    BY <1>1, <1>4 DEF Shape
  <2>2. b \in DOMAIN C
    BY <2>1 DEF InHeap
  <2> QED
    BY <1>1, <1>5, <2>1, <2>2, ChunkFields DEF Holds
<1>7. /\ r \in InHeap(C) /\ r \in DOMAIN C /\ Holds(s, r) /\ r # h.state /\ C[r].cin
      /\ r + TopFoot <= End(s) /\ C[h.state].cin
  BY <1>1, <1>4, <1>5 DEF Shape, Ends, InHeap
<1>8. ~C[b].cin /\ b \in Idle_(C) /\ b # r /\ b # h.state /\ r \notin Idle_(C)
  BY <1>2, <1>6, <1>7 DEF InUse, Idle_
<1>9. b # h.top
  <2>1. Holds(S[1], h.top) /\ 1 \in DOMAIN S
    BY TopFields
  <2> QED
    BY <1>1, <1>4, <1>5, <1>6, <2>1, OneSegment
<1>10. b \notin L /\ r \notin L
  <2>1. r \in Records_(S)
    BY <1>4 DEF Records_
  <2> QED
    BY <1>1, <1>6, <1>8, <2>1 DEF Owned
<1>11. LastOf(S, i, h.top) = r
  BY <1>4 DEF LastOf
<1>12. b + C[b].size \in InHeap(C) /\ Holds(s, b + C[b].size)
  BY <1>1, <1>4, <1>6, <1>8, <1>11 DEF Shape, Linked
<1>13. b + C[b].size = r
  <2>1. b + C[b].size <= r
    BY <1>1, <1>4, <1>11, <1>12 DEF Shape, Linked
  <2>2. TopFoot \in Nat
    BY Numbers
  <2>3. /\ b \in Nat /\ s.size \in Nat /\ C[b].size \in Nat /\ End(s) = b + s.size /\ r \in Nat
        /\ b + C[b].size >= End(s) - TopFoot /\ r + TopFoot <= End(s)
    BY <1>2, <1>5, <1>6, <1>7
  <2> HIDE DEF b, C, r
  <2> QED
    BY ONLY <2>1, <2>2, <2>3, SMTT(30)
<1>14. \A a \in DOMAIN C : Holds(s, a) <=> a = b \/ a = r
  <2> SUFFICES ASSUME NEW a \in DOMAIN C, Holds(s, a) PROVE a = b \/ a = r
    BY <1>6, <1>7
  <2>1. a \in InHeap(C) /\ a \in Nat
    BY <1>1, <1>4, ChunkFields DEF Shape
  <2>2. a <= r
    BY <1>1, <1>4, <1>11, <2>1 DEF Shape, Linked
  <2>3. b <= a
    BY DEF Holds
  <2>4. b < a => r <= a
    BY <1>1, <1>6, <1>13 DEF Apart
  <2> QED
    BY <1>5, <2>1, <2>2, <2>3, <2>4
<1>15. C[b].size >= SmallLimit
  <2>1. s.size >= Granule
    <3>1. Whole(s.size)
      BY <1>4 DEF Sound, Lent
    <3>2. PICK m \in Nat \ {0} : s.size = m * Granule
      BY <3>1 DEF Whole
    <3>3. 1 * Granule <= m * Granule
      BY Products, Numbers
    <3> QED
      BY <3>2, <3>3, Numbers
  <2>2. Granule >= SmallLimit + TopFoot /\ Granule \in Nat /\ SmallLimit \in Nat /\ TopFoot \in Nat
    BY HeapAssumption, Numbers
  <2>3. /\ b \in Nat /\ s.size \in Nat /\ C[b].size \in Nat /\ End(s) = b + s.size
        /\ b + C[b].size >= End(s) - TopFoot
    BY <1>2, <1>5, <1>6
  <2> HIDE DEF b, C
  <2> QED
    BY ONLY <2>1, <2>2, <2>3
<1>16. \A n \in SmallSizes : b \notin Range(h.small[n])
  <2> SUFFICES ASSUME NEW n \in SmallSizes, b \in Range(h.small[n]) PROVE FALSE
    OBVIOUS
  <2>1. C[b].size = n
    BY DEF Sound, Placed
  <2>2. n < SmallLimit /\ n \in Nat /\ SmallLimit \in Nat
    BY HeapAssumption DEF SmallSizes, MinChunk
  <2> QED
    BY <1>15, <2>1, <2>2
<1> QED
  BY <1>4, <1>5, <1>7, <1>8, <1>9, <1>10, <1>14, <1>15, <1>16

\* K is the list of the segments of S that are not gone, the first of them in front.
Drops(S, K, gone) ==
  /\ Segments(K)
  /\ \A j \in DOMAIN K : \E i \in DOMAIN S : K[j] = S[i] /\ S[i] \notin gone /\ (j = 1 <=> i = 1)
  /\ \A i \in DOMAIN S : S[i] \notin gone => \E j \in DOMAIN K : K[j] = S[i] /\ (j = 1 <=> i = 1)
  /\ \A i, j \in DOMAIN K : i # j => K[i] # K[j]

\* D is what C has outside the segments that are gone.
Leaves(C, D, S, gone) ==
  /\ Heads(D) /\ DOMAIN D \subseteq DOMAIN C
  /\ \A a \in DOMAIN D : D[a] = C[a] /\ \A i \in DOMAIN S : Holds(S[i], a) => S[i] \notin gone
  /\ \A a \in DOMAIN C : a \in DOMAIN D \/ \E i \in DOMAIN S : Holds(S[i], a) /\ S[i] \in gone

\* Distinct segments hold nothing in common.
LEMMA KeptChunk ==
  ASSUME NEW C, NEW D, NEW S, NEW gone, Leaves(C, D, S, gone), Segments(S), Heads(C),
         NEW i \in DOMAIN S, S[i] \notin gone, NEW a \in DOMAIN C, Holds(S[i], a)
  PROVE  a \in DOMAIN D /\ D[a] = C[a]
<1>1. a \in Nat
  BY ChunkFields
<1>2. \A j \in DOMAIN S : Holds(S[j], a) => j = i
  BY <1>1, OneSegment
<1> QED
  BY <1>2 DEF Leaves

\* The segments that stay are laid out as they were.
LEMMA ShapeDropped ==
  ASSUME NEW C, NEW S, NEW top, NEW state, Shape(C, S, top, state), NEW D, NEW K, NEW gone,
         Drops(S, K, gone), Leaves(C, D, S, gone), 1 \in DOMAIN S, S[1] \notin gone,
         \A i \in DOMAIN S : Holds(S[i], state) => S[i] \notin gone
  PROVE  Shape(D, K, top, state)
<1>1. /\ Heads(C) /\ Apart(C) /\ Segments(S) /\ Heads(D) /\ Segments(K)
      /\ Ends(C, S, top, state) /\ Linked(C, S, top, state)
  BY DEF Shape, Leaves, Drops
<1>2. \A a \in DOMAIN D : a \in DOMAIN C /\ D[a] = C[a]
  BY DEF Leaves
<1>3. ASSUME NEW i \in DOMAIN S, S[i] \notin gone, NEW a \in DOMAIN C, Holds(S[i], a)
      PROVE  a \in DOMAIN D /\ D[a] = C[a]
  BY <1>1, <1>3, KeptChunk
<1>4. ASSUME NEW i \in DOMAIN S, S[i] \notin gone, NEW a \in InHeap(C), Holds(S[i], a)
      PROVE  a \in InHeap(D) /\ D[a] = C[a]
  BY <1>3, <1>4 DEF InHeap
<1>5. \A a \in InHeap(D) : a \in InHeap(C) /\ D[a] = C[a]
  BY <1>2 DEF InHeap
<1>6. Apart(D)
  BY <1>1, <1>2 DEF Apart
<1>7. ASSUME NEW j \in DOMAIN K
      PROVE  K[j].base \in InHeap(D) /\ D[K[j].base].pin
  <2>1. PICK i \in DOMAIN S : K[j] = S[i] /\ S[i] \notin gone
    BY DEF Drops
  <2>2. S[i].base \in InHeap(C) /\ C[S[i].base].pin
    BY DEF Shape
  <2>3. Holds(S[i], S[i].base)
    BY <1>1, SegmentFields DEF Holds
  <2> QED
    BY <1>4, <2>1, <2>2, <2>3
<1>8. ASSUME NEW a \in DOMAIN D
      PROVE  (\E j \in DOMAIN K : Holds(K[j], a)) <=> a \in InHeap(D)
  <2>1. a \in InHeap(D) <=> a \in InHeap(C)
    BY <1>2 DEF InHeap
  <2>2. a \in InHeap(C) <=> \E i \in DOMAIN S : Holds(S[i], a)
    BY <1>2 DEF Shape
  <2>3. ASSUME NEW j \in DOMAIN K, Holds(K[j], a) PROVE \E i \in DOMAIN S : Holds(S[i], a)
    BY <2>3 DEF Drops
  <2>4. ASSUME NEW i \in DOMAIN S, Holds(S[i], a) PROVE \E j \in DOMAIN K : Holds(K[j], a)
    <3>1. S[i] \notin gone
      BY <2>4 DEF Leaves
    <3> QED
      BY <2>4, <3>1 DEF Drops
  <2> QED
    BY <2>1, <2>2, <2>3, <2>4
<1>9. 1 \in DOMAIN K /\ K[1] = S[1]
  BY DEF Drops
<1>10. ASSUME NEW j \in DOMAIN K
       PROVE  \E i \in DOMAIN S : K[j] = S[i] /\ S[i] \notin gone /\ LastOf(K, j, top) = LastOf(S, i, top)
                                  /\ (j = 1 <=> i = 1)
  BY DEF Drops, LastOf
<1>11. Ends(D, K, top, state)
  <2>1. top \in InHeap(D) /\ D[top] = C[top]
    BY <1>1, <1>4 DEF Ends
  <2>2. state \in InHeap(D) /\ D[state] = C[state]
    <3>1. state \in InHeap(C) /\ state \in DOMAIN C
      BY <1>1 DEF Ends, InHeap
    <3>2. PICK i \in DOMAIN S : Holds(S[i], state)
      BY <3>1 DEF Shape
    <3> QED
      BY <1>4, <3>1, <3>2
  <2>3. ASSUME NEW j \in 2 .. Len(K)
        PROVE  /\ K[j].rec \in InHeap(D) /\ Holds(K[j], K[j].rec) /\ K[j].rec # state
               /\ D[K[j].rec].cin /\ D[K[j].rec].size = SegmentChunk
               /\ K[j].rec + TopFoot <= End(K[j])
    <3>1. j \in DOMAIN K /\ j # 1
      BY <1>1 DEF Segments
    <3>2. PICK i \in DOMAIN S : K[j] = S[i] /\ S[i] \notin gone /\ i # 1
      BY <1>10, <3>1
    <3>3. i \in 2 .. Len(S)
      BY <1>1, <3>2, SegmentFields
    <3>4. /\ S[i].rec \in InHeap(C) /\ Holds(S[i], S[i].rec) /\ S[i].rec # state
          /\ C[S[i].rec].cin /\ C[S[i].rec].size = SegmentChunk
          /\ S[i].rec + TopFoot <= End(S[i])
      BY <1>1, <3>3 DEF Ends
    <3>5. S[i].rec \in InHeap(D) /\ D[S[i].rec] = C[S[i].rec]
      BY <1>4, <3>2, <3>4
    <3> QED
      BY <3>2, <3>4, <3>5
  <2> QED
    BY <1>1, <1>9, <2>1, <2>2, <2>3 DEF Ends
<1>12. Linked(D, K, top, state)
  <2> SUFFICES ASSUME NEW j \in DOMAIN K, NEW a \in InHeap(D), Holds(K[j], a)
               PROVE  /\ a <= LastOf(K, j, top)
                      /\ a # LastOf(K, j, top) =>
                          /\ D[a].size >= MinChunk
                          /\ a + D[a].size \in InHeap(D) /\ Holds(K[j], a + D[a].size)
                          /\ Tells(D, a, a + D[a].size, state)
                      /\ a # K[j].base => \E b \in InHeap(D) : b + D[b].size = a /\ Holds(K[j], b)
    BY DEF Linked
  <2>1. PICK i \in DOMAIN S : K[j] = S[i] /\ S[i] \notin gone /\ LastOf(K, j, top) = LastOf(S, i, top)
    BY <1>10
  <2>2. a \in InHeap(C) /\ D[a] = C[a] /\ Holds(S[i], a)
    BY <1>5, <2>1
  <2>3. /\ a <= LastOf(S, i, top)
        /\ a # LastOf(S, i, top) =>
            /\ C[a].size >= MinChunk
            /\ a + C[a].size \in InHeap(C) /\ Holds(S[i], a + C[a].size)
            /\ Tells(C, a, a + C[a].size, state)
        /\ a # S[i].base => \E b \in InHeap(C) : b + C[b].size = a /\ Holds(S[i], b)
    BY <1>1, <2>2 DEF Linked
  <2>4. a # LastOf(S, i, top) => a + C[a].size \in InHeap(D) /\ D[a + C[a].size] = C[a + C[a].size]
    BY <1>4, <2>1, <2>3
  <2>5. a # S[i].base => \E b \in InHeap(D) : b + D[b].size = a /\ Holds(S[i], b)
    BY <1>4, <2>1, <2>3
  <2> QED
    BY <2>1, <2>2, <2>3, <2>4, <2>5 DEF Tells
<1> QED
  BY <1>1, <1>6, <1>7, <1>8, <1>11, <1>12 DEF Shape

\* Without the segments that are gone the account of what the system has lent stays right.
LEMMA LentDropped ==
  ASSUME NEW C, NEW S, NEW B, NEW F, Lent(C, S, B, F), NEW D, NEW K, NEW gone, Segments(S),
         Drops(S, K, gone), Maps(D) = Maps(C), \A a \in Maps(C) : D[a] = C[a], gone \subseteq Range(S),
         NEW E, E = B \ UNION {GranulesOf(s.base, s.size) : s \in gone},
         NEW G, G = F - Released(S, gone)
  PROVE  Lent(D, K, E, G) /\ E \subseteq B /\ G <= F
<1> DEFINE P(i) == GranulesOf(S[i].base, S[i].size)
           Q(i) == GranulesOf(K[i].base, K[i].size)
           M(a) == GranulesOf(MapBase(C, a), MapLength(C, a))
           r == Released(S, gone)
<1>1. /\ B \subseteq Space /\ F = Granule * Cardinality(B) /\ S \in Seq(Segment) /\ Len(S) \in Nat
      /\ \A i \in DOMAIN S : Whole(S[i].base) /\ Whole(S[i].size) /\ P(i) \subseteq B
      /\ \A i, k \in DOMAIN S : i # k => P(i) \cap P(k) = {}
      /\ \A a \in Maps(C) : Whole(MapBase(C, a)) /\ Whole(MapLength(C, a)) /\ M(a) \subseteq B
                            /\ \A i \in DOMAIN S : M(a) \cap P(i) = {}
      /\ \A a, c \in Maps(C) : a # c => M(a) \cap M(c) = {}
  <2>1. S \in Seq(Segment) /\ Len(S) \in Nat
    BY DEF Segments
  <2>2. /\ B \subseteq Space /\ F = Granule * Cardinality(B)
        /\ \A i \in DOMAIN S : Whole(S[i].base) /\ Whole(S[i].size) /\ P(i) \subseteq B
        /\ \A i, k \in DOMAIN S : i # k => P(i) \cap P(k) = {}
        /\ \A a \in Maps(C) : Whole(MapBase(C, a)) /\ Whole(MapLength(C, a)) /\ M(a) \subseteq B
                              /\ \A i \in DOMAIN S : M(a) \cap P(i) = {}
        /\ \A a, c \in Maps(C) : a # c => M(a) \cap M(c) = {}
    BY DEF Lent
  <2> QED
    BY <2>1, <2>2
<1>2. \A x : x \in E <=> x \in B /\ \A i \in DOMAIN S : S[i] \in gone => x \notin P(i)
  <2>1. \A x : x \in UNION {GranulesOf(s.base, s.size) : s \in gone}
                <=> \E i \in DOMAIN S : S[i] \in gone /\ x \in P(i)
    BY DEF Range
  <2> QED
    BY <2>1
<1>3. GoneUpTo(S, gone, Len(S)) = UNION {GranulesOf(s.base, s.size) : s \in gone}
  <2>1. DOMAIN S = 1 .. Len(S)
    BY <1>1
  <2>2. \A x : x \in GoneUpTo(S, gone, Len(S)) <=> \E i \in DOMAIN S : S[i] \in gone /\ x \in P(i)
    BY <2>1 DEF GoneUpTo
  <2>3. \A x : x \in UNION {GranulesOf(s.base, s.size) : s \in gone}
                <=> \E i \in DOMAIN S : S[i] \in gone /\ x \in P(i)
    BY DEF Range
  <2> QED
    BY <2>2, <2>3
<1>4. r \in Nat /\ Granule * Cardinality(B) - r = Granule * Cardinality(E)
  <2>1. Returns(S, gone, B, Len(S), r)
    BY <1>1, ReleasedReturns
  <2> QED
    BY <1>3, <2>1 DEF Returns
<1>5. F \in Nat
  <2>1. Cardinality(B) \in Nat
    BY <1>1, HeapAssumption, FS_Subset, FS_CardinalityType
  <2> QED
    BY <1>1, <2>1, HeapAssumption
<1> HIDE DEF r
<1>6. G = Granule * Cardinality(E) /\ G <= F /\ E \subseteq B
  <2>1. G = F - r
    BY DEF r
  <2>2. G <= F
    BY <1>4, <1>5, <2>1
  <2> QED
    BY <1>1, <1>4, <2>1, <2>2
<1>7. \A j \in DOMAIN K : \E i \in DOMAIN S : K[j] = S[i] /\ S[i] \notin gone /\ Q(j) = P(i)
  BY DEF Drops
<1>8. \A a \in Maps(C) : MapBase(D, a) = MapBase(C, a) /\ MapLength(D, a) = MapLength(C, a)
  BY DEF MapBase, MapLength
<1>9. \A a \in Maps(C) : GranulesOf(MapBase(D, a), MapLength(D, a)) = M(a)
  BY <1>8
<1> HIDE DEF M
<1>10. ASSUME NEW j \in DOMAIN K PROVE Whole(K[j].base) /\ Whole(K[j].size) /\ Q(j) \subseteq E
  <2>1. PICK i \in DOMAIN S : K[j] = S[i] /\ S[i] \notin gone /\ Q(j) = P(i)
    BY <1>7
  <2>2. \A k \in DOMAIN S : S[k] \in gone => k # i
    BY <2>1
  <2> HIDE DEF P, Q
  <2>3. P(i) \subseteq E
    BY <1>1, <1>2, <2>2
  <2> QED
    BY <1>1, <2>1, <2>3
<1>11. ASSUME NEW j \in DOMAIN K, NEW k \in DOMAIN K, j # k PROVE Q(j) \cap Q(k) = {}
  <2>1. PICK i \in DOMAIN S : K[j] = S[i] /\ Q(j) = P(i)
    BY <1>7
  <2>2. PICK m \in DOMAIN S : K[k] = S[m] /\ Q(k) = P(m)
    BY <1>7
  <2>3. i # m
    BY <1>11, <2>1, <2>2 DEF Drops
  <2> HIDE DEF P, Q
  <2> QED
    BY <1>1, <2>1, <2>2, <2>3
<1>12. ASSUME NEW a \in Maps(C), NEW j \in DOMAIN K PROVE M(a) \cap Q(j) = {}
  <2>1. PICK i \in DOMAIN S : K[j] = S[i] /\ Q(j) = P(i)
    BY <1>7
  <2> HIDE DEF P, Q
  <2> QED
    BY <1>1, <2>1
<1>13. ASSUME NEW a \in Maps(C) PROVE M(a) \subseteq E
  <2> HIDE DEF P, Q
  <2> QED
    BY <1>1, <1>2
<1> HIDE DEF P
<1>14. \A a \in Maps(D) : /\ Whole(MapBase(D, a)) /\ Whole(MapLength(D, a))
                          /\ GranulesOf(MapBase(D, a), MapLength(D, a)) \subseteq E
                          /\ \A j \in DOMAIN K :
                               GranulesOf(MapBase(D, a), MapLength(D, a)) \cap Q(j) = {}
  BY <1>1, <1>8, <1>9, <1>12, <1>13
<1>15. \A a, b \in Maps(D) : a # b =>
          GranulesOf(MapBase(D, a), MapLength(D, a)) \cap GranulesOf(MapBase(D, b), MapLength(D, b)) = {}
  BY <1>1, <1>9
<1>16. E \subseteq Space
  BY <1>1, <1>6
<1> QED
  BY <1>6, <1>10, <1>11, <1>14, <1>15, <1>16 DEF Lent

\* There are no more segments than granules.
LEMMA SegmentsCounted ==
  ASSUME NEW C, NEW S, NEW B, NEW F, Lent(C, S, B, F), Segments(S)
  PROVE  Len(S) <= Cardinality(Space) /\ Cardinality(Space) \in Nat
<1> DEFINE f == [i \in DOMAIN S |-> S[i].base \div Granule]
           P(i) == GranulesOf(S[i].base, S[i].size)
<1>1. /\ B \subseteq Space
      /\ \A i \in DOMAIN S : Whole(S[i].base) /\ Whole(S[i].size) /\ P(i) \subseteq B
      /\ \A i, k \in DOMAIN S : i # k => P(i) \cap P(k) = {}
  BY DEF Lent
<1>2. Len(S) \in Nat /\ DOMAIN S = 1 .. Len(S)
  BY DEF Segments
<1>3. ASSUME NEW i \in DOMAIN S PROVE f[i] \in P(i)
  <2>1. PICK k \in Nat \ {0}, m \in Nat \ {0} :
            /\ S[i].base = k * Granule /\ P(i) = k .. (k + m - 1)
    <3>1. Whole(S[i].base) /\ Whole(S[i].size)
      BY <1>1
    <3>2. PICK k \in Nat \ {0}, m \in Nat \ {0} :
              /\ S[i].base = k * Granule /\ GranulesOf(S[i].base, S[i].size) = k .. (k + m - 1)
      BY <3>1, GranulesAre
    <3> QED
      BY <3>2
  <2>2. S[i].base \div Granule = k
    BY <2>1, Quotient, Numbers
  <2>3. k \in k .. (k + m - 1)
    OBVIOUS
  <2> QED
    BY <2>1, <2>2, <2>3
<1> HIDE DEF P
<1>4. f \in [DOMAIN S -> Space]
  BY <1>1, <1>3
<1>5. \A i, k \in DOMAIN S : f[i] = f[k] => i = k
  <2> HIDE DEF f
  <2> QED
    BY <1>1, <1>3
<1> HIDE DEF f
<1>6. f \in Injection(DOMAIN S, Space)
  BY <1>4, <1>5, Fun_IsInj
<1>7. IsFiniteSet(Space)
  BY HeapAssumption
<1>8. Cardinality(DOMAIN S) <= Cardinality(Space)
  BY <1>6, <1>7, FS_Injection
<1>9. Cardinality(1 .. Len(S)) = Len(S)
  <2>1. 1 \in Int /\ Len(S) \in Int
    BY <1>2
  <2>2. Cardinality(1 .. Len(S)) = IF 1 > Len(S) THEN 0 ELSE Len(S) - 1 + 1
    BY <2>1, FS_Interval
  <2> QED
    BY <1>2, <2>2
<1> QED
  BY <1>2, <1>7, <1>8, <1>9, FS_CardinalityType

\* The firsts are the free chunks of the unused segments; those of the segments that are
\* gone leave the space, the others become chunks of the trees.
Vacates(C, D, small, top, firsts, bases) ==
  /\ bases \subseteq firsts /\ firsts \subseteq Idle_(C) \ {top}
  /\ \A a \in firsts : C[a].size >= SmallLimit /\ \A n \in SmallSizes : a \notin Range(small[n])
  /\ Idle_(D) = Idle_(C) \ bases /\ \A a \in Idle_(D) : D[a] = C[a]

\* The free chunks that stay are placed where they were, or in the tree.
LEMMA PlacedDropped ==
  ASSUME NEW C, NEW small, NEW tree, NEW dv, NEW top, Placed(C, small, tree, dv, top, {}), dv \in Nat,
         DOMAIN C \subseteq Nat \ {0},
         NEW D, NEW firsts, NEW bases, Vacates(C, D, small, top, firsts, bases),
         NEW kin, kin = (tree \cup firsts) \ bases, NEW v, v = IF dv \in firsts THEN 0 ELSE dv
  PROVE  Placed(D, small, kin, v, top, {})
<1> USE DEF Vacates
<1>1. /\ Idle_(C) = {top} \cup Binned_(small, tree) \cup ({dv} \ {0})
      /\ top # dv /\ {top, dv} \cap Binned_(small, tree) = {}
      /\ small \in [SmallSizes -> Seq(Nat)]
      /\ \A n \in SmallSizes :
          /\ \A i, j \in DOMAIN small[n] : small[n][i] = small[n][j] => i = j
          /\ \A a \in Range(small[n]) : C[a].size = n
      /\ \A a \in tree : C[a].size >= SmallLimit
  BY DEF Placed
<1>2. Binned_(small, kin) = (Binned_(small, tree) \cup firsts) \ bases
  <2>1. \A a : a \in bases => \A n \in SmallSizes : a \notin Range(small[n])
    OBVIOUS
  <2> QED
    BY <2>1, BinnedHas
<1>3. Idle_(C) \subseteq Nat \ {0}
  BY DEF Idle_
<1>4. top \in Nat \ {0} /\ Binned_(small, tree) \subseteq Nat \ {0}
  BY <1>1, <1>3
<1> DEFINE I == Idle_(C)
           J == Idle_(D)
           N == Binned_(small, tree)
           M == Binned_(small, kin)
<1>a. /\ I = {top} \cup N \cup ({dv} \ {0}) /\ top # dv /\ {top, dv} \cap N = {}
      /\ M = (N \cup firsts) \ bases /\ 0 \notin I /\ top # 0 /\ 0 \notin N
      /\ J = I \ bases /\ firsts \subseteq I \ {top} /\ bases \subseteq firsts
  BY <1>1, <1>2, <1>3, <1>4
<1> HIDE DEF I, J, N, M
<1>b. v = IF dv \in firsts THEN 0 ELSE dv
  OBVIOUS
<1>c. J = {top} \cup M \cup ({v} \ {0}) /\ top # v /\ {top, v} \cap M = {}
  <2>1. CASE dv \in firsts
    BY ONLY <1>a, <1>b, <2>1
  <2>2. CASE dv \notin firsts
    BY ONLY <1>a, <1>b, <2>2
  <2> QED
    BY <2>1, <2>2
<1>5. Idle_(D) = {top} \cup Binned_(small, kin) \cup ({v} \ {0})
  BY <1>c DEF J, M
<1>6. top # v /\ {top, v} \cap Binned_(small, kin) = {}
  BY <1>c DEF M
<1>7. \A n \in SmallSizes : \A a \in Range(small[n]) : D[a].size = n
  <2> SUFFICES ASSUME NEW n \in SmallSizes, NEW a \in Range(small[n]) PROVE D[a].size = n
    OBVIOUS
  <2>1. a \in Binned_(small, tree) /\ a \notin firsts
    BY BinnedHas
  <2>2. a \in Idle_(D)
    BY <1>1, <2>1
  <2> QED
    BY <1>1, <2>2
<1>8. \A a \in kin : D[a].size >= SmallLimit
  <2> SUFFICES ASSUME NEW a \in kin PROVE D[a].size >= SmallLimit
    OBVIOUS
  <2>1. a \in Idle_(D)
    <3>1. a \in Binned_(small, kin)
      BY BinnedHas
    <3> QED
      BY <1>5, <3>1
  <2>2. D[a] = C[a]
    BY <2>1
  <2> QED
    BY <1>1, <2>2
<1> QED
  BY <1>1, <1>5, <1>6, <1>7, <1>8 DEF Placed

----------------------------------------------------------------------------
(* Releasing the segments that are a single free chunk. *)

\* The list without the segments that are gone keeps the order, the first segment and
\* what every other needs.
LEMMA DropsKept ==
  ASSUME NEW S, Segments(S), NEW gone, S[1] \notin gone, NEW K, K = Kept(S, gone)
  PROVE  Drops(S, K, gone)
<1>1. S \in Seq(Segment) /\ Len(S) \in Nat /\ Len(S) >= 1 /\ DOMAIN S = 1 .. Len(S)
  BY DEF Segments
<1>2. \A i, j \in DOMAIN S : i # j => S[i] # S[j]
  <2> SUFFICES ASSUME NEW i \in DOMAIN S, NEW j \in DOMAIN S, i # j, S[i] = S[j] PROVE FALSE
    OBVIOUS
  <2>1. End(S[i]) <= S[j].base \/ End(S[j]) <= S[i].base
    BY DEF Segments
  <2>2. End(S[i]) = S[i].base + S[i].size /\ S[i].base \in Nat /\ S[i].size \in Nat /\ S[i].size > 0
    BY SegmentFields
  <2> QED
    BY <2>1, <2>2
<1>3. Lists(K, S, gone, Len(S))
  BY <1>1, <1>2, KeptLists
<1>4. /\ K \in Seq(Segment)
      /\ \A j \in DOMAIN K : \E i \in DOMAIN S : K[j] = S[i] /\ S[i] \notin gone
      /\ \A i \in DOMAIN S : S[i] \notin gone => \E j \in DOMAIN K : K[j] = S[i]
      /\ \A i, j \in DOMAIN K : i # j => K[i] # K[j]
      /\ Len(K) >= 1 /\ K[1] = S[1]
  BY <1>1, <1>3 DEF Lists
<1>5. 1 \in DOMAIN S /\ 1 \in DOMAIN K
  BY <1>1, <1>4
<1>6. \A j \in DOMAIN K, i \in DOMAIN S : K[j] = S[i] => (j = 1 <=> i = 1)
  BY <1>2, <1>4, <1>5
<1>7. \A i, j \in DOMAIN K : i # j => End(K[i]) <= K[j].base \/ End(K[j]) <= K[i].base
  <2> SUFFICES ASSUME NEW i \in DOMAIN K, NEW j \in DOMAIN K, i # j
               PROVE  End(K[i]) <= K[j].base \/ End(K[j]) <= K[i].base
    OBVIOUS
  <2>1. PICK m \in DOMAIN S : K[i] = S[m]
    BY <1>4
  <2>2. PICK n \in DOMAIN S : K[j] = S[n]
    BY <1>4
  <2>3. m # n
    BY <1>4, <2>1, <2>2
  <2> QED
    BY <2>1, <2>2, <2>3 DEF Segments
<1>8. Segments(K)
  BY <1>4, <1>7 DEF Segments
<1> QED
  BY <1>4, <1>6, <1>8 DEF Drops

\* A segment that is gone held nothing in use but its record.
Empties(C, S, state, L, gone) ==
  \A i \in DOMAIN S : S[i] \in gone => \A a \in DOMAIN C : Holds(S[i], a) =>
      a \notin L /\ a # state /\ (C[a].cin \/ ~C[a].pin => a = S[i].rec)

\* The chunks in use that stay belong to whom they did.
LEMMA OwnedDropped ==
  ASSUME NEW C, NEW S, NEW state, NEW L, NEW top, Owned(C, S, state, L), Shape(C, S, top, state),
         NEW D, NEW K, NEW gone,
         Drops(S, K, gone), Leaves(C, D, S, gone), Empties(C, S, state, L, gone)
  PROVE  Owned(D, K, state, L) /\ L \subseteq DOMAIN D
<1> DEFINE Used(F, a) == F[a].cin \/ ~F[a].pin
<1>1. /\ Heads(C) /\ Segments(S) /\ Ends(C, S, top, state) /\ Segments(K)
  BY DEF Shape, Drops
<1>2. \A a \in DOMAIN D : a \in DOMAIN C /\ D[a] = C[a]
  BY DEF Leaves
<1>3. \A a : a \in L \cup {state} \cup Records_(S) <=> a \in DOMAIN C /\ Used(C, a)
  BY DEF Owned
<1>4. state \notin L /\ L \cap Records_(S) = {}
  BY DEF Owned
<1>5. ASSUME NEW a, a \in L \/ a = state PROVE a \in DOMAIN D /\ Used(D, a)
  <2>1. a \in DOMAIN C /\ Used(C, a)
    BY <1>3, <1>5
  <2>2. \A i \in DOMAIN S : ~(Holds(S[i], a) /\ S[i] \in gone)
    BY <1>5, <2>1 DEF Empties
  <2>3. a \in DOMAIN D
    BY <2>1, <2>2 DEF Leaves
  <2> QED
    BY <1>2, <2>1, <2>3
<1>6. \A i \in 2 .. Len(S) : i \in DOMAIN S /\ i # 1 /\ Holds(S[i], S[i].rec) /\ S[i].rec \in DOMAIN C
  <2>1. \A i \in 2 .. Len(S) : Holds(S[i], S[i].rec) /\ S[i].rec \in DOMAIN C
    BY <1>1 DEF Ends, InHeap
  <2>2. DOMAIN S = 1 .. Len(S) /\ Len(S) \in Nat
    BY <1>1 DEF Segments
  <2> QED
    BY <2>1, <2>2
<1>7. \A j \in 2 .. Len(K) : j \in DOMAIN K /\ j # 1
  BY <1>1 DEF Segments
<1>a. /\ \A i \in DOMAIN S : i = 1 \/ i \in 2 .. Len(S)
      /\ \A i \in DOMAIN K : i = 1 \/ i \in 2 .. Len(K)
  BY <1>1 DEF Segments
<1>8. ASSUME NEW a, a \in Records_(K) PROVE a \in Records_(S) /\ a \in DOMAIN D /\ Used(D, a)
  <2>1. PICK j \in 2 .. Len(K) : a = K[j].rec
    BY <1>8 DEF Records_
  <2>2. PICK i \in DOMAIN S : K[j] = S[i] /\ S[i] \notin gone /\ i # 1
    BY <1>7 DEF Drops
  <2>3. i \in 2 .. Len(S)
    BY <1>a, <2>2
  <2>4. a \in Records_(S)
    BY <2>1, <2>2, <2>3 DEF Records_
  <2>5. Holds(S[i], a) /\ a \in DOMAIN C /\ Used(C, a)
    BY <1>3, <1>6, <2>1, <2>2, <2>3, <2>4
  <2>6. a \in DOMAIN D /\ D[a] = C[a]
    BY <1>1, <2>2, <2>5, KeptChunk
  <2> QED
    BY <2>4, <2>5, <2>6
<1>9. ASSUME NEW a \in DOMAIN D, Used(D, a) PROVE a \in L \cup {state} \cup Records_(K)
  <2>1. a \in DOMAIN C /\ Used(C, a)
    BY <1>2, <1>9
  <2>2. CASE a \in Records_(S)
    <3>1. PICK i \in 2 .. Len(S) : a = S[i].rec
      BY <2>2 DEF Records_
    <3>2. Holds(S[i], a) /\ i \in DOMAIN S /\ i # 1
      BY <1>6, <3>1
    <3>3. S[i] \notin gone
      BY <3>2 DEF Leaves
    <3>4. PICK j \in DOMAIN K : K[j] = S[i] /\ j # 1
      BY <3>2, <3>3 DEF Drops
    <3>5. j \in 2 .. Len(K)
      BY <1>a, <3>4
    <3> QED
      BY <3>1, <3>4, <3>5 DEF Records_
  <2> QED
    BY <1>3, <2>1, <2>2
<1>10. L \cup {state} \cup Records_(K) = {a \in DOMAIN D : Used(D, a)}
  BY <1>5, <1>8, <1>9
<1>11. L \cap Records_(K) = {}
  BY <1>4, <1>8
<1> QED
  BY <1>4, <1>5, <1>10, <1>11 DEF Owned

\* What the scan leaves of the heap.
FirstsOf(k) == {s.base : s \in Unused(k)}
BasesOf(gone) == {s.base : s \in gone}

\* What releasing the unused segments writes.
LEMMA FreedFields ==
  ASSUME NEW k, IsHeap(k), NEW gone, NEW g, g = Freed(k, gone),
         NEW firsts, firsts = FirstsOf(k), NEW bases, bases = BasesOf(gone)
  PROVE  /\ SameBut(g, k, {"chunk", "tree", "dv", "dvsize", "segs", "backed", "footprint", "checks"})
         /\ g.chunk = [a \in {b \in DOMAIN k.chunk : \A s \in gone : ~Holds(s, b)} |-> k.chunk[a]]
         /\ g.tree = (k.tree \cup firsts) \ bases
         /\ g.dv = (IF k.dv \in firsts THEN 0 ELSE k.dv)
         /\ g.dvsize = (IF k.dv \in firsts THEN 0 ELSE k.dvsize)
         /\ g.segs = Kept(k.segs, gone)
         /\ g.backed = k.backed \ UNION {GranulesOf(s.base, s.size) : s \in gone}
         /\ g.footprint = k.footprint - Released(k.segs, gone)
         /\ g.checks = Larger(Len(k.segs) - 1, ReleaseRate)
<1>0. firsts = {s.base : s \in Unused(k)} /\ bases = {s.base : s \in gone}
  BY DEF FirstsOf, BasesOf
<1>1. k = [f \in HeapFields |-> k[f]]
  BY DEF IsHeap
<1>2. g.chunk = [a \in {b \in DOMAIN k.chunk : ~\E s \in gone : Holds(s, b)} |-> k.chunk[a]]
  BY <1>1 DEF Freed, HeapFields
<1>3. {b \in DOMAIN k.chunk : ~\E s \in gone : Holds(s, b)} = {b \in DOMAIN k.chunk : \A s \in gone : ~Holds(s, b)}
  OBVIOUS
<1>4. g.tree = Rebinned(k, firsts, gone)
  BY <1>0, <1>1 DEF Freed, HeapFields
<1>5. IsHeap(g) /\ \A f \in HeapFields \ {"chunk", "tree", "dv", "dvsize", "segs", "backed", "footprint", "checks"} : g[f] = k[f]
  BY <1>1 DEF Freed, HeapFields, IsHeap
<1>6. /\ g.dv = (IF k.dv \in firsts THEN 0 ELSE k.dv)
      /\ g.dvsize = (IF k.dv \in firsts THEN 0 ELSE k.dvsize)
  BY <1>0, <1>1 DEF Freed, HeapFields
<1>7. /\ g.segs = Kept(k.segs, gone)
      /\ g.backed = k.backed \ UNION {GranulesOf(s.base, s.size) : s \in gone}
      /\ g.footprint = k.footprint - Released(k.segs, gone)
      /\ g.checks = Larger(Len(k.segs) - 1, ReleaseRate)
  BY <1>1 DEF Freed, HeapFields
<1> QED
  BY <1>0, <1>2, <1>3, <1>4, <1>5, <1>6, <1>7 DEF SameBut, Rebinned

\* The scan of sm_release_unused_segments: whatever unused segments it unmaps, the heap
\* stays sound and the blocks are untouched.
LEMMA FreedSound ==
  ASSUME NEW h, NEW L, Sound(h, L, {}), NEW k, SameBut(k, h, {"checks"}),
         NEW gone, gone \subseteq Unused(h), NEW g, g = Freed(k, gone)
  PROVE  Returned(h, g, L)
<1> DEFINE C == h.chunk
           S == h.segs
           D == g.chunk
           K == g.segs
           firsts == {s.base : s \in Unused(h)}
           bases == {s.base : s \in gone}
           none == {}
<1>1. /\ IsHeap(h) /\ Shape(C, S, h.top, h.state) /\ Owned(C, S, h.state, L)
      /\ Placed(C, h.small, h.tree, h.dv, h.top, none)
      /\ Sizes(C, h.dv, h.dvsize, h.top, h.topsize)
      /\ Lent(C, S, h.backed, h.footprint) /\ Settings(h)
  BY DEF Sound
<1>2. Heads(C) /\ Segments(S) /\ DOMAIN C \subseteq Nat \ {0} /\ L \subseteq DOMAIN C
  <2>1. Heads(C) /\ Segments(S) /\ DOMAIN C \subseteq Nat \ {0}
    BY <1>1 DEF Shape, Heads
  <2> QED
    BY <1>1, <2>1 DEF Owned
<1>3. /\ IsHeap(k) /\ k.chunk = C /\ k.segs = S /\ k.tree = h.tree /\ k.dv = h.dv /\ k.dvsize = h.dvsize
      /\ k.small = h.small /\ k.top = h.top /\ k.topsize = h.topsize /\ k.state = h.state
      /\ k.backed = h.backed /\ k.footprint = h.footprint /\ k.limit = h.limit /\ k.least = h.least
      /\ k.trimcheck = h.trimcheck /\ k.mmapon = h.mmapon
  BY DEF SameBut, HeapFields
<1>4. Unused(k) = Unused(h)
  BY <1>3 DEF Unused, SizeOf
<1>5. /\ SameBut(g, k, {"chunk", "tree", "dv", "dvsize", "segs", "backed", "footprint", "checks"})
      /\ D = [a \in {b \in DOMAIN C : \A s \in gone : ~Holds(s, b)} |-> C[a]]
      /\ g.tree = (h.tree \cup firsts) \ bases
      /\ g.dv = (IF h.dv \in firsts THEN 0 ELSE h.dv)
      /\ g.dvsize = (IF h.dv \in firsts THEN 0 ELSE h.dvsize)
      /\ K = Kept(S, gone)
      /\ g.backed = h.backed \ UNION {GranulesOf(s.base, s.size) : s \in gone}
      /\ g.footprint = h.footprint - Released(S, gone)
      /\ g.checks = Larger(Len(S) - 1, ReleaseRate)
  <2>1. firsts = FirstsOf(k)
    BY <1>4 DEF FirstsOf
  <2> HIDE DEF firsts, bases
  <2>2. bases = BasesOf(gone)
    BY DEF bases, BasesOf
  <2>3. g = Freed(k, gone) /\ IsHeap(k)
    BY <1>3
  <2> HIDE DEF D, K
  <2>4. /\ SameBut(g, k, {"chunk", "tree", "dv", "dvsize", "segs", "backed", "footprint", "checks"})
        /\ g.chunk = [a \in {b \in DOMAIN k.chunk : \A s \in gone : ~Holds(s, b)} |-> k.chunk[a]]
        /\ g.tree = (k.tree \cup firsts) \ bases
        /\ g.dv = (IF k.dv \in firsts THEN 0 ELSE k.dv)
        /\ g.dvsize = (IF k.dv \in firsts THEN 0 ELSE k.dvsize)
        /\ g.segs = Kept(k.segs, gone)
        /\ g.backed = k.backed \ UNION {GranulesOf(s.base, s.size) : s \in gone}
        /\ g.footprint = k.footprint - Released(k.segs, gone)
        /\ g.checks = Larger(Len(k.segs) - 1, ReleaseRate)
    BY ONLY <2>1, <2>2, <2>3, FreedFields
  <2>5. /\ k.chunk = C /\ k.segs = S /\ k.tree = h.tree /\ k.dv = h.dv /\ k.dvsize = h.dvsize
        /\ k.backed = h.backed /\ k.footprint = h.footprint
    BY <1>3
  <2> QED
    BY ONLY <2>4, <2>5 DEF D, K
<1> HIDE DEF D, K, C, S
<1>6. /\ IsHeap(g) /\ g.small = h.small /\ g.top = h.top /\ g.topsize = h.topsize /\ g.state = h.state
      /\ g.limit = h.limit /\ g.least = h.least /\ g.trimcheck = h.trimcheck /\ g.mmapon = h.mmapon
  BY <1>3, <1>5 DEF SameBut, HeapFields
<1>7. ASSUME NEW s \in Unused(h)
      PROVE  /\ \E i \in DOMAIN S : i # 1 /\ S[i] = s
             /\ \A a \in DOMAIN C : Holds(s, a) <=> a = s.base \/ a = s.rec
             /\ s.base \in Idle_(C) /\ s.base # h.top /\ C[s.base].size >= SmallLimit
             /\ s.base \notin L /\ s.rec \notin L /\ s.base # h.state /\ s.rec # h.state
             /\ s.rec \notin Idle_(C) /\ s.base # 0
             /\ \A n \in SmallSizes : s.base \notin Range(h.small[n])
  BY UnusedSegment DEF C, S
<1>8. S[1] \notin gone /\ 1 \in DOMAIN S
  <2>1. 1 \in DOMAIN S
    BY <1>2 DEF Segments
  <2>2. ASSUME S[1] \in gone PROVE FALSE
    <3>1. PICK i \in DOMAIN S : i # 1 /\ S[i] = S[1]
      BY <1>7, <2>2
    <3>2. Holds(S[1], S[1].base) /\ S[1].base \in Nat
      BY <1>2, <2>1, SegmentFields DEF Holds
    <3> QED
      BY <1>2, <2>1, <3>1, <3>2, OneSegment
  <2> QED
    BY <2>1, <2>2
<1>9. Drops(S, K, gone)
  BY <1>2, <1>5, <1>8, DropsKept
<1>10. gone \subseteq Range(S)
  <2>1. \A s \in gone : \E i \in DOMAIN S : S[i] = s
    BY <1>7
  <2> QED
    BY <2>1 DEF Range
<1>11. DOMAIN D = {b \in DOMAIN C : \A s \in gone : ~Holds(s, b)} /\ \A a \in DOMAIN D : D[a] = C[a]
  BY <1>5
<1>12. Leaves(C, D, S, gone)
  <2>1. Heads(D)
    <3>1. D = [a \in DOMAIN D |-> D[a]]
      BY <1>5
    <3> QED
      BY <1>2, <1>11, <3>1 DEF Heads
  <2>2. \A a \in DOMAIN C : a \in DOMAIN D \/ \E i \in DOMAIN S : Holds(S[i], a) /\ S[i] \in gone
    <3> SUFFICES ASSUME NEW a \in DOMAIN C, a \notin DOMAIN D
                 PROVE  \E i \in DOMAIN S : Holds(S[i], a) /\ S[i] \in gone
      OBVIOUS
    <3>1. PICK s \in gone : Holds(s, a)
      BY <1>11
    <3> QED
      BY <1>7, <3>1
  <2> QED
    BY <1>11, <2>1, <2>2 DEF Leaves
<1>13. Empties(C, S, h.state, L, gone)
  <2> SUFFICES ASSUME NEW i \in DOMAIN S, S[i] \in gone, NEW a \in DOMAIN C, Holds(S[i], a)
               PROVE  a \notin L /\ a # h.state /\ (C[a].cin \/ ~C[a].pin => a = S[i].rec)
    BY DEF Empties
  <2>1. a = S[i].base \/ a = S[i].rec
    BY <1>7
  <2>2. S[i].base \in Idle_(C) /\ S[i].base \notin L /\ S[i].rec \notin L /\ S[i].base # h.state /\ S[i].rec # h.state
    BY <1>7
  <2> QED
    BY <2>1, <2>2 DEF Idle_
<1>14. Shape(D, K, h.top, h.state)
  <2>1. \A i \in DOMAIN S : Holds(S[i], h.state) => S[i] \notin gone
    <3>1. h.state \in DOMAIN C
      BY <1>1 DEF Shape, Ends, InHeap
    <3> QED
      BY <1>13, <3>1 DEF Empties
  <2> QED
    BY <1>1, <1>8, <1>9, <1>12, <2>1, ShapeDropped
<1>15. Owned(D, K, h.state, L) /\ L \subseteq DOMAIN D
  BY <1>1, <1>9, <1>12, <1>13, OwnedDropped
<1>16. Idle_(D) = Idle_(C) \ bases /\ \A a \in Idle_(D) : D[a] = C[a]
  <2>1. \A a \in Idle_(D) : a \in Idle_(C) /\ D[a] = C[a] /\ a \in DOMAIN D
    BY <1>11 DEF Idle_
  <2>2. ASSUME NEW a \in Idle_(D) PROVE a \notin bases
    <3> SUFFICES ASSUME NEW s \in gone, a = s.base PROVE FALSE
      OBVIOUS
    <3>1. Holds(s, a)
      BY <1>7, <2>1 DEF Idle_
    <3> QED
      BY <1>11, <2>1, <3>1
  <2>3. ASSUME NEW a \in Idle_(C), a \notin bases PROVE a \in Idle_(D)
    <3>1. a \in DOMAIN C
      BY DEF Idle_
    <3>2. \A s \in gone : ~Holds(s, a)
      BY <1>7, <2>3, <3>1
    <3>3. a \in DOMAIN D /\ D[a] = C[a]
      BY <1>11, <3>1, <3>2
    <3> QED
      BY <3>3 DEF Idle_
  <2> QED
    BY <2>1, <2>2, <2>3
<1>17. bases \subseteq firsts /\ firsts \subseteq Idle_(C) \ {h.top}
       /\ \A a \in firsts : C[a].size >= SmallLimit /\ \A n \in SmallSizes : a \notin Range(h.small[n])
  BY <1>7
<1>18. h.dv \in Nat /\ h.dvsize = (IF h.dv = 0 THEN 0 ELSE C[h.dv].size) /\ h.topsize = C[h.top].size
  BY <1>1 DEF Sizes
<1>19. Placed(D, h.small, g.tree, g.dv, h.top, none)
  <2> HIDE DEF firsts, bases
  <2>1. /\ Placed(C, h.small, h.tree, h.dv, h.top, {}) /\ h.dv \in Nat
        /\ DOMAIN C \subseteq Nat \ {0} /\ Vacates(C, D, h.small, h.top, firsts, bases)
    BY <1>1, <1>2, <1>16, <1>17, <1>18 DEF Vacates
  <2>2. g.tree = (h.tree \cup firsts) \ bases /\ g.dv = IF h.dv \in firsts THEN 0 ELSE h.dv
    BY <1>5
  <2> QED
    BY ONLY <2>1, <2>2, PlacedDropped
<1>20. Sizes(D, g.dv, g.dvsize, h.top, h.topsize)
  <2>1. h.top \in Idle_(C) /\ (h.dv # 0 => h.dv \in Idle_(C))
    BY <1>1 DEF Placed
  <2>2. D[h.top] = C[h.top]
    BY <1>16, <1>17, <2>1
  <2>3. CASE h.dv \in firsts
    BY <1>5, <1>18, <2>2, <2>3 DEF Sizes
  <2>4. CASE h.dv \notin firsts
    <3>1. h.dv # 0 => D[h.dv] = C[h.dv]
      BY <1>16, <1>17, <2>1, <2>4
    <3> HIDE DEF firsts
    <3> QED
      BY <1>5, <1>18, <2>2, <2>4, <3>1 DEF Sizes
  <2> QED
    BY <2>3, <2>4
<1> HIDE DEF firsts, bases
<1>21. Maps(D) = Maps(C) /\ \A a \in Maps(C) : D[a] = C[a]
  <2>1. ASSUME NEW a \in Maps(C) PROVE a \in DOMAIN D
    <3>1. a \in L /\ a \in DOMAIN C
      BY MappingFields DEF C
    <3> QED
      BY <1>15, <3>1
  <2> QED
    BY <1>11, <2>1 DEF Maps
<1>22. Lent(D, K, g.backed, g.footprint) /\ g.backed \subseteq h.backed /\ g.footprint <= h.footprint
  <2>1. /\ Lent(C, S, h.backed, h.footprint) /\ Segments(S) /\ Drops(S, K, gone)
        /\ Maps(D) = Maps(C) /\ \A a \in Maps(C) : D[a] = C[a]
        /\ gone \subseteq Range(S)
    BY <1>1, <1>2, <1>9, <1>10, <1>21
  <2>2. /\ g.backed = h.backed \ UNION {GranulesOf(s.base, s.size) : s \in gone}
        /\ g.footprint = h.footprint - Released(S, gone)
    BY <1>5
  <2> QED
    BY ONLY <2>1, <2>2, LentDropped, SMTT(30)
<1>23. Settings(g)
  <2>1. /\ h.limit \in Nat /\ h.least \in Nat /\ h.trimcheck \in Nat /\ h.mmapon \in BOOLEAN
        /\ \A a \in DOMAIN C : a >= h.least
        /\ \A i \in DOMAIN S : S[i].base >= h.least
    BY <1>1 DEF Settings, C, S
  <2>2. g.checks \in 1 .. Larger(ReleaseRate, Cardinality(Space))
    <3>1. Len(S) <= Cardinality(Space) /\ Cardinality(Space) \in Nat /\ Len(S) \in Nat
      BY <1>1, <1>2, SegmentsCounted DEF Segments
    <3> QED
      BY <1>5, <3>1, Numbers DEF Larger
  <2>3. \A a \in DOMAIN D : a >= h.least
    BY <1>11, <2>1
  <2>4. \A j \in DOMAIN K : K[j].base >= h.least
    BY <1>9, <2>1 DEF Drops
  <2> QED
    BY <1>6, <2>1, <2>2, <2>3, <2>4 DEF Settings, D, K
<1>24. Sound(g, L, none)
  BY <1>6, <1>14, <1>15, <1>19, <1>20, <1>22, <1>23 DEF Sound, D, K
<1>25. Spares(h, g, L)
  BY <1>11, <1>15 DEF Spares, C, D
<1>26. SameBut(g, h, ReturnFields)
  BY <1>6 DEF SameBut, ReturnFields, HeapFields
<1> QED
  BY <1>22, <1>24, <1>25, <1>26 DEF Returned

\* The scan, from a heap whose count of large frees may have run out.
LEMMA ReleaseSound ==
  ASSUME NEW h, NEW L, Sound(h, L, {}), NEW k, SameBut(k, h, {"checks"}), NEW g \in Release(k)
  PROVE  Returned(h, g, L)
<1>1. Unused(k) = Unused(h)
  BY DEF SameBut, HeapFields, Unused, SizeOf
<1>2. PICK gone : gone \subseteq Unused(h) /\ g = Freed(k, gone)
  <2>1. CASE UnmapFails
    BY <1>1, <2>1 DEF Release
  <2>2. CASE ~UnmapFails
    BY <1>1, <2>2 DEF Release
  <2> QED
    BY <2>1, <2>2
<1> QED
  BY <1>2, FreedSound

\* The system may take back the end of a segment.
LEMMA LentShrunk ==
  ASSUME NEW C, NEW S, NEW B, NEW F, Lent(C, S, B, F), NEW D, NEW T, NEW E, NEW G, Counted(E, G),
         DOMAIN T = DOMAIN S, NEW j \in DOMAIN S, NEW b, NEW s, NEW R, R = GranulesOf(b, s),
         \A i \in DOMAIN S : i # j => T[i].base = S[i].base /\ T[i].size = S[i].size,
         Whole(T[j].base), Whole(T[j].size),
         GranulesOf(S[j].base, S[j].size) = GranulesOf(T[j].base, T[j].size) \cup R,
         GranulesOf(T[j].base, T[j].size) \cap R = {}, E = B \ R,
         Maps(D) = Maps(C), \A a \in Maps(C) : D[a] = C[a]
  PROVE  Lent(D, T, E, G)
<1> DEFINE P(i) == GranulesOf(S[i].base, S[i].size)
           Q(i) == GranulesOf(T[i].base, T[i].size)
           M(a) == GranulesOf(MapBase(C, a), MapLength(C, a))
<1>1. /\ B \subseteq Space
      /\ \A i \in DOMAIN S : Whole(S[i].base) /\ Whole(S[i].size) /\ P(i) \subseteq B
      /\ \A i, k \in DOMAIN S : i # k => P(i) \cap P(k) = {}
      /\ \A a \in Maps(C) : Whole(MapBase(C, a)) /\ Whole(MapLength(C, a)) /\ M(a) \subseteq B
                            /\ \A i \in DOMAIN S : M(a) \cap P(i) = {}
      /\ \A a, c \in Maps(C) : a # c => M(a) \cap M(c) = {}
  BY DEF Lent
<1>2. P(j) = Q(j) \cup R /\ Q(j) \cap R = {} /\ (\A i \in DOMAIN S : i # j => Q(i) = P(i))
  OBVIOUS
<1>3. \A a \in Maps(C) : MapBase(D, a) = MapBase(C, a) /\ MapLength(D, a) = MapLength(C, a)
  BY DEF MapBase, MapLength
<1>4. \A a \in Maps(C) : GranulesOf(MapBase(D, a), MapLength(D, a)) = M(a)
  BY <1>3
<1>5. \A i \in DOMAIN S : Whole(T[i].base) /\ Whole(T[i].size)
  BY <1>1
<1> HIDE DEF P, Q, M
<1>6. \A i \in DOMAIN S : Q(i) \subseteq E
  BY <1>1, <1>2
<1>7. \A i, k \in DOMAIN S : i # k => Q(i) \cap Q(k) = {}
  BY <1>1, <1>2
<1>8. \A a \in Maps(C) : M(a) \subseteq E /\ \A i \in DOMAIN S : M(a) \cap Q(i) = {}
  BY <1>1, <1>2
<1>9. E \subseteq Space /\ G = Granule * Cardinality(E)
  BY DEF Counted
<1>10. \A i \in DOMAIN T : Whole(T[i].base) /\ Whole(T[i].size)
                           /\ GranulesOf(T[i].base, T[i].size) \subseteq E
  BY <1>5, <1>6 DEF Q
<1>11. \A i, k \in DOMAIN T : i # k =>
          GranulesOf(T[i].base, T[i].size) \cap GranulesOf(T[k].base, T[k].size) = {}
  BY <1>7 DEF Q
<1>12. \A a \in Maps(D) :
        /\ Whole(MapBase(D, a)) /\ Whole(MapLength(D, a))
        /\ GranulesOf(MapBase(D, a), MapLength(D, a)) \subseteq E
        /\ \A i \in DOMAIN T :
            GranulesOf(MapBase(D, a), MapLength(D, a)) \cap GranulesOf(T[i].base, T[i].size) = {}
  BY <1>1, <1>3, <1>4, <1>8 DEF Q
<1>13. \A a, c \in Maps(D) : a # c =>
          GranulesOf(MapBase(D, a), MapLength(D, a))
            \cap GranulesOf(MapBase(D, c), MapLength(D, c)) = {}
  BY <1>1, <1>4
<1> QED
  BY <1>9, <1>10, <1>11, <1>12, <1>13 DEF Lent
=============================================================================
