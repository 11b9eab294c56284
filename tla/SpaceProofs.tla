---------------------------- MODULE SpaceProofs ----------------------------
(***************************************************************************)
(* The calls of the threads on a space: trimming, freeing, aligning and    *)
(* cutting up keep it sound, and a new space is; it stays sound between the*)
(* calls, grows within its limit, implements the store of disjoint blocks, *)
(* passes the checks of the allocator itself, and can be destroyed at any  *)
(* time.                                                                   *)
(***************************************************************************)
EXTENDS Checks, HeapCallProofs

----------------------------------------------------------------------------
(* Trimming the top, and freeing. *)

\* The first segment loses whole granules at its end, all of them part of the top.
LEMMA ShrinkTop ==
  ASSUME NEW h, NEW L, NEW U, Sound(h, L, U), NEW s, Whole(s), s < h.topsize,
         NEW b, b = End(h.segs[1]) - s,
         NEW k, SameBut(k, h, {"segs", "backed", "footprint"}),
         k.segs = [h.segs EXCEPT ![1].size = h.segs[1].size - s],
         k.backed = h.backed \ GranulesOf(b, s), k.footprint = h.footprint - s,
         NEW n, n = h.topsize - s, NEW g, g = InitTop(k, h.top, n)
  PROVE  /\ Sound(g, L, U) /\ Spares(h, g, L) /\ g.backed \subseteq h.backed
         /\ g.footprint <= h.footprint
         /\ SameBut(g, h, {"chunk", "topsize", "segs", "backed", "footprint", "trimcheck"})
<1> DEFINE S == h.segs
           T == k.segs
           E == h.top + h.topsize
<1>1. /\ Segments(S) /\ IsHeap(h) /\ Heads(h.chunk) /\ Lent(h.chunk, S, h.backed, h.footprint)
      /\ 1 \in DOMAIN S
  <2>1. Segments(S) /\ IsHeap(h) /\ Heads(h.chunk) /\ Lent(h.chunk, S, h.backed, h.footprint)
    BY DEF Sound, Shape
  <2>2. S \in Seq(Segment) /\ Len(S) >= 1
    BY <2>1 DEF Segments
  <2> HIDE DEF S
  <2>3. 1 \in DOMAIN S
    BY <2>2
  <2> QED
    BY <2>1, <2>3
<1>2. /\ S[1].base \in Nat /\ S[1].size \in Nat /\ End(S[1]) = S[1].base + S[1].size /\ S[1] \in Segment
      /\ S[1].base > 0 /\ S[1].size > 0
  BY <1>1, SegmentFields
<1>3. s \in Nat \ {0}
  BY WholeSum
<1>10. /\ h.top \in Nat \ {0} /\ h.top \in DOMAIN h.chunk /\ h.chunk[h.top].pin /\ ~h.chunk[h.top].cin
       /\ h.topsize \in Nat \ {0} /\ E = End(S[1]) - TopFoot /\ E \in Nat
       /\ \A a \in DOMAIN h.chunk : a <= h.top \/ a >= End(S[1])
  BY TopFields
<1>a. S[1].base <= h.top
  BY TopIsLast DEF Sound
<1>c. h.top + h.topsize = S[1].base + S[1].size - TopFoot /\ b = S[1].base + S[1].size - s
  <2>1. h.top + h.topsize = End(S[1]) - TopFoot /\ b = End(S[1]) - s
    BY <1>10
  <2>2. End(S[1]) = S[1].base + S[1].size
    BY <1>2
  <2> QED
    BY <2>1, <2>2, <1>2, <1>3, <1>10, Numbers
<1>b. s < S[1].size /\ b \in Nat /\ b = S[1].base + (S[1].size - s) /\ S[1].size - s \in Nat \ {0}
  <2> HIDE DEF S, E
  <2> QED
    BY <1>2, <1>3, <1>10, <1>a, <1>c, Numbers
<1>4. /\ IsHeap(k) /\ k.segs = [S EXCEPT ![1].size = S[1].size - s]
      /\ k.backed = h.backed \ GranulesOf(b, s) /\ k.footprint = h.footprint - s
      /\ SameBut(k, h, {"segs", "backed", "footprint"})
  BY DEF SameBut
<1>5. /\ T[1] = [S[1] EXCEPT !.size = S[1].size - s] /\ DOMAIN T = DOMAIN S
      /\ \A i \in DOMAIN S : i # 1 => T[i] = S[i]
  BY <1>1, <1>4
<1>6. /\ T[1].base = S[1].base /\ T[1].size = S[1].size - s /\ T[1].rec = S[1].rec
      /\ T[1] \in Segment /\ T \in Seq(Segment) /\ Len(T) = Len(S)
  <2>1. T[1].base = S[1].base /\ T[1].size = S[1].size - s /\ T[1].rec = S[1].rec /\ T[1] \in Segment
    BY <1>2, <1>3, <1>5, <1>b DEF Segment
  <2>2. S \in Seq(Segment)
    BY <1>1 DEF Segments
  <2>3. \A i \in DOMAIN S : S[i] \in Segment
    BY <2>2
  <2>4. DOMAIN S = 1 .. Len(S) /\ Len(S) \in Nat
    BY <2>2
  <2>5. T = [i \in 1 .. Len(S) |-> T[i]]
    BY <1>4, <2>4
  <2>6. \A i \in 1 .. Len(S) : T[i] \in Segment
    BY <1>5, <2>1, <2>3, <2>4
  <2> HIDE DEF T
  <2>7. T \in [1 .. Len(S) -> Segment]
    BY <2>5, <2>6
  <2>8. T \in Seq(Segment) /\ Len(T) = Len(S)
    BY <2>4, <2>7
  <2> QED
    BY <2>1, <2>8
<1> HIDE DEF T
<1>8. End(T[1]) = b
  BY <1>2, <1>3, <1>6, <1>b DEF End
<1>9. Segments(T)
  <2> SUFFICES ASSUME NEW i \in DOMAIN S, NEW j \in DOMAIN S, i # j
               PROVE  End(T[i]) <= T[j].base \/ End(T[j]) <= T[i].base
    BY <1>1, <1>5, <1>6 DEF Segments
  <2>1. End(S[i]) <= S[j].base \/ End(S[j]) <= S[i].base
    BY <1>1 DEF Segments
  <2>2. /\ S[i].base \in Nat /\ S[i].size \in Nat /\ End(S[i]) = S[i].base + S[i].size /\ S[i].size > 0
        /\ S[j].base \in Nat /\ S[j].size \in Nat /\ End(S[j]) = S[j].base + S[j].size /\ S[j].size > 0
    BY <1>1, SegmentFields
  <2>3. CASE i = 1
    <3>1. T[j] = S[j] /\ End(T[i]) = b /\ T[i].base = S[1].base
      BY <1>5, <1>6, <1>8, <2>3
    <3>2. b < End(S[i]) /\ End(S[i]) \in Nat
      BY <1>2, <1>3, <1>b, <2>3
    <3> HIDE DEF S
    <3> QED
      BY <1>b, <2>1, <2>2, <2>3, <3>1, <3>2
  <2>4. CASE j = 1
    <3>1. T[i] = S[i] /\ End(T[j]) = b /\ T[j].base = S[1].base
      BY <1>5, <1>6, <1>8, <2>4
    <3>2. b < End(S[j]) /\ End(S[j]) \in Nat
      BY <1>2, <1>3, <1>b, <2>4
    <3> HIDE DEF S
    <3> QED
      BY <1>b, <2>1, <2>2, <2>4, <3>1, <3>2
  <2>5. CASE i # 1 /\ j # 1
    BY <1>5, <2>1, <2>5
  <2> QED
    BY <2>3, <2>4, <2>5
<1>12. n \in Nat \ {0} /\ h.top + n + TopFoot = b /\ h.top + n < b /\ b <= End(S[1]) /\ End(S[1]) \in Nat
  <2> HIDE DEF S, E
  <2> QED
    BY <1>2, <1>3, <1>10, <1>b, <1>c, Numbers
<1>11. \A a \in DOMAIN h.chunk : a <= h.top \/ a >= b
  <2> TAKE a \in DOMAIN h.chunk
  <2>1. a \in Nat
    BY <1>1, ChunkFields
  <2>2. a <= h.top \/ a >= End(S[1])
    BY <1>10
  <2> HIDE DEF S
  <2> QED
    BY <1>b, <1>12, <2>1, <2>2
<1>13. Heads(k.chunk) /\ k.chunk = h.chunk
  BY <1>1, <1>4 DEF SameBut, HeapFields
<1>14. n \in Nat \ {0} /\ h.top \in Nat \ {0}
  BY <1>10, <1>12
<1> HIDE DEF E
<1>15. /\ SameBut(g, k, {"chunk", "top", "topsize", "trimcheck"})
       /\ g.top = h.top /\ g.topsize = n /\ g.trimcheck = TrimThreshold
       /\ Heads(g.chunk) /\ Overwrites(h.chunk, g.chunk, h.top, n)
       /\ ~g.chunk[h.top].cin /\ g.chunk[h.top].pin /\ g.chunk[h.top].size = n
  <2>1. /\ SameBut(g, k, {"chunk", "top", "topsize", "trimcheck"})
        /\ Heads(g.chunk) /\ Overwrites(k.chunk, g.chunk, h.top, n)
        /\ ~g.chunk[h.top].cin /\ g.chunk[h.top].pin
    BY <1>4, <1>13, <1>14, InitTopOf
  <2>2. g.top = h.top /\ g.topsize = n
    BY <1>4, <1>13, <1>14, InitTopOf
  <2>3. g.trimcheck = TrimThreshold
    BY <1>4, <1>13, <1>14, InitTopOf
  <2>4. g.chunk[h.top].size = n
    BY <1>4, <1>13, <1>14, InitTopOf
  <2> QED
    BY <1>13, <2>1, <2>2, <2>3, <2>4
<1>16. /\ DOMAIN g.chunk = DOMAIN h.chunk
       /\ \A a \in DOMAIN h.chunk : a # h.top => g.chunk[a] = h.chunk[a]
       /\ g.chunk[h.top].foot = h.chunk[h.top].foot
  <2>1. \A a \in DOMAIN h.chunk : a # h.top + n /\ (a <= h.top \/ a >= h.top + n)
    <3> TAKE a \in DOMAIN h.chunk
    <3>1. a \in Nat /\ b \in Nat
      BY <1>1, <1>b, ChunkFields
    <3>2. a <= h.top \/ a >= b
      BY <1>11
    <3> QED
      BY <1>3, <1>10, <1>12, <3>1, <3>2
  <2>2. \A a \in DOMAIN h.chunk : a < h.top \/ a >= h.top + n \/ a = h.top
    BY <1>1, <1>10, <2>1, ChunkFields
  <2> QED
    BY <1>10, <1>15, <2>1, <2>2 DEF Overwrites
<1>17. /\ g.segs = T /\ g.backed = h.backed \ GranulesOf(b, s) /\ g.footprint = h.footprint - s
       /\ SameBut(g, h, {"chunk", "topsize", "segs", "backed", "footprint", "trimcheck"})
  <2>1. /\ g.segs = T /\ g.backed = h.backed \ GranulesOf(b, s) /\ g.footprint = h.footprint - s
    BY <1>4, <1>15 DEF SameBut, HeapFields, T
  <2>2. SameBut(g, h, {"chunk", "topsize", "segs", "backed", "footprint", "trimcheck"})
    BY <1>4, <1>15 DEF SameBut, HeapFields
  <2> QED
    BY <2>1, <2>2
<1>18. Lent(g.chunk, T, g.backed, g.footprint)
  <2>1. Maps(g.chunk) = Maps(h.chunk) /\ \A a \in Maps(h.chunk) : g.chunk[a] = h.chunk[a]
    BY <1>10, <1>15, <1>16 DEF Maps
  <2>2. Whole(S[1].base) /\ Whole(S[1].size) /\ GranulesOf(S[1].base, S[1].size) \subseteq h.backed
    BY <1>1 DEF Lent
  <2>3. /\ GranulesOf(S[1].base, S[1].size) = GranulesOf(T[1].base, T[1].size) \cup GranulesOf(b, s)
        /\ GranulesOf(T[1].base, T[1].size) \cap GranulesOf(b, s) = {}
        /\ Whole(T[1].base) /\ Whole(T[1].size) /\ Whole(b)
    <3> DEFINE x == S[1].base
               y == S[1].size
               z == S[1].size - s
    <3>1. b = x + z /\ Whole(x) /\ Whole(y) /\ y = z + s
      BY <1>2, <1>3, <1>b, <2>2
    <3>2. Whole(z)
      BY <1>b, <2>2, WholeSum
    <3>3. T[1].base = x /\ T[1].size = z
      BY <1>6
    <3> HIDE DEF x, y, z
    <3>4. /\ GranulesOf(x, z + s) = GranulesOf(x, z) \cup GranulesOf(x + z, s)
          /\ GranulesOf(x, z) \cap GranulesOf(x + z, s) = {} /\ Whole(x + z)
      BY <3>1, <3>2, GranulesJoin
    <3>5. GranulesOf(x, y) = GranulesOf(x, z) \cup GranulesOf(b, s) /\ GranulesOf(x, z) \cap GranulesOf(b, s) = {} /\ Whole(b)
      BY <3>1, <3>4
    <3> QED
      BY <3>1, <3>2, <3>3, <3>5 DEF x, y
  <2>4. \A i \in DOMAIN S : i # 1 => T[i].base = S[i].base /\ T[i].size = S[i].size
    BY <1>5
  <2>5. GranulesOf(b, s) \subseteq h.backed /\ h.backed \subseteq Space
    BY <1>1, <2>2, <2>3 DEF Lent
  <2>6. g.footprint = Granule * Cardinality(g.backed)
    <3>1. Granule * Cardinality(h.backed) - s = Granule * Cardinality(h.backed \ GranulesOf(b, s))
      BY <2>3, <2>5, LessBacked
    <3>2. h.footprint = Granule * Cardinality(h.backed)
      BY <1>1 DEF Lent
    <3> QED
      BY <1>17, <3>1, <3>2
  <2> DEFINE R == GranulesOf(b, s)
             C == h.chunk
             D == g.chunk
             F == g.backed
             G == g.footprint
             B == h.backed
  <2>7. Counted(F, G)
    BY <1>17, <2>5, <2>6 DEF Counted
  <2>8. /\ Lent(C, S, B, h.footprint) /\ DOMAIN T = DOMAIN S /\ 1 \in DOMAIN S
        /\ \A i \in DOMAIN S : i # 1 => T[i].base = S[i].base /\ T[i].size = S[i].size
        /\ Whole(T[1].base) /\ Whole(T[1].size)
        /\ GranulesOf(S[1].base, S[1].size) = GranulesOf(T[1].base, T[1].size) \cup R
        /\ GranulesOf(T[1].base, T[1].size) \cap R = {} /\ F = B \ R /\ R = GranulesOf(b, s)
        /\ Maps(D) = Maps(C) /\ \A a \in Maps(C) : D[a] = C[a]
    BY <1>1, <1>5, <1>17, <2>1, <2>3, <2>4
  <2> HIDE DEF R, C, D, F, G, S, B
  <2>9. Lent(D, T, F, G)
    BY <2>7, <2>8, LentShrunk
  <2> QED
    BY <2>9 DEF D, F, G
<1>19. Sound(g, L, U) /\ Spares(h, g, L)
  <2>1. /\ Segments(g.segs) /\ DOMAIN g.segs = DOMAIN h.segs
        /\ \A i \in DOMAIN h.segs : i # 1 => g.segs[i] = h.segs[i]
        /\ g.segs[1].base = h.segs[1].base /\ g.segs[1].rec = h.segs[1].rec
        /\ g.topsize \in Nat \ {0} /\ h.top + g.topsize + TopFoot = End(g.segs[1])
        /\ \A a \in DOMAIN h.chunk : a <= h.top \/ a >= End(g.segs[1])
    BY <1>5, <1>6, <1>8, <1>9, <1>11, <1>12, <1>15, <1>17
  <2>2. /\ Heads(g.chunk) /\ DOMAIN g.chunk = DOMAIN h.chunk
        /\ \A a \in DOMAIN h.chunk : a # h.top => g.chunk[a] = h.chunk[a]
        /\ g.chunk[h.top].size = g.topsize /\ ~g.chunk[h.top].cin /\ g.chunk[h.top].pin
        /\ g.chunk[h.top].foot = h.chunk[h.top].foot
        /\ Lent(g.chunk, g.segs, g.backed, g.footprint) /\ g.trimcheck \in Nat
    BY <1>15, <1>16, <1>17, <1>18, Numbers
  <2> QED
    BY <1>17, <2>1, <2>2, TopResized, SMTT(30)
<1>20. g.footprint <= h.footprint
  <2>1. h.footprint \in Nat
    BY FootprintNat
  <2> QED
    BY <1>3, <1>17, <2>1
<1> QED
  BY <1>17, <1>19, <1>20

\* What is no part of the memory may change freely.
LEMMA SettingsChanged ==
  ASSUME NEW h, NEW L, NEW U, Sound(h, L, U),
         NEW g, SameBut(g, h, {"limit", "trimcheck", "checks", "mmapon"}),
         g.limit \in Nat, g.trimcheck \in Nat, g.mmapon \in BOOLEAN,
         g.checks \in 1 .. Larger(ReleaseRate, Cardinality(Space))
  PROVE  Sound(g, L, U) /\ Spares(h, g, L)
<1>1. /\ IsHeap(g) /\ g.chunk = h.chunk /\ g.segs = h.segs /\ g.top = h.top /\ g.topsize = h.topsize
      /\ g.state = h.state /\ g.small = h.small /\ g.tree = h.tree /\ g.dv = h.dv /\ g.dvsize = h.dvsize
      /\ g.backed = h.backed /\ g.footprint = h.footprint /\ g.least = h.least
  BY DEF SameBut, HeapFields
<1>2. Settings(g)
  <2>1. /\ h.least \in Nat /\ \A a \in DOMAIN h.chunk : a >= h.least
        /\ \A i \in DOMAIN h.segs : h.segs[i].base >= h.least
    BY DEF Sound, Settings
  <2> QED
    BY <1>1, <2>1 DEF Settings
<1>3. Sound(g, L, U)
  BY <1>1, <1>2 DEF Sound
<1>4. L \subseteq DOMAIN h.chunk
  BY Inside
<1> QED
  BY <1>1, <1>3, <1>4, SparesSame

\* What sm_system_trim takes off the top is whole granules, less than the top.
LEMMA ExtraWholes ==
  ASSUME NEW h, h.topsize \in Nat, NEW padding \in Nat, h.topsize > padding + TopFoot,
         NEW s, s = Extra(h, padding), s > 0
  PROVE  Whole(s) /\ s < h.topsize
<1> DEFINE x == h.topsize - (padding + TopFoot)
           q == (x + Granule - 1) \div Granule
           y == RoundUp(x, Granule)
<1>1. x \in Nat \ {0} /\ x <= h.topsize
  BY Numbers
<1>2. s = (q - 1) * Granule /\ y = q * Granule
  BY DEF Extra, RoundUp
<1> HIDE DEF x, y
<1>3. Whole(y) /\ y >= x /\ y < x + Granule
  <2>1. y = RoundUp(x, Granule)
    BY DEF y
  <2> QED
    BY <1>1, <2>1, RoundedUp
<1>4. q \in Nat
  BY <1>1, Numbers
<1> HIDE DEF q
<1>5. q # 0
  <2>1. q = 0 => s = (0 - 1) * Granule
    BY <1>2
  <2>2. (0 - 1) * Granule < 0
    BY Numbers
  <2> QED
    BY <2>1, <2>2, Numbers
<1> DEFINE p == q - 1
<1>6. p \in Nat /\ q = p + 1 /\ s = p * Granule
  BY <1>2, <1>4, <1>5
<1> HIDE DEF p
<1>7. p * Granule + 1 * Granule = (p + 1) * Granule /\ p * Granule \in Nat
  BY <1>6, Numbers, Products
<1>8. y = s + Granule /\ s \in Nat
  BY <1>2, <1>6, <1>7, Numbers
<1>9. s < x
  BY <1>1, <1>3, <1>8, Numbers
<1>10. p # 0
  <2>1. p = 0 => s = 0 * Granule
    BY <1>6
  <2>2. 0 * Granule = 0
    BY Numbers
  <2> QED
    BY <2>1, <2>2, <1>8
<1>11. Whole(s)
  BY <1>6, <1>10 DEF Whole
<1> QED
  BY <1>1, <1>8, <1>9, <1>11

\* Cutting the end off the top returns it to the system.
LEMMA CutSound ==
  ASSUME NEW h, NEW L, Sound(h, L, {}), NEW s, Whole(s), s < h.topsize, NEW g, g = Cut(h, s)
  PROVE  Returned(h, g, L)
<1> DEFINE b == End(h.segs[1]) - s
           i == [h EXCEPT !.segs[1].size = @ - s]
           k == Unmapped(i, b, s)
           n == h.topsize - s
<1>1. IsHeap(h)
  BY DEF Sound
<1>2. /\ SameBut(i, h, {"segs"})
      /\ i.segs = [h.segs EXCEPT ![1].size = h.segs[1].size - s]
  <2>1. h = [f \in HeapFields |-> h[f]]
    BY <1>1 DEF IsHeap
  <2> QED
    BY <2>1 DEF SameBut, IsHeap, HeapFields
<1> HIDE DEF i, b
<1>3. /\ SameBut(k, h, {"segs", "backed", "footprint"}) /\ k.segs = i.segs
      /\ k.backed = h.backed \ GranulesOf(b, s) /\ k.footprint = h.footprint - s
  BY <1>2 DEF SameBut, IsHeap, HeapFields, Unmapped
<1>4. g = InitTop(k, h.top, n)
  BY DEF Cut, b, i
<1>5. b = End(h.segs[1]) - s /\ n = h.topsize - s
  BY DEF b
<1>6. k.segs = [h.segs EXCEPT ![1].size = h.segs[1].size - s]
  BY <1>2, <1>3
<1> HIDE DEF k, n
<1> DEFINE none == {}
<1>s. Sound(h, L, none)
  OBVIOUS
<1> HIDE DEF none
<1>7. /\ Sound(g, L, none) /\ Spares(h, g, L) /\ g.backed \subseteq h.backed
      /\ g.footprint <= h.footprint
      /\ SameBut(g, h, {"chunk", "topsize", "segs", "backed", "footprint", "trimcheck"})
  BY <1>s, <1>3, <1>4, <1>5, <1>6, ShrinkTop
<1>8. SameBut(g, h, ReturnFields)
  BY <1>7 DEF SameBut, ReturnFields, HeapFields
<1> QED
  BY <1>7, <1>8 DEF Returned, none

\* sm_system_trim leaves the heap sound and the blocks untouched.
LEMMA TrimSound ==
  ASSUME NEW h, NEW L, Sound(h, L, {}), NEW padding \in Nat, NEW g \in Trim(h, padding)
  PROVE  Returned(h, g, L)
<1> DEFINE extra == IF h.topsize > padding + TopFoot THEN Extra(h, padding) ELSE 0
           cut == IF CanCut(h, extra)
                  THEN {Cut(h, extra)} \cup IF UnmapFails THEN {h} ELSE {} ELSE {h}
           stop(k) == IF k.footprint = h.footprint /\ k.topsize > k.trimcheck
                      THEN [k EXCEPT !.trimcheck = Never] ELSE k
<1>0. PICK c \in cut : \E k \in Release(c) : g = stop(k)
  BY DEF Trim
<1>1. PICK k \in Release(c) : g = stop(k)
  BY <1>0
<1>2. h.topsize \in Nat /\ IsHeap(h) /\ L \subseteq DOMAIN h.chunk
  BY TopFields, Inside
<1>3. Returned(h, h, L)
  <2>1. Spares(h, h, L)
    BY <1>2, SparesSame
  <2>2. h.footprint \in Nat
    BY FootprintNat
  <2> QED
    BY <1>2, <2>1, <2>2 DEF Returned, SameBut
<1>4. Returned(h, c, L)
  <2>1. CASE c = h
    BY <1>3, <2>1
  <2>2. CASE c # h
    <3>1. CanCut(h, extra) /\ c = Cut(h, extra)
      BY <1>0, <2>2
    <3>2. extra > 0
      BY <3>1 DEF CanCut
    <3>3. h.topsize > padding + TopFoot /\ extra = Extra(h, padding)
      BY <3>2
    <3> HIDE DEF extra
    <3>4. Whole(extra) /\ extra < h.topsize
      BY <1>2, <3>2, <3>3, ExtraWholes
    <3> QED
      BY <3>1, <3>4, CutSound
  <2> QED
    BY <2>1, <2>2
<1> HIDE DEF cut, extra
<1>5. Sound(c, L, {}) /\ IsHeap(c)
  BY <1>4 DEF Returned, SameBut
<1>6. Returned(c, k, L)
  <2>1. SameBut(c, c, {"checks"})
    BY <1>5 DEF SameBut
  <2> QED
    BY <1>1, <1>5, <2>1, ReleaseSound
<1>7. Sound(k, L, {}) /\ IsHeap(k)
  BY <1>6 DEF Returned, SameBut
<1>8. Returned(h, k, L)
  <2>1. h.footprint \in Int /\ c.footprint \in Int /\ k.footprint \in Int
    BY <1>5, <1>7, FootprintNat
  <2> QED
    BY <1>4, <1>6, <2>1, ReturnedChain
<1>9. CASE g = k
  BY <1>8, <1>9
<1>10. CASE g # k
  <2>1. g = [k EXCEPT !.trimcheck = Never]
    BY <1>1, <1>10
  <2>2. SameBut(g, k, {"trimcheck"}) /\ g.trimcheck = Never
    <3>1. k = [f \in HeapFields |-> k[f]]
      BY <1>7 DEF IsHeap
    <3> QED
      BY <2>1, <3>1 DEF SameBut, IsHeap, HeapFields
  <2>3. Never \in Nat
    <3>1. Cardinality(Space) \in Nat
      BY HeapAssumption, FS_CardinalityType
    <3> QED
      BY <3>1, Numbers DEF Never
  <2>4. k.limit \in Nat /\ k.mmapon \in BOOLEAN /\ k.checks \in 1 .. Larger(ReleaseRate, Cardinality(Space))
    BY <1>7 DEF Sound, Settings
  <2>5. /\ SameBut(g, k, {"limit", "trimcheck", "checks", "mmapon"})
        /\ g.limit = k.limit /\ g.mmapon = k.mmapon /\ g.checks = k.checks
        /\ g.backed = k.backed /\ g.footprint = k.footprint
    BY <2>2 DEF SameBut, HeapFields
  <2>6. Sound(g, L, {}) /\ Spares(k, g, L)
    BY <1>7, <2>2, <2>3, <2>4, <2>5, SettingsChanged
  <2>7. k.footprint \in Nat
    BY <1>7, FootprintNat
  <2>8. SameBut(g, k, ReturnFields)
    BY <2>2 DEF SameBut, ReturnFields, HeapFields
  <2>9. Returned(k, g, L)
    BY <2>5, <2>6, <2>7, <2>8 DEF Returned
  <2>10. h.footprint \in Int /\ g.footprint \in Int /\ k.footprint \in Int
    BY <2>5, <2>7, FootprintNat
  <2> QED
    BY <1>8, <2>9, <2>10, ReturnedChain
<1> QED
  BY <1>9, <1>10

\* sm_space_free: every way a block can be freed, with the trimming and the scan for unused
\* segments that may follow, leaves a sound heap without the block and spares the others.
THEOREM Freeing ==
  ASSUME NEW h, NEW L, Sound(h, L, {}), NEW a \in L, NEW g \in Free(h, a)
  PROVE  Returned(h, g, L \ {a})
<1>1. PICK d \in Dispose(h, a, h.chunk[a].size) : g \in AfterFree(d)
  BY DEF Free, SizeOf
<1> DEFINE k == d.heap
           M == L \ {a}
           counted == [k EXCEPT !.checks = @ - 1]
<1>2. Returned(h, k, M)
  BY <1>1, Disposal
<1> HIDE DEF M
<1>3. Sound(k, M, {}) /\ IsHeap(k)
  BY <1>2 DEF Returned, SameBut
<1>4. SameBut(counted, k, {"checks"}) /\ counted.checks = k.checks - 1
  <2>1. k = [f \in HeapFields |-> k[f]]
    BY <1>3 DEF IsHeap
  <2> QED
    BY <2>1 DEF SameBut, IsHeap, HeapFields
<1>5. g = k \/ Returned(k, g, M)
  <2>1. CASE d.where = "top" /\ k.topsize > k.trimcheck
    <3>1. g \in Trim(k, 0)
      BY <1>1, <2>1 DEF AfterFree
    <3> QED
      BY <1>3, <3>1, TrimSound
  <2>2. CASE d.where = "tree" /\ counted.checks = 0
    <3>1. g \in Release(counted)
      BY <1>1, <2>2 DEF AfterFree
    <3> HIDE DEF counted
    <3> QED
      BY <1>3, <1>4, <3>1, ReleaseSound
  <2>3. CASE d.where = "tree" /\ counted.checks # 0
    <3>1. g = counted
      BY <1>1, <2>3 DEF AfterFree
    <3> HIDE DEF counted
    <3>2. /\ k.limit \in Nat /\ k.mmapon \in BOOLEAN /\ k.trimcheck \in Nat
          /\ k.checks \in 1 .. Larger(ReleaseRate, Cardinality(Space))
      BY <1>3 DEF Sound, Settings
    <3>3. counted.checks \in 1 .. Larger(ReleaseRate, Cardinality(Space))
      <4>1. Cardinality(Space) \in Nat
        BY HeapAssumption, FS_CardinalityType
      <4>2. Larger(ReleaseRate, Cardinality(Space)) \in Nat
        BY <4>1, Numbers DEF Larger
      <4> QED
        BY <1>4, <2>3, <3>2, <4>2
    <3>4. /\ counted.limit = k.limit /\ counted.mmapon = k.mmapon /\ counted.trimcheck = k.trimcheck
          /\ SameBut(counted, k, {"limit", "trimcheck", "checks", "mmapon"})
          /\ counted.backed = k.backed /\ counted.footprint = k.footprint
          /\ SameBut(counted, k, ReturnFields)
      BY <1>4 DEF SameBut, HeapFields, ReturnFields
    <3>5. Sound(counted, M, {}) /\ Spares(k, counted, M)
      BY <1>3, <3>2, <3>3, <3>4, SettingsChanged
    <3>6. k.footprint \in Nat
      BY <1>3, FootprintNat
    <3>7. counted.footprint <= k.footprint /\ counted.backed \subseteq k.backed
      BY <3>4, <3>6
    <3> QED
      BY <3>1, <3>4, <3>5, <3>7 DEF Returned
  <2>4. CASE d.where # "tree" /\ ~(d.where = "top" /\ k.topsize > k.trimcheck)
    BY <1>1, <2>4 DEF AfterFree
  <2> QED
    BY <2>1, <2>2, <2>3, <2>4
<1>6. CASE g = k
  BY <1>2, <1>6 DEF M
<1>7. CASE Returned(k, g, M)
  <2>1. h.footprint \in Int /\ g.footprint \in Int /\ k.footprint \in Int
    <3>1. Sound(g, M, {})
      BY <1>7 DEF Returned
    <3> QED
      BY <1>3, <3>1, FootprintNat
  <2> HIDE DEF k
  <2>2. M \subseteq M
    OBVIOUS
  <2>3. Returned(h, g, M)
    BY <1>2, <1>7, <2>1, <2>2, ReturnedChain
  <2> QED
    BY <2>3 DEF M
<1> QED
  BY <1>5, <1>6, <1>7

----------------------------------------------------------------------------
(* Aligning. *)

\* One chunk of its own mapping has moved up inside it.
MovedUp(C, D, a, p) ==
  /\ DOMAIN D = (DOMAIN C \ {a}) \cup {p}
  /\ \A b \in DOMAIN C : b # a /\ b # p => D[b] = C[b]
  /\ D[p].size = C[a].size - (p - a) /\ D[p].foot = C[a].foot + (p - a)
  /\ ~D[p].cin /\ ~D[p].pin

\* A mapping whose chunk moves up in it lends what it lent.
LEMMA LentMoved ==
  ASSUME NEW C, NEW S, NEW B, NEW F, Lent(C, S, B, F), Heads(C), NEW a \in Maps(C), NEW p \in Nat,
         a < p, p \notin DOMAIN C, NEW D, MovedUp(C, D, a, p)
  PROVE  Lent(D, S, B, F)
<1> DEFINE P(i) == GranulesOf(S[i].base, S[i].size)
           M(x) == GranulesOf(MapBase(C, x), MapLength(C, x))
           N(x) == GranulesOf(MapBase(D, x), MapLength(D, x))
           old(x) == IF x = p THEN a ELSE x
<1>1. /\ B \subseteq Space /\ F = Granule * Cardinality(B)
      /\ \A i \in DOMAIN S : Whole(S[i].base) /\ Whole(S[i].size) /\ P(i) \subseteq B
      /\ \A i, k \in DOMAIN S : i # k => P(i) \cap P(k) = {}
      /\ \A x \in Maps(C) : Whole(MapBase(C, x)) /\ Whole(MapLength(C, x)) /\ M(x) \subseteq B
                            /\ \A i \in DOMAIN S : M(x) \cap P(i) = {}
      /\ \A x, y \in Maps(C) : x # y => M(x) \cap M(y) = {}
  BY DEF Lent
<1>2. a \in DOMAIN C /\ a \in Nat /\ C[a].size \in Nat /\ C[a].foot \in Nat
  BY ChunkFields DEF Maps
<1>3. MapBase(D, p) = MapBase(C, a) /\ MapLength(D, p) = MapLength(C, a)
  <2>1. D[p].size = C[a].size - (p - a) /\ D[p].foot = C[a].foot + (p - a)
    BY DEF MovedUp
  <2>2. p - D[p].foot = a - C[a].foot
    BY <1>2, <2>1
  <2>3. D[p].size + D[p].foot + MapFootPad = C[a].size + C[a].foot + MapFootPad
    BY <1>2, <2>1, Numbers
  <2> QED
    BY <2>2, <2>3 DEF MapBase, MapLength
<1>4. Maps(D) = (Maps(C) \ {a}) \cup {p}
  BY DEF Maps, MovedUp
<1>5. \A x \in Maps(D) : /\ old(x) \in Maps(C) /\ MapBase(D, x) = MapBase(C, old(x))
                         /\ MapLength(D, x) = MapLength(C, old(x))
  <2> SUFFICES ASSUME NEW x \in Maps(D)
               PROVE  /\ old(x) \in Maps(C) /\ MapBase(D, x) = MapBase(C, old(x))
                      /\ MapLength(D, x) = MapLength(C, old(x))
    OBVIOUS
  <2>1. CASE x = p
    BY <1>3, <2>1
  <2>2. CASE x # p
    <3>1. x \in Maps(C) /\ x # a
      BY <1>4, <2>2
    <3>2. D[x] = C[x]
      BY <2>2, <3>1 DEF MovedUp, Maps
    <3> QED
      BY <2>2, <3>1, <3>2 DEF MapBase, MapLength
  <2> QED
    BY <2>1, <2>2
<1>6. \A x \in Maps(D) : N(x) = M(old(x))
  BY <1>5
<1>7. \A x, y \in Maps(D) : x # y => old(x) # old(y)
  BY <1>4
<1>8. \A x \in Maps(D) : /\ Whole(MapBase(D, x)) /\ Whole(MapLength(D, x)) /\ N(x) \subseteq B
                         /\ \A i \in DOMAIN S : N(x) \cap P(i) = {}
  <2> SUFFICES ASSUME NEW x \in Maps(D)
               PROVE  /\ Whole(MapBase(D, x)) /\ Whole(MapLength(D, x)) /\ N(x) \subseteq B
                      /\ \A i \in DOMAIN S : N(x) \cap P(i) = {}
    OBVIOUS
  <2>1. old(x) \in Maps(C) /\ N(x) = M(old(x))
    BY <1>5, <1>6
  <2>2. Whole(MapBase(D, x)) /\ Whole(MapLength(D, x))
    BY <1>1, <1>5
  <2> HIDE DEF N, M, P, old
  <2> QED
    BY <1>1, <2>1, <2>2
<1>9. \A x, y \in Maps(D) : x # y => N(x) \cap N(y) = {}
  <2> SUFFICES ASSUME NEW x \in Maps(D), NEW y \in Maps(D), x # y PROVE N(x) \cap N(y) = {}
    OBVIOUS
  <2>1. old(x) \in Maps(C) /\ N(x) = M(old(x)) /\ old(y) \in Maps(C) /\ N(y) = M(old(y))
    BY <1>5, <1>6
  <2>2. old(x) # old(y)
    BY <1>7
  <2> HIDE DEF N, M, P, old
  <2> QED
    BY <1>1, <2>1, <2>2
<1> QED
  BY <1>1, <1>8, <1>9 DEF Lent

\* A mapping lies in no segment.
LEMMA OutsideSegments ==
  ASSUME NEW h, NEW L, NEW U, Sound(h, L, U), NEW a \in Maps(h.chunk), NEW p \in Nat,
         a <= p, p < a + h.chunk[a].size
  PROVE  \A i \in DOMAIN h.segs : ~Holds(h.segs[i], p)
<1> SUFFICES ASSUME NEW i \in DOMAIN h.segs, Holds(h.segs[i], p) PROVE FALSE
  OBVIOUS
<1> DEFINE b == MapBase(h.chunk, a)
           n == MapLength(h.chunk, a)
           c == h.segs[i].base
           m == h.segs[i].size
<1>1. /\ Whole(b) /\ Whole(n) /\ b \in Nat /\ n \in Nat /\ b <= a /\ a + h.chunk[a].size < b + n
      /\ a \in Nat /\ h.chunk[a].size \in Nat
  BY MappingFields
<1>2. Whole(c) /\ Whole(m) /\ GranulesOf(b, n) \cap GranulesOf(c, m) = {}
  BY DEF Sound, Lent
<1>3. c <= p /\ p < c + m
  BY DEF Holds
<1> HIDE DEF b, n, c, m
<1>4. b + n <= c \/ c + m <= b
  BY <1>1, <1>2, GranulesApart
<1>5. c \in Nat /\ m \in Nat
  BY <1>2, GranulesApart
<1> QED
  BY <1>1, <1>3, <1>4, <1>5

\* In a mapping the leader is what the chunk moved over.
LEMMA LeaderMapped ==
  ASSUME NEW h, NEW L, Sound(h, L, {}), NEW a \in L, ~h.chunk[a].cin,
         NEW p \in Nat, a < p, p < a + h.chunk[a].size,
         NEW g, SameBut(g, h, {"chunk"}), Heads(g.chunk), MovedUp(h.chunk, g.chunk, a, p)
  PROVE  Sound(g, (L \ {a}) \cup {p}, {}) /\ p \notin L /\ Spares(h, g, L \ {a})
<1> DEFINE C == h.chunk
           D == g.chunk
<1>1. a \in Maps(C) /\ a \in DOMAIN C /\ Heads(C)
  BY BlockUse, Inside DEF Maps, IsMapped
<1>2. Apart(C) /\ Lent(C, h.segs, h.backed, h.footprint)
  BY DEF Sound, Shape
<1>3. a \in Nat /\ C[a].size \in Nat /\ C[a].foot \in Nat
  BY <1>1, ChunkFields
<1> HIDE DEF C, D
<1>m. MovedUp(C, D, a, p)
  BY DEF C, D
<1>4. p \notin DOMAIN C
  <2>1. p < a + C[a].size
    BY DEF C
  <2> QED
    BY <1>1, <1>2, <1>3, <2>1 DEF Apart
<1>5. \A x \in DOMAIN D : x = p \/ (x \in DOMAIN C /\ x # a /\ D[x] = C[x])
  BY <1>m DEF MovedUp
<1>6. \A x \in DOMAIN C : x = a \/ (x \in DOMAIN D /\ x # p /\ D[x] = C[x])
  BY <1>m, <1>4 DEF MovedUp
<1>7. p \in DOMAIN D /\ ~D[p].cin /\ ~D[p].pin /\ p + D[p].size = a + C[a].size /\ ~C[a].cin /\ ~C[a].pin
  <2>1. D[p].size = C[a].size - (p - a)
    BY <1>m DEF MovedUp
  <2>2. p + D[p].size = a + C[a].size
    BY <1>3, <2>1
  <2> QED
    BY <1>1, <1>m, <2>2 DEF MovedUp, Maps
<1>8. Apart(D)
  <2> SUFFICES ASSUME NEW x \in DOMAIN D, NEW y \in DOMAIN D, x < y PROVE x + D[x].size <= y
    BY DEF Apart
  <2>0. x \in Nat /\ y \in Nat /\ p < a + C[a].size
    <3>1. DOMAIN D \subseteq Nat
      BY DEF Heads, D
    <3> QED
      BY <3>1 DEF C
  <2>1. CASE x = p
    <3>1. y \in DOMAIN C /\ a < y
      BY <1>3, <1>5, <2>0, <2>1
    <3>2. a + C[a].size <= y
      BY <1>1, <1>2, <3>1 DEF Apart
    <3> QED
      BY <1>7, <2>1, <3>2
  <2>2. CASE x # p /\ y = p
    <3>1. x \in DOMAIN C /\ x # a /\ D[x] = C[x] /\ C[x].size \in Nat
      BY <1>1, <1>5, <2>2, ChunkFields
    <3>2. x < a => x + C[x].size <= a
      BY <1>1, <1>2, <3>1 DEF Apart
    <3>3. x > a => a + C[a].size <= x
      BY <1>1, <1>2, <3>1 DEF Apart
    <3> QED
      BY <1>3, <2>0, <2>2, <3>1, <3>2, <3>3
  <2>3. CASE x # p /\ y # p
    BY <1>2, <1>5, <2>3 DEF Apart
  <2> QED
    BY <2>1, <2>2, <2>3
<1>9. InHeap(D) = InHeap(C) /\ \A x \in InHeap(C) : D[x] = C[x]
  BY <1>5, <1>6, <1>7 DEF InHeap
<1>10. Maps(D) = (Maps(C) \ {a}) \cup {p}
  BY <1>5, <1>6, <1>7 DEF Maps
<1>11. \A x \in Maps(D) : \A i \in DOMAIN h.segs : ~Holds(h.segs[i], x)
  <2>1. \A i \in DOMAIN h.segs : ~Holds(h.segs[i], p)
    <3>1. a \in Maps(h.chunk) /\ a <= p /\ p < a + h.chunk[a].size /\ p \in Nat /\ Sound(h, L, {})
      BY <1>1, <1>3 DEF C
    <3> QED
      BY ONLY <3>1, OutsideSegments
  <2>2. ASSUME NEW x \in Maps(C) PROVE \A i \in DOMAIN h.segs : ~Holds(h.segs[i], x)
    <3>1. x \in DOMAIN C /\ x \notin InHeap(C)
      BY DEF Maps, InHeap
    <3> QED
      BY <3>1 DEF Sound, Shape, C
  <2> QED
    BY <1>10, <2>1, <2>2
<1>12. /\ g.segs = h.segs /\ g.backed = h.backed /\ g.footprint = h.footprint /\ g.least = h.least
       /\ SameBut(g, h, {"chunk", "backed", "footprint", "least"})
  BY DEF SameBut, HeapFields
<1>13. Lent(D, h.segs, h.backed, h.footprint)
  BY <1>1, <1>2, <1>4, <1>m, LentMoved
<1>14. h.least \in Nat /\ \A x \in DOMAIN D : x >= h.least
  <2>1. h.least \in Nat /\ \A x \in DOMAIN C : x >= h.least
    BY DEF Sound, Settings, C
  <2> QED
    BY <1>1, <1>3, <1>5, <2>1
<1> DEFINE none == {}
<1>s. Sound(h, L, none)
  OBVIOUS
<1> HIDE DEF none
<1>15. Sound(g, (L \ Maps(C)) \cup Maps(D), none)
  <2>1. /\ Heads(g.chunk) /\ Apart(g.chunk) /\ InHeap(g.chunk) = InHeap(h.chunk)
        /\ \A x \in InHeap(h.chunk) : g.chunk[x] = h.chunk[x]
        /\ \A x \in Maps(g.chunk) : \A i \in DOMAIN h.segs : ~Holds(h.segs[i], x)
        /\ Lent(g.chunk, g.segs, g.backed, g.footprint)
        /\ g.least \in Nat /\ g.least <= h.least /\ \A x \in DOMAIN g.chunk : x >= g.least
    BY <1>8, <1>9, <1>11, <1>12, <1>13, <1>14 DEF C, D
  <2> QED
    BY <1>s, <1>12, <2>1, SoundMaps DEF C, D
<1>16. Maps(C) \subseteq L
  BY MappingFields DEF C
<1>17. (L \ Maps(C)) \cup Maps(D) = (L \ {a}) \cup {p}
  <2> DEFINE m == Maps(C)
             k == Maps(D)
  <2>1. k = (m \ {a}) \cup {p} /\ m \subseteq L /\ a \in m
    BY <1>1, <1>10, <1>16
  <2> HIDE DEF m, k
  <2>2. (L \ m) \cup k = (L \ {a}) \cup {p}
    BY ONLY <2>1
  <2> QED
    BY <2>2 DEF m, k
<1>18. L \subseteq DOMAIN C
  BY Inside DEF C
<1>19. Spares(h, g, L \ {a})
  BY <1>6, <1>18 DEF Spares, C, D
<1> QED
  BY <1>4, <1>15, <1>17, <1>18, <1>19 DEF none

\* The leader that is cut off so that the block starts aligned.
LEMMA LeaderSize ==
  ASSUME NEW a \in Nat, NEW al \in Nat \ {0}, NEW s, s = Leader(a, al), s # 0
  PROVE  s \in Nat /\ s >= MinChunk /\ s <= al + 1
<1> DEFINE z == a + 1 + al - 1
           q == z \div al
           br == q * al - 1
<1>1. z = a + al /\ z \in Nat
  OBVIOUS
<1>2. q \in Nat /\ q * al <= z /\ z < q * al + al
  <2> HIDE DEF z
  <2> QED
    BY <1>1, SMTT(30)
<1>3. br = RoundUp(a + 1, al) - 1
  BY DEF RoundUp
<1>4. q * al \in Nat
  BY <1>2, Products
<1> DEFINE y == q * al
<1>5. y \in Nat /\ y <= a + al /\ a + al < y + al /\ br = y - 1
  BY <1>1, <1>2, <1>4
<1> HIDE DEF z, q, y
<1>6. br \in Int /\ br >= a /\ br <= a + al - 1
  BY <1>5
<1> HIDE DEF br
<1>7. \/ br - a >= MinChunk /\ s = br - a
      \/ br = a + 1 /\ s = br + al - a
  <2>1. br # a
    BY <1>3 DEF Leader
  <2>2. CASE br - a >= MinChunk
    BY <1>3, <2>1, <2>2 DEF Leader
  <2>3. CASE ~(br - a >= MinChunk)
    <3>1. br = a + 1
      BY <1>6, <2>1, <2>3, Numbers
    <3> QED
      BY <1>3, <2>1, <2>3, <3>1 DEF Leader
  <2> QED
    BY <2>2, <2>3
<1> QED
  BY <1>6, <1>7, Numbers

\* The block at a is now the block at p, and no other block is touched.
Realigned(h, g, L, a, p, n) ==
  /\ Sound(g, (L \ {a}) \cup {p}, {}) /\ p \notin L \ {a} /\ p \in Nat \ {0}
  /\ Spares(h, g, L \ {a}) /\ SameBut(g, h, FreeFields) /\ g.chunk[p].size >= n

\* Dropping the units before an aligned address moves the block there.
LEMMA DropLeaderSound ==
  ASSUME NEW h, NEW L, Sound(h, L, {}), NEW a \in L, NEW s \in Nat, s >= MinChunk,
         NEW n \in Nat, n >= MinChunk, s + n <= h.chunk[a].size, NEW g \in DropLeader(h, a, s)
  PROVE  Realigned(h, g, L, a, a + s, n)
<1> DEFINE c == h.chunk[a]
           p == a + s
           r == c.size - s
           C == h.chunk
<1>1. /\ a \in Nat \ {0} /\ a \in DOMAIN C /\ c.size \in Nat \ {0} /\ c.foot \in Nat /\ IsHeap(h) /\ Heads(C)
  BY Inside, ChunkFields
<1>2. p \in Nat \ {0} /\ r \in Nat /\ r >= n /\ a < p /\ p < a + c.size /\ s + r = c.size /\ r >= MinChunk
      /\ s \in Nat \ {0} /\ r \in Nat \ {0}
  BY <1>1, Numbers
<1>3. (IsMapped(c) <=> ~c.cin) /\ c.cin \in BOOLEAN
  BY BlockUse
<1>4. CASE ~c.cin
  <2> DEFINE D == [b \in (DOMAIN C \ {a}) \cup {p} |->
                     IF b = p THEN [c EXCEPT !.foot = c.foot + s, !.size = c.size - s] ELSE C[b]]
  <2>1. g = [h EXCEPT !.chunk = D]
    <3>1. IsMapped(h.chunk[a])
      BY <1>3, <1>4
    <3>2. g = [h EXCEPT !.chunk = [b \in (DOMAIN @ \ {a}) \cup {p} |->
                IF b = p THEN [c EXCEPT !.foot = c.foot + s, !.size = c.size - s] ELSE @[b]]]
      BY <3>1 DEF DropLeader
    <3>3. h = [f \in HeapFields |-> h[f]] /\ "chunk" \in HeapFields
      BY <1>1 DEF IsHeap, HeapFields
    <3> QED
      BY <3>2, <3>3
  <2>2. D[p].size = r /\ D[p].foot = c.foot + s /\ ~D[p].cin /\ ~D[p].pin /\ D[p] \in Header
        /\ ~c.cin /\ ~c.pin
    <3>1. c = [size |-> c.size, cin |-> c.cin, pin |-> c.pin, foot |-> c.foot] /\ c.pin \in BOOLEAN
      BY <1>1, ChunkFields
    <3>2. ~c.pin
      BY <1>3, <1>4 DEF IsMapped
    <3>3. D[p] = [c EXCEPT !.foot = c.foot + s, !.size = c.size - s]
      OBVIOUS
    <3>4. c.foot + s \in Nat /\ c.size - s \in Nat \ {0}
      BY <1>1, <1>2
    <3>5. D[p] = [size |-> c.size - s, cin |-> c.cin, pin |-> c.pin, foot |-> c.foot + s]
      <4> HIDE DEF c, C, D, p
      <4> QED
        BY ONLY <3>1, <3>3
    <3> HIDE DEF c, C, D, p
    <3> QED
      BY <1>2, <1>3, <1>4, <3>1, <3>2, <3>4, <3>5 DEF Header, r
  <2>3. DOMAIN D = (DOMAIN C \ {a}) \cup {p} /\ D = [b \in DOMAIN D |-> D[b]]
        /\ \A b \in DOMAIN C : b # a /\ b # p => D[b] = C[b]
    OBVIOUS
  <2> HIDE DEF D
  <2>4. g.chunk = D /\ SameBut(g, h, {"chunk"})
    BY <1>1, <2>1, NewChunks
  <2>5. Heads(D)
    BY <1>1, <1>2, <2>2, <2>3 DEF Heads
  <2>6. MovedUp(C, D, a, p)
    <3>1. p - a = s
      BY <1>1
    <3> QED
      BY <2>2, <2>3, <3>1 DEF MovedUp
  <2>7. /\ Sound(h, L, {}) /\ a \in L /\ ~h.chunk[a].cin /\ p \in Nat /\ a < p
        /\ p < a + h.chunk[a].size /\ SameBut(g, h, {"chunk"}) /\ Heads(g.chunk)
        /\ MovedUp(h.chunk, g.chunk, a, p)
    BY <1>2, <1>4, <2>4, <2>5, <2>6
  <2> HIDE DEF p
  <2>8. Sound(g, (L \ {a}) \cup {p}, {}) /\ p \notin L /\ Spares(h, g, L \ {a})
    BY ONLY <2>7, LeaderMapped
  <2>9. SameBut(g, h, FreeFields) /\ g.chunk[p].size >= n
    BY <1>2, <2>2, <2>4 DEF SameBut, FreeFields, HeapFields
  <2>10. Realigned(h, g, L, a, p, n)
    BY <1>2, <2>8, <2>9 DEF Realigned
  <2> QED
    BY <2>10 DEF p
<1>5. CASE c.cin
  <2> DEFINE e == a + c.size
             k == SetInUse(SetInUse(h, p, r), a, s)
             M == L \cup {p}
             none == {}
  <2>1. PICK d \in Dispose(k, a, s) : g = d.heap
    BY <1>3, <1>5 DEF DropLeader
  <2>2. /\ Span(h, a, e, L, {}) /\ \A b \in DOMAIN C : a <= b /\ b < e => b = a
    BY <1>5, BlockSpan
  <2>3. L \ (a .. e - 1) = L \ {a}
    BY <1>5, OneOf
  <2>4. p \notin DOMAIN C /\ L \subseteq DOMAIN C
    BY <1>1, <1>2, <2>2, Inside
  <2>s. /\ Sound(h, L, none) /\ Span(h, a, e, L, none) /\ e = a + c.size /\ p = a + s
        /\ k = SetInUse(SetInUse(h, a + s, r), a, s)
    BY <2>2
  <2> HIDE DEF none, e, k
  <2>5. Sound(k, (L \ (a .. e - 1)) \cup {a, p}, none \ (a .. e - 1))
    <3>1. a + s + r = e
      BY <1>1, <1>2, <2>s
    <3>2. /\ Sound(h, L, none) /\ Span(h, a, e, L, none) /\ s \in Nat /\ r \in Nat /\ s >= MinChunk
          /\ r >= MinChunk /\ a + s + r = e /\ k = SetInUse(SetInUse(h, a + s, r), a, s) /\ p = a + s
      BY <1>2, <2>s, <3>1
    <3> HIDE DEF p, r
    <3>3. Sound(SetInUse(SetInUse(h, a + s, r), a, s), (L \ (a .. e - 1)) \cup {a, a + s}, none \ (a .. e - 1))
      BY ONLY <3>2, CutLeader
    <3> QED
      BY <3>2, <3>3
  <2>6. (L \ (a .. e - 1)) \cup {a, p} = M /\ none \ (a .. e - 1) = {}
    BY <2>3 DEF none
  <2>7. Sound(k, M, {})
    BY <2>5, <2>6
  <2>8. Spares(h, k, L \ {a}) /\ SameBut(k, h, {"chunk"})
    <3>1. a + s + r = e
      BY <1>1, <1>2, <2>s
    <3>2. /\ Sound(h, L, none) /\ Span(h, a, e, L, none) /\ s \in Nat \ {0} /\ r \in Nat \ {0}
          /\ a + s + r = e /\ k = SetInUse(SetInUse(h, a + s, r), a, s)
      BY <1>2, <2>s, <3>1
    <3> HIDE DEF p, r
    <3>3. Spares(h, k, L \ (a .. e - 1)) /\ SameBut(k, h, {"chunk"})
      BY ONLY <3>2, WritesSpareSpan
    <3> QED
      BY <2>3, <3>3
  <2>9. k.chunk[a].size = s /\ k.chunk[p].size = r /\ k.chunk[a].cin
    <3>1. /\ IsHeap(h) /\ Heads(h.chunk) /\ a \in Nat \ {0} /\ s \in Nat \ {0} /\ r \in Nat \ {0}
      BY <1>1, <1>2
    <3>2. \/ k = SetFree(SetInUsePart(h, a, s), a + s, r)
          \/ k = SetFree(SetInUse(h, a, s), a + s, r)
          \/ k = SetInUsePart(SetFree(h, a + s, r), a, s)
          \/ k = SetInUseWhole(SetInUse(h, a, s), a + s, r)
          \/ k = SetInUse(SetInUse(h, a + s, r), a, s)
      BY <2>s
    <3> HIDE DEF p, r
    <3>3. k.chunk[a].size = s /\ k.chunk[a + s].size = r /\ k.chunk[a].cin
      BY ONLY <3>1, <3>2, WritesSizes
    <3> QED
      BY <3>3, <2>s
  <2> HIDE DEF p, r, c, C
  <2>10. Frees(k, g, M, M \ {a})
    <3>1. a \in M /\ s = k.chunk[a].size
      BY <2>9
    <3> HIDE DEF M
    <3> QED
      BY <2>1, <2>7, <2>9, <3>1, DisposeInHeap
  <2>11. M \ {a} = (L \ {a}) \cup {p} /\ p \notin L
    BY <1>2, <2>4
  <2>12. Sound(g, (L \ {a}) \cup {p}, {}) /\ Spares(k, g, (L \ {a}) \cup {p}) /\ SameBut(g, k, FreeFields)
    BY <2>10, <2>11 DEF Frees
  <2>13. Spares(h, g, L \ {a}) /\ g.chunk[p].size = r
    <3>1. Spares(k, g, L \ {a})
      BY <2>12 DEF Spares
    <3>2. g.chunk[p].size = r
      BY <2>9, <2>12 DEF Spares
    <3> QED
      BY <2>8, <3>1, <3>2, SparesChain
  <2>14. SameBut(g, h, FreeFields)
    BY <2>8, <2>12 DEF SameBut, FreeFields, HeapFields
  <2>15. Realigned(h, g, L, a, p, n)
    BY <1>2, <2>11, <2>12, <2>13, <2>14 DEF Realigned
  <2> QED
    BY <2>15 DEF p
<1> QED
  BY <1>3, <1>4, <1>5

\* Dropping the units behind the request leaves the block as large as asked.
LEMMA DropTailSound ==
  ASSUME NEW h, NEW L, Sound(h, L, {}), NEW a \in L, NEW n \in Nat, n >= MinChunk,
         n <= h.chunk[a].size, NEW g \in DropTail(h, a, n)
  PROVE  /\ Sound(g, L, {}) /\ Spares(h, g, L \ {a}) /\ SameBut(g, h, FreeFields)
         /\ g.chunk[a].size >= n
<1>1. IsHeap(h) /\ L \subseteq DOMAIN h.chunk
  BY Inside
<1>2. IsMapped(h.chunk[a]) <=> ~h.chunk[a].cin
  BY BlockUse
<1>3. CASE g = h
  <2>1. Spares(h, h, L \ {a})
    BY <1>1, SparesSame
  <2> QED
    BY <1>1, <1>3, <2>1 DEF SameBut
<1>4. CASE g # h
  <2> DEFINE e == a + h.chunk[a].size
             all == h.chunk[a].size
             none == {}
  <2>1. h.chunk[a].cin /\ g \in Shorten(h, a, all, n)
    BY <1>2, <1>4 DEF DropTail, SizeOf
  <2>2. Span(h, a, e, L, {}) /\ L \ (a .. e - 1) = L \ {a} /\ a \in Nat /\ all \in Nat
    BY <2>1, BlockSpan, OneOf
  <2>3. /\ Sound(h, L, none) /\ Span(h, a, e, L, none) /\ none \subseteq a .. e - 1
        /\ all = e - a /\ n <= all
    BY <2>2
  <2> HIDE DEF e, all, none
  <2>4. Reworks(h, g, L, a, n)
    BY <2>1, <2>2, <2>3, ShortenSound
  <2> QED
    BY <2>4 DEF Reworks
<1> QED
  BY <1>3, <1>4

\* sm_internal_memory_align: cutting the leader and the tail off the chunk it asked for
\* leaves one block of the wanted size, and a sound heap around it.
THEOREM Aligning ==
  ASSUME NEW h, NEW L, Sound(h, L, {}), NEW a \in L, NEW n \in Nat, n >= MinChunk,
         NEW al \in Nat \ {0}, h.chunk[a].size >= Pad(AlignRequest(n, al)),
         NEW o \in Align(h, a, n, al)
  PROVE  Realigned(h, o.heap, L, a, o.at, n)
<1> DEFINE s == Leader(a, al)
           p == a + s
           m == n + al + 2
<1>1. IsHeap(h) /\ L \subseteq DOMAIN h.chunk /\ a \in Nat \ {0} /\ h.chunk[a].size \in Nat
  BY Inside, ChunkFields
<1>2. h.chunk[a].size >= m
  BY Numbers DEF Pad, AlignRequest, Larger
<1>3. PICK l \in (IF s = 0 THEN {h} ELSE DropLeader(h, a, s)) : o.at = p /\ o.heap \in DropTail(l, p, n)
  BY DEF Align, Outcome
<1>4. s = 0 \/ (s \in Nat /\ s >= MinChunk /\ s <= al + 1)
  BY <1>1, LeaderSize
<1> HIDE DEF s
<1>5. Realigned(h, l, L, a, p, n)
  <2>1. CASE s = 0
    <3>1. l = h /\ p = a
      BY <1>1, <1>3, <2>1
    <3>2. (L \ {a}) \cup {a} = L
      OBVIOUS
    <3>3. Spares(h, h, L \ {a})
      BY <1>1, SparesSame
    <3>4. SameBut(h, h, FreeFields)
      BY <1>1 DEF SameBut
    <3>5. h.chunk[a].size >= n
      BY <1>1, <1>2
    <3> QED
      BY <1>1, <3>1, <3>2, <3>3, <3>4, <3>5 DEF Realigned
  <2>2. CASE s # 0
    <3>1. s \in Nat /\ s >= MinChunk /\ s + n <= h.chunk[a].size
      BY <1>1, <1>2, <1>4, <2>2
    <3>2. l \in DropLeader(h, a, s)
      BY <1>3, <2>2
    <3> QED
      BY <3>1, <3>2, DropLeaderSound
  <2> QED
    BY <2>1, <2>2
<1> HIDE DEF p, m
<1> DEFINE M == (L \ {a}) \cup {p}
<1>6. /\ Sound(l, M, {}) /\ p \notin L \ {a} /\ p \in Nat \ {0} /\ Spares(h, l, L \ {a})
      /\ SameBut(l, h, FreeFields) /\ l.chunk[p].size >= n /\ p \in M
  BY <1>5 DEF Realigned
<1>7. M \ {p} = L \ {a}
  BY <1>6
<1>8. l.chunk[p].size \in Nat
  <2>1. p \in DOMAIN l.chunk /\ Heads(l.chunk)
    BY <1>6, Inside
  <2> QED
    BY <2>1, ChunkFields
<1> HIDE DEF M
<1>9. /\ Sound(o.heap, M, {}) /\ Spares(l, o.heap, M \ {p}) /\ SameBut(o.heap, l, FreeFields)
      /\ o.heap.chunk[p].size >= n
  BY <1>3, <1>6, <1>8, DropTailSound
<1>10. Spares(h, o.heap, L \ {a})
  BY <1>6, <1>7, <1>9, SparesChain
<1>11. SameBut(o.heap, h, FreeFields)
  BY <1>6, <1>9 DEF SameBut, FreeFields, HeapFields
<1> QED
  BY <1>3, <1>6, <1>9, <1>10, <1>11 DEF Realigned, M

----------------------------------------------------------------------------
(* A new space. *)

\* A space with nothing in it but its own state, before the top is made.
Blank(base, size, external) ==
  [chunk |-> <<>>, small |-> [n \in SmallSizes |-> <<>>], tree |-> {},
   dv |-> 0, dvsize |-> 0, top |-> 0, topsize |-> 0,
   segs |-> <<[base |-> base, size |-> size, external |-> external, rec |-> base]>>,
   state |-> base, backed |-> GranulesOf(base, size),
   footprint |-> size, limit |-> 0, least |-> base,
   trimcheck |-> TrimThreshold, checks |-> ReleaseRate, mmapon |-> TRUE]

\* What that space is: its own chunk, the top, and nothing else.
Fresh(g, b, s, x, t, n) ==
  /\ IsHeap(g) /\ Heads(g.chunk) /\ DOMAIN g.chunk = {b, t}
  /\ b \in Nat \ {0} /\ t \in Nat \ {0} /\ n \in Nat \ {0} /\ s \in Nat /\ b < t
  /\ t + n = b + s - TopFoot
  /\ g.chunk[b].cin /\ g.chunk[b].pin /\ g.chunk[b].size = StateChunk
  /\ ~g.chunk[t].cin /\ g.chunk[t].pin /\ g.chunk[t].size = n
  /\ g.small = [m \in SmallSizes |-> <<>>] /\ g.tree = {} /\ g.dv = 0 /\ g.dvsize = 0
  /\ g.top = t /\ g.topsize = n /\ g.state = b
  /\ g.segs = <<[base |-> b, size |-> s, external |-> x, rec |-> b]>>
  /\ g.backed = GranulesOf(b, s) /\ g.footprint = s /\ g.limit = 0 /\ g.least = b
  /\ g.trimcheck = TrimThreshold /\ g.checks = ReleaseRate /\ g.mmapon = TRUE

\* What creating a space writes.
LEMMA NewSpaceFields ==
  ASSUME NEW b, Whole(b), NEW s, Whole(s), NEW x \in BOOLEAN, NEW g, g = NewSpace(b, s, x),
         NEW t, t = b + StateChunk, NEW n, n = s - StateChunk - TopFoot
  PROVE  Fresh(g, b, s, x, t, n)
<1> DEFINE h == Blank(b, s, x)
           k == SetInUsePart(h, b, StateChunk)
<1>1. b \in Nat \ {0} /\ s \in Nat \ {0} /\ s >= Granule
  <2>1. b \in Nat \ {0} /\ s \in Nat \ {0}
    BY WholeSum
  <2>2. PICK m \in Nat \ {0} : s = m * Granule
    BY DEF Whole
  <2>3. 1 * Granule <= m * Granule /\ 1 * Granule = Granule
    <3>1. 1 \in Nat /\ 1 <= m /\ m \in Nat
      OBVIOUS
    <3>2. 1 * Granule <= m * Granule
      BY <3>1, Numbers, Products
    <3> QED
      BY <3>2, Numbers
  <2> QED
    BY <2>1, <2>2, <2>3
<1>2. t \in Nat \ {0} /\ n \in Nat \ {0} /\ b < t /\ t + n = b + s - TopFoot
  BY <1>1, Numbers
<1>3. g = InitTop(k, t, n)
  BY DEF NewSpace, Blank
<1>4. IsHeap(h) /\ h.chunk = <<>>
  BY DEF Blank, IsHeap, HeapFields
<1>5. DOMAIN h.chunk = {} /\ Heads(h.chunk)
  <2>1. DOMAIN << >> = {}
    OBVIOUS
  <2>2. << >> = [a \in {} |-> << >>[a]]
    OBVIOUS
  <2> QED
    BY <1>4, <2>1, <2>2 DEF Heads
<1>6. /\ h.small = [m \in SmallSizes |-> <<>>] /\ h.tree = {} /\ h.dv = 0 /\ h.dvsize = 0 /\ h.state = b
      /\ h.segs = <<[base |-> b, size |-> s, external |-> x, rec |-> b]>>
      /\ h.backed = GranulesOf(b, s) /\ h.footprint = s /\ h.limit = 0 /\ h.least = b
      /\ h.checks = ReleaseRate /\ h.mmapon = TRUE
  BY DEF Blank
<1> HIDE DEF h
<1>7. /\ SameBut(k, h, {"chunk"}) /\ IsHeap(k) /\ Heads(k.chunk)
      /\ Overwrites(h.chunk, k.chunk, b, StateChunk) /\ k.chunk[b].cin /\ k.chunk[b].pin
  <2>1. StateChunk \in Nat \ {0}
    BY Numbers
  <2> QED
    BY <1>1, <1>4, <1>5, <2>1, UsePartOf
<1> HIDE DEF k
<1>8. DOMAIN k.chunk = {b} /\ k.chunk[b].size = StateChunk
  BY <1>5, <1>7 DEF Overwrites
<1>9. /\ SameBut(g, k, {"chunk", "top", "topsize", "trimcheck"})
      /\ g.top = t /\ g.topsize = n /\ g.trimcheck = TrimThreshold
      /\ Heads(g.chunk) /\ Overwrites(k.chunk, g.chunk, t, n)
      /\ ~g.chunk[t].cin /\ g.chunk[t].pin /\ g.chunk[t].size = n
  BY <1>2, <1>3, <1>7, InitTopOf
<1>10. DOMAIN g.chunk = {b, t} /\ g.chunk[b] = k.chunk[b]
  <2>1. b # t /\ b # t + n /\ b < t
    BY <1>1, <1>2
  <2> QED
    BY <1>8, <1>9, <2>1 DEF Overwrites
<1>11. /\ IsHeap(g) /\ g.small = h.small /\ g.tree = h.tree /\ g.dv = h.dv /\ g.dvsize = h.dvsize
       /\ g.state = h.state /\ g.segs = h.segs /\ g.backed = h.backed /\ g.footprint = h.footprint
       /\ g.limit = h.limit /\ g.least = h.least /\ g.checks = h.checks /\ g.mmapon = h.mmapon
  BY <1>7, <1>9 DEF SameBut, HeapFields
<1> QED
  BY <1>1, <1>2, <1>6, <1>7, <1>8, <1>9, <1>10, <1>11 DEF Fresh

\* sm_initialize_user_memory_state makes a sound space with no block in it.
LEMMA NewSpaceSound ==
  ASSUME NEW b, Whole(b), NEW s, Whole(s), NEW x \in BOOLEAN, GranulesOf(b, s) \subseteq Space,
         NEW g, g = NewSpace(b, s, x)
  PROVE  Sound(g, {}, {}) /\ g.mmapon = TRUE /\ g.limit = 0
<1> DEFINE t == b + StateChunk
           n == s - StateChunk - TopFoot
           C == g.chunk
           S == g.segs
           one == [base |-> b, size |-> s, external |-> x, rec |-> b]
<1>1. /\ IsHeap(g) /\ Heads(C) /\ DOMAIN C = {b, t}
      /\ b \in Nat \ {0} /\ t \in Nat \ {0} /\ n \in Nat \ {0} /\ s \in Nat /\ b < t
      /\ t + n = b + s - TopFoot
      /\ C[b].cin /\ C[b].pin /\ C[b].size = StateChunk
      /\ ~C[t].cin /\ C[t].pin /\ C[t].size = n
      /\ g.small = [m \in SmallSizes |-> <<>>] /\ g.tree = {} /\ g.dv = 0 /\ g.dvsize = 0
      /\ g.top = t /\ g.topsize = n /\ g.state = b
      /\ S = <<one>>
      /\ g.backed = GranulesOf(b, s) /\ g.footprint = s /\ g.limit = 0 /\ g.least = b
      /\ g.trimcheck = TrimThreshold /\ g.checks = ReleaseRate /\ g.mmapon = TRUE
  <2>1. t = b + StateChunk /\ n = s - StateChunk - TopFoot /\ C = g.chunk /\ S = g.segs
    OBVIOUS
  <2>2. g = NewSpace(b, s, x) /\ Whole(b) /\ Whole(s) /\ x \in BOOLEAN
    OBVIOUS
  <2> HIDE DEF t, n, C, S
  <2>3. Fresh(g, b, s, x, t, n)
    BY ONLY <2>1, <2>2, NewSpaceFields
  <2> QED
    BY ONLY <2>1, <2>3 DEF Fresh
<1>t. t = b + StateChunk /\ g.segs = S /\ g.chunk = C
  OBVIOUS
<1> HIDE DEF t, n, C, S
<1>2. /\ S \in Seq(Segment) /\ Len(S) = 1 /\ DOMAIN S = {1} /\ S[1] = one /\ one \in Segment
      /\ S[1].base = b /\ S[1].size = s /\ S[1].rec = b
  <2>1. one \in Segment
    BY <1>1, WholeSum DEF Segment
  <2> HIDE DEF one
  <2>2. S \in Seq(Segment) /\ Len(S) = 1 /\ DOMAIN S = {1} /\ S[1] = one
    BY <1>1, <2>1
  <2> QED
    BY <2>1, <2>2 DEF one
<1>3. Segments(S) /\ 2 .. Len(S) = {} /\ Records_(S) = {}
  BY <1>2 DEF Segments, Records_
<1>4. InHeap(C) = {b, t} /\ Maps(C) = {} /\ Idle_(C) = {t}
  <2>1. b # t
    BY <1>1
  <2> QED
    BY <1>1, <2>1 DEF InHeap, Maps, Idle_
<1>5. End(S[1]) = b + s /\ Holds(S[1], b) /\ Holds(S[1], t)
  <2>1. End(S[1]) = b + s
    BY <1>2 DEF End
  <2> QED
    BY <1>1, <1>2, <2>1, Numbers DEF Holds
<1>6. Apart(C)
  BY <1>1, <1>t DEF Apart
<1>7. Ends(C, S, t, b)
  <2>1. t + C[t].size = End(S[1]) - TopFoot
    <3>1. t + C[t].size = b + s - TopFoot
      BY <1>1
    <3>2. End(S[1]) = b + s /\ b \in Nat /\ s \in Nat /\ TopFoot \in Nat
      BY <1>1, <1>5, Numbers
    <3> QED
      BY ONLY <3>1, <3>2
  <2> QED
    BY <1>1, <1>3, <1>4, <1>5, <2>1 DEF Ends
<1>8. Linked(C, S, t, b)
  <2> SUFFICES ASSUME NEW a \in InHeap(C)
               PROVE  /\ a <= t
                      /\ a # t =>
                          /\ C[a].size >= MinChunk
                          /\ a + C[a].size \in InHeap(C) /\ Holds(S[1], a + C[a].size)
                          /\ Tells(C, a, a + C[a].size, b)
                      /\ a # S[1].base => \E c \in InHeap(C) : c + C[c].size = a /\ Holds(S[1], c)
    BY <1>2 DEF Linked, LastOf
  <2>1. b + C[b].size = t
    BY <1>1, <1>t
  <2>2. CASE a = t
    BY <1>1, <1>4, <1>5, <2>1, <2>2
  <2>3. CASE a = b
    <3>1. Tells(C, b, t, b)
      BY <1>1 DEF Tells
    <3> QED
      BY <1>1, <1>2, <1>4, <1>5, <2>1, <2>3, <3>1, Numbers, SMTT(30)
  <2> QED
    BY <1>4, <2>2, <2>3
<1>9. Shape(C, S, t, b)
  BY <1>1, <1>2, <1>3, <1>4, <1>5, <1>6, <1>7, <1>8 DEF Shape
<1>10. Owned(C, S, b, {})
  <2>1. {a \in DOMAIN C : C[a].cin \/ ~C[a].pin} = {b}
    BY <1>1
  <2> QED
    BY <1>3, <2>1 DEF Owned
<1>11. Placed(C, g.small, g.tree, g.dv, t, {})
  <2>1. \A m \in SmallSizes : g.small[m] = <<>> /\ Range(g.small[m]) = {} /\ DOMAIN g.small[m] = {}
    BY <1>1 DEF Range
  <2>2. g.small \in [SmallSizes -> Seq(Nat)]
    <3>1. <<>> \in Seq(Nat)
      OBVIOUS
    <3> QED
      BY <1>1, <3>1
  <2>3. Binned_(g.small, g.tree) = {}
    BY <1>1, <2>1, BinnedHas
  <2> QED
    BY <1>1, <1>4, <2>1, <2>2, <2>3 DEF Placed
<1>12. Sizes(C, g.dv, g.dvsize, t, g.topsize)
  BY <1>1 DEF Sizes
<1>13. Lent(C, S, g.backed, g.footprint)
  <2>1. s = Granule * Cardinality(GranulesOf(b, s))
    <3>1. PICK k, m \in Nat \ {0} : s = m * Granule /\ Cardinality(GranulesOf(b, s)) = m
      <4>1. Whole(b) /\ Whole(s)
        OBVIOUS
      <4> QED
        BY ONLY <4>1, GranulesAre
    <3> QED
      BY <3>1, Numbers
  <2> QED
    BY <1>1, <1>2, <1>4, <2>1 DEF Lent
<1>14. Settings(g)
  <2>1. Cardinality(Space) \in Nat
    BY HeapAssumption, FS_CardinalityType
  <2>2. ReleaseRate \in 1 .. Larger(ReleaseRate, Cardinality(Space))
    BY <2>1, Numbers DEF Larger
  <2>3. \A a \in {b, t} : a >= b
    BY <1>1
  <2>4. /\ g.limit \in Nat /\ g.least \in Nat /\ g.trimcheck \in Nat /\ g.mmapon \in BOOLEAN
        /\ g.checks \in 1 .. Larger(ReleaseRate, Cardinality(Space))
    <3>1. g.limit = 0 /\ g.least = b /\ b \in Nat /\ g.trimcheck = TrimThreshold
          /\ g.mmapon = TRUE /\ g.checks = ReleaseRate /\ TrimThreshold \in Nat
      BY <1>1, Numbers
    <3>2. g.checks \in 1 .. Larger(ReleaseRate, Cardinality(Space))
      BY ONLY <3>1, <2>2
    <3>3. 0 \in Nat /\ TRUE \in BOOLEAN
      OBVIOUS
    <3> QED
      <4>1. g.limit \in Nat /\ g.least \in Nat /\ g.trimcheck \in Nat
        BY ONLY <3>1, <3>3
      <4>2. g.mmapon \in BOOLEAN
        BY ONLY <3>1, <3>3
      <4> QED
        BY ONLY <4>1, <4>2, <3>2
  <2>5. \A i \in DOMAIN g.segs : g.segs[i].base >= g.least
    BY <1>1, <1>2, <1>t
  <2>6. \A a \in DOMAIN g.chunk : a >= g.least
    BY <1>1, <1>t, <2>3
  <2> QED
    BY <2>4, <2>5, <2>6 DEF Settings
<1> QED
  BY <1>1, <1>9, <1>10, <1>11, <1>12, <1>13, <1>14 DEF Sound, C, S

----------------------------------------------------------------------------
(* Freeing an array of blocks.                                             *)

\* No chunk begins where a mapping ends.
LEMMA MappingBehind ==
  ASSUME NEW h, NEW L, Sound(h, L, {}), NEW a \in Maps(h.chunk), NEW b, b = a + h.chunk[a].size
  PROVE  b \notin DOMAIN h.chunk
<1> DEFINE C == h.chunk
           S == h.segs
<1>1. SUFFICES ASSUME b \in DOMAIN C PROVE FALSE
  OBVIOUS
<1>2. /\ a \in Nat \ {0} /\ C[a].size \in Nat \ {0}
      /\ Whole(MapBase(C, a)) /\ Whole(MapLength(C, a))
      /\ MapBase(C, a) \in Nat \ {0} /\ MapLength(C, a) \in Nat \ {0}
      /\ MapBase(C, a) <= a /\ b < MapBase(C, a) + MapLength(C, a)
  BY MappingFields
<1>3. a < b /\ b \in Nat
  BY <1>2
<1>4. Lent(C, S, h.backed, h.footprint) /\ Shape(C, S, h.top, h.state)
  BY DEF Sound
<1>5. CASE b \in Maps(C)
  <2>1. /\ Whole(MapBase(C, b)) /\ Whole(MapLength(C, b))
        /\ MapBase(C, b) \in Nat \ {0} /\ MapLength(C, b) \in Nat \ {0} /\ C[b].size \in Nat \ {0}
        /\ MapBase(C, b) <= b /\ b + C[b].size < MapBase(C, b) + MapLength(C, b)
    BY <1>5, MappingFields
  <2>2. GranulesOf(MapBase(C, a), MapLength(C, a)) \cap GranulesOf(MapBase(C, b), MapLength(C, b)) = {}
    <3>1. a # b /\ a \in Maps(C)
      BY <1>2, <1>3
    <3>2. \A x, y \in Maps(C) : x # y =>
            GranulesOf(MapBase(C, x), MapLength(C, x)) \cap GranulesOf(MapBase(C, y), MapLength(C, y)) = {}
      BY <1>4 DEF Lent
    <3> QED
      BY <1>5, <3>1, <3>2
  <2>3. \/ MapBase(C, a) + MapLength(C, a) <= MapBase(C, b)
        \/ MapBase(C, b) + MapLength(C, b) <= MapBase(C, a)
    BY <1>2, <2>1, <2>2, GranulesApart
  <2> QED
    BY <1>2, <1>3, <2>1, <2>3
<1>6. CASE b \notin Maps(C)
  <2>1. b \in InHeap(C)
    BY <1>1, <1>6 DEF Maps, InHeap
  <2>2. PICK i \in DOMAIN S : Holds(S[i], b)
    BY <1>1, <1>4, <2>1 DEF Shape
  <2>3. /\ Whole(S[i].base) /\ Whole(S[i].size)
        /\ GranulesOf(MapBase(C, a), MapLength(C, a)) \cap GranulesOf(S[i].base, S[i].size) = {}
    BY <1>4 DEF Lent
  <2>4. /\ S[i].base \in Nat \ {0} /\ S[i].size \in Nat \ {0}
        /\ MapBase(C, a) + MapLength(C, a) <= S[i].base \/ S[i].base + S[i].size <= MapBase(C, a)
    BY <1>2, <2>3, GranulesApart
  <2>5. S[i].base <= b /\ b < S[i].base + S[i].size
    BY <2>2 DEF Holds
  <2> QED
    BY <1>2, <1>3, <2>4, <2>5
<1> QED
  BY <1>5, <1>6

\* The blocks of M are left, and the chunk a that stands for those to be freed.
Half(h, g, M, a) ==
  /\ Sound(g, M \cup {a}, {}) /\ a \notin M
  /\ Spares(h, g, M) /\ SameBut(g, h, ReturnFields)
  /\ g.backed \subseteq h.backed /\ g.footprint <= h.footprint

\* The next block joins the chunk that stands for those before it.
LEMMA JoinNext ==
  ASSUME NEW h, NEW g, NEW M, NEW a, Half(h, g, M, a), NEW b \in M, b = a + g.chunk[a].size,
         NEW k, k = SetInUse(g, a, g.chunk[a].size + g.chunk[b].size)
  PROVE  Half(h, k, M \ {b}, a)
<1> DEFINE C == g.chunk
           L == M \cup {a}
           N == M \ {b}
           none == {}
           e == b + C[b].size
           n == C[a].size + C[b].size
<1> HIDE DEF none
<1>1. Sound(g, L, none) /\ a \in L /\ b \in L /\ a \notin M /\ a # b
  BY DEF Half, none
<1>2. b \in DOMAIN C /\ a \in DOMAIN C
  BY <1>1, BlockUse
<1>3. C[a].cin
  <2>1. (C[a].cin \/ ~C[a].pin) /\ C[a].cin \in BOOLEAN /\ C[a].pin \in BOOLEAN
    BY <1>1, BlockUse
  <2>2. ASSUME ~C[a].cin PROVE FALSE
    <3>1. a \in Maps(C)
      BY <1>2, <2>1, <2>2 DEF Maps
    <3> QED
      BY <1>1, <1>2, <3>1, MappingBehind DEF none
  <2> QED
    BY <2>2
<1> HIDE DEF L
<1>4. /\ Span(g, a, b, L, none) /\ a \in Nat \ {0} /\ C[a].size \in Nat \ {0}
      /\ b \in InHeap(C) /\ \A c \in DOMAIN C : a <= c /\ c < b => c = a
  BY <1>1, <1>3, BlockSpan
<1>5. C[b].cin
  BY <1>1, <1>4, BlockUse
<1>6. /\ Span(g, b, e, L, none) /\ b \in Nat \ {0} /\ C[b].size \in Nat \ {0}
      /\ \A c \in DOMAIN C : b <= c /\ c < e => c = b
  BY <1>1, <1>5, BlockSpan
<1>7. Span(g, a, e, L, none)
  BY <1>1, <1>4, <1>6, SpanJoin
<1>8. n = e - a
  BY <1>4, <1>6
<1>9. k = SetInUse(g, a, n)
  OBVIOUS
<1>10. Sound(k, (L \ (a .. e - 1)) \cup {a}, none \ (a .. e - 1))
  <2> HIDE DEF n, e
  <2> QED
    BY <1>1, <1>7, <1>8, <1>9, UseSpan
<1>11. Spares(g, k, L \ (a .. e - 1)) /\ SameBut(k, g, {"chunk"})
  <2> HIDE DEF n, e
  <2> QED
    BY <1>1, <1>7, <1>8, <1>9, WriteSparesSpan
<1>12. L \ (a .. e - 1) = N
  <2>1. \A c \in L : c \in DOMAIN C /\ c \in Nat
    <3>1. L \subseteq DOMAIN C /\ DOMAIN C \subseteq Nat \ {0}
      <4> HIDE DEF e
      <4> QED
        BY <1>1, <1>7, SpanFields
    <3> QED
      BY <3>1
  <2>2. \A c \in L : c \in a .. e - 1 <=> c = a \/ c = b
    BY <1>1, <1>4, <1>6, <2>1
  <2> QED
    BY <1>1, <2>2 DEF L
<1>13. Sound(k, N \cup {a}, {})
  BY <1>10, <1>12 DEF none
<1>14. Spares(h, k, N)
  BY <1>11, <1>12 DEF Half, Spares
<1>15. SameBut(k, h, ReturnFields) /\ k.backed = g.backed /\ k.footprint = g.footprint
  BY <1>11 DEF Half, SameBut, ReturnFields, HeapFields
<1> QED
  BY <1>1, <1>13, <1>14, <1>15 DEF Half

\* The blocks left when the first i entries of the array are dealt with.
Left(L, array, i) == L \ {array[j] : j \in 1 .. i}

\* What the loop has made of the heap after i entries.
Reached(h, L, array, i, x) ==
  /\ x.lent = 0 => Returned(h, x.heap, Left(L, array, i))
  /\ x.lent # 0 => i < Len(array) /\ Half(h, x.heap, Left(L, array, i + 1), x.lent)

\* One more block left of the array.
LEMMA LeftLess ==
  ASSUME NEW L, NEW n \in Nat, NEW array \in [1 .. n -> L], IsInjective(array),
         NEW i \in Nat, i < n
  PROVE  /\ i + 1 \in 1 .. n /\ array[i + 1] \in Left(L, array, i) /\ array[i + 1] \in L
         /\ Left(L, array, i + 1) = Left(L, array, i) \ {array[i + 1]}
<1>1. i + 1 \in 1 .. n /\ \A j \in 1 .. i : j \in 1 .. n /\ j # i + 1
  OBVIOUS
<1>2. \A j, k \in 1 .. n : array[j] = array[k] => j = k
  BY DEF IsInjective
<1>3. \A j \in 1 .. i : array[j] # array[i + 1]
  BY <1>1, <1>2
<1>4. array[i + 1] \in L
  BY <1>1
<1>5. array[i + 1] \in Left(L, array, i)
  BY <1>3, <1>4 DEF Left
<1>6. \A j : j \in 1 .. (i + 1) <=> j \in 1 .. i \/ j = i + 1
  OBVIOUS
<1> QED
  BY <1>1, <1>4, <1>5, <1>6 DEF Left

\* One round of the loop.
LEMMA BulkRound ==
  ASSUME NEW h, NEW L, Sound(h, L, {}), NEW n \in Nat, NEW array \in [1 .. n -> L],
         IsInjective(array), NEW i \in Nat, i < n,
         NEW x, Reached(h, L, array, i, x), NEW y \in BulkStep(array, i + 1, x)
  PROVE  Reached(h, L, array, i + 1, y)
<1> DEFINE a == IF x.lent # 0 THEN x.lent ELSE array[i + 1]
           M == Left(L, array, i + 1)
           g == x.heap
           m == g.chunk[a].size
<1>1. Len(array) = n /\ DOMAIN array = 1 .. n
  OBVIOUS
<1>2. /\ array[i + 1] \in Left(L, array, i) /\ array[i + 1] \in L
      /\ M = Left(L, array, i) \ {array[i + 1]}
  BY LeftLess
<1>3. Half(h, g, M, a)
  <2>1. CASE x.lent # 0
    BY <2>1 DEF Reached
  <2>2. CASE x.lent = 0
    <3>1. Returned(h, g, Left(L, array, i)) /\ a = array[i + 1]
      BY <2>2 DEF Reached
    <3>2. M \cup {a} = Left(L, array, i) /\ a \notin M /\ M \subseteq Left(L, array, i)
      BY <1>2, <3>1
    <3>3. Spares(h, g, M)
      BY <3>1, <3>2 DEF Returned, Spares
    <3> HIDE DEF M, a, g
    <3> QED
      BY <3>1, <3>2, <3>3 DEF Returned, Half
  <2> QED
    BY <2>1, <2>2
<1>4. Sound(g, M \cup {a}, {}) /\ a \notin M
  BY <1>3 DEF Half
<1>5. CASE i + 1 < n /\ array[i + 1 + 1] = a + m
  <2> DEFINE b == array[i + 1 + 1]
             k == SetInUse(g, a, m + g.chunk[b].size)
  <2>1. y = [heap |-> k, lent |-> a]
    BY <1>1, <1>5 DEF BulkStep, NextChunk, SizeOf
  <2>2. b \in M /\ Left(L, array, i + 1 + 1) = M \ {b}
    <3>1. \A p \in Nat : p < n => array[p + 1] \in Left(L, array, p)
      BY LeftLess
    <3>2. \A p \in Nat : p < n => Left(L, array, p + 1) = Left(L, array, p) \ {array[p + 1]}
      BY LeftLess
    <3>3. i + 1 \in Nat /\ i + 1 < n
      BY <1>5
    <3> QED
      BY <3>1, <3>2, <3>3
  <2>3. b = a + m
    BY <1>5
  <2> HIDE DEF b, M, a, g
  <2>4. Half(h, k, M \ {b}, a)
    BY <1>3, <2>2, <2>3, JoinNext
  <2>5. a # 0
    <3>1. a \in M \cup {a}
      OBVIOUS
    <3>2. a \in DOMAIN g.chunk
      BY <1>4, <3>1, BlockUse
    <3>3. Heads(g.chunk)
      BY <1>4 DEF Sound, Shape
    <3> QED
      BY <3>2, <3>3, ChunkFields
  <2>6. Len(array) = n /\ i + 1 < n
    BY <1>1, <1>5
  <2> HIDE DEF k
  <2>7. y.lent = a /\ y.heap = k
    BY <2>1
  <2> QED
    BY ONLY <2>2, <2>4, <2>5, <2>6, <2>7 DEF Reached
<1>6. CASE ~(i + 1 < n /\ array[i + 1 + 1] = a + m)
  <2>1. PICK d \in Dispose(g, a, m) : y = [heap |-> d.heap, lent |-> 0]
    BY <1>1, <1>6 DEF BulkStep, NextChunk, SizeOf
  <2> HIDE DEF M, a, g
  <2>2. a \in M \cup {a} /\ (M \cup {a}) \ {a} = M
    BY <1>4
  <2>3. Returned(g, d.heap, M)
    <3>1. Returned(g, d.heap, (M \cup {a}) \ {a})
      BY <1>4, <2>1, <2>2, Disposal
    <3> QED
      BY <2>2, <3>1
  <2>4. /\ SameBut(d.heap, h, ReturnFields) /\ Spares(h, d.heap, M)
        /\ d.heap.backed \subseteq h.backed
    BY <1>3, <2>3 DEF Half, Returned, SameBut, Spares
  <2>5. d.heap.footprint <= h.footprint
    <3>1. h.footprint \in Nat /\ g.footprint \in Nat /\ d.heap.footprint \in Nat
      <4>1. Sound(d.heap, M, {})
        BY <2>3 DEF Returned
      <4> QED
        BY <1>4, <4>1, FootprintNat
    <3> QED
      BY <1>3, <2>3, <3>1 DEF Half, Returned
  <2>6. Returned(h, d.heap, M)
    BY <2>3, <2>4, <2>5 DEF Returned
  <2>7. y.lent = 0 /\ y.heap = d.heap
    BY <2>1
  <2> QED
    BY <2>6, <2>7 DEF Reached, M
<1> QED
  BY <1>5, <1>6

\* The loop of sm_bulk_free over the first m entries.
BulkUpTo(f, h, array, m) ==
  f = [i \in 0 .. m |-> IF i = 0 THEN {[heap |-> h, lent |-> 0]}
                        ELSE UNION {BulkStep(array, i, x) : x \in f[i - 1]}]

\* There is such a loop.
LEMMA BulkExists ==
  ASSUME NEW h, NEW array, NEW m \in Nat
  PROVE  \E f : BulkUpTo(f, h, array, m)
<1> DEFINE bad == {k \in Nat : ~\E f : BulkUpTo(f, h, array, k)}
<1>1. bad = {}
  <2> SUFFICES ASSUME bad # {} PROVE FALSE
    OBVIOUS
  <2>1. PICK k \in bad : \A n \in bad : k <= n
    <3>1. bad \in SUBSET Nat
      OBVIOUS
    <3> HIDE DEF bad
    <3> QED
      BY <3>1, Least
  <2>2. k \in Nat /\ ~\E f : BulkUpTo(f, h, array, k)
    BY <2>1
  <2>3. CASE k = 0
    <3> DEFINE f == [i \in 0 .. 0 |-> {[heap |-> h, lent |-> 0]}]
    <3>1. BulkUpTo(f, h, array, 0)
      BY DEF BulkUpTo
    <3> QED
      BY <2>2, <2>3, <3>1
  <2>4. CASE k # 0
    <3>1. k - 1 \in Nat /\ k - 1 \notin bad
      BY <2>1, <2>2, <2>4
    <3>2. PICK f : BulkUpTo(f, h, array, k - 1)
      BY <3>1
    <3> DEFINE g == [i \in 0 .. k |-> IF i < k THEN f[i]
                       ELSE UNION {BulkStep(array, k, x) : x \in f[k - 1]}]
    <3>3. \A i \in 0 .. k : g[i] = IF i = 0 THEN {[heap |-> h, lent |-> 0]}
                              ELSE UNION {BulkStep(array, i, x) : x \in g[i - 1]}
      <4> SUFFICES ASSUME NEW i \in 0 .. k
                   PROVE  g[i] = IF i = 0 THEN {[heap |-> h, lent |-> 0]}
                                 ELSE UNION {BulkStep(array, i, x) : x \in g[i - 1]}
        OBVIOUS
      <4>1. CASE i < k
        <5>1. i \in 0 .. k - 1 /\ g[i] = f[i] /\ (i # 0 => i - 1 \in 0 .. k /\ i - 1 < k)
          BY <2>2, <4>1
        <5>2. i # 0 => g[i - 1] = f[i - 1]
          BY <5>1
        <5> HIDE DEF g
        <5> QED
          BY <3>2, <5>1, <5>2 DEF BulkUpTo
      <4>2. CASE i = k
        <5>1. k - 1 \in 0 .. k /\ k - 1 < k
          BY <2>2, <2>4
        <5>2. g[k - 1] = f[k - 1]
          BY <5>1
        <5> QED
          BY <2>2, <2>4, <4>2, <5>2
      <4> QED
        BY <2>2, <4>1, <4>2
    <3>4. BulkUpTo(g, h, array, k)
      <4>1. g = [i \in 0 .. k |-> g[i]]
        OBVIOUS
      <4> HIDE DEF g
      <4> QED
        BY <3>3, <4>1 DEF BulkUpTo
    <3> QED
      BY <2>2, <3>4
  <2> QED
    BY <2>3, <2>4
<1> QED
  BY <1>1

\* sm_internal_bulk_free: freeing an array of blocks leaves a sound heap without them, and
\* spares every other block, however they join and whatever the system takes back.
THEOREM BulkFreeing ==
  ASSUME NEW h, NEW L, Sound(h, L, {}), NEW n \in Nat, NEW array \in [1 .. n -> L], IsInjective(array),
         NEW g \in BulkFree(h, array)
  PROVE  Returned(h, g, L \ Range(array))
<1> DEFINE f == CHOOSE f : BulkUpTo(f, h, array, n)
<1>1. Len(array) = n
  OBVIOUS
<1>2. BulkUpTo(f, h, array, n)
  BY BulkExists
<1>3. PICK z \in f[n] : g \in IF z.heap.topsize > z.heap.trimcheck THEN Trim(z.heap, 0) ELSE {z.heap}
  BY <1>1 DEF BulkFree, BulkUpTo
<1> HIDE DEF f
<1> DEFINE bad == {i \in 0 .. n : ~\A x \in f[i] : Reached(h, L, array, i, x)}
<1>4. bad = {}
  <2> SUFFICES ASSUME bad # {} PROVE FALSE
    OBVIOUS
  <2>1. PICK k \in bad : \A m \in bad : k <= m
    <3>1. bad \in SUBSET Nat
      OBVIOUS
    <3> HIDE DEF bad
    <3> QED
      BY <3>1, Least
  <2>2. k \in 0 .. n
    BY <2>1
  <2>3. PICK y \in f[k] : ~Reached(h, L, array, k, y)
    BY <2>1
  <2>4. CASE k = 0
    <3>1. y = [heap |-> h, lent |-> 0]
      BY <1>2, <2>3, <2>4 DEF BulkUpTo
    <3>2. Returned(h, h, L)
      <4>1. IsHeap(h) /\ L \subseteq DOMAIN h.chunk
        BY BlockUse DEF Sound
      <4>2. SameBut(h, h, ReturnFields)
        BY <4>1 DEF SameBut
      <4>3. Spares(h, h, L)
        BY <4>1, SparesSame
      <4>4. h.footprint \in Nat
        BY FootprintNat
      <4> QED
        BY <4>2, <4>3, <4>4 DEF Returned
    <3>3. Left(L, array, 0) = L
      BY DEF Left
    <3> QED
      BY <2>3, <2>4, <3>1, <3>2, <3>3 DEF Reached
  <2>5. CASE k # 0
    <3> DEFINE i == k - 1
    <3>1. i \in Nat /\ i < n /\ i + 1 = k /\ i \in 0 .. n /\ i \notin bad
      BY <2>1, <2>2, <2>5
    <3>2. PICK x \in f[i] : y \in BulkStep(array, k, x)
      <4>1. f[k] = UNION {BulkStep(array, k, x) : x \in f[k - 1]}
        BY <1>2, <2>2, <2>5 DEF BulkUpTo
      <4> QED
        BY <2>3, <4>1
    <3>3. Reached(h, L, array, i, x)
      BY <3>1
    <3> HIDE DEF i, bad
    <3>4. Reached(h, L, array, i + 1, y)
      BY <3>1, <3>2, <3>3, BulkRound
    <3> QED
      BY <2>3, <3>1, <3>4
  <2> QED
    BY <2>4, <2>5
<1>5. Reached(h, L, array, n, z)
  BY <1>3, <1>4
<1> DEFINE k == z.heap
           M == L \ Range(array)
<1>6. Left(L, array, n) = M
  BY DEF Left, Range
<1>7. Returned(h, k, M)
  BY <1>1, <1>5, <1>6 DEF Reached
<1> HIDE DEF M
<1>8. Sound(k, M, {})
  BY <1>7 DEF Returned
<1>9. CASE k.topsize > k.trimcheck
  <2>1. g \in Trim(k, 0)
    BY <1>3, <1>9
  <2> HIDE DEF k
  <2>2. Returned(k, g, M)
    BY <1>8, <2>1, TrimSound
  <2>3. Sound(g, M, {})
    BY <2>2 DEF Returned
  <2>4. h.footprint \in Int /\ g.footprint \in Int /\ k.footprint \in Int
    BY <1>8, <2>3, FootprintNat
  <2>5. M \subseteq M
    OBVIOUS
  <2>6. Returned(h, g, M)
    BY <1>7, <2>2, <2>4, <2>5, ReturnedChain
  <2> QED
    BY <2>6 DEF M
<1>10. CASE ~(k.topsize > k.trimcheck)
  <2>1. g = k
    BY <1>3, <1>10
  <2> QED
    BY <1>7, <2>1 DEF M
<1> QED
  BY <1>9, <1>10

----------------------------------------------------------------------------
(* Cutting a block into equal pieces.                                      *)

\* The block at a is cut into the pieces P.
Carves(h, g, L, a, P, count, n, array) ==
  /\ Sound(g, (L \ {a}) \cup P, {}) /\ P \cap (L \ {a}) = {} /\ P \subseteq Nat \ {0}
  /\ Spares(h, g, L \ {a}) /\ SameBut(g, h, {"chunk"})
  /\ \A p \in P : g.chunk[p].size >= IF array /\ p = a + count * n THEN ArraySize(count) ELSE n

\* P starts at a and holds an address every n units, up to last.
Every(P, a, n, last) ==
  /\ a \in P /\ last \in P /\ P \subseteq Nat
  /\ \A p \in P : a <= p /\ p <= last
  /\ \A p, q \in P : p < q => p + n <= q
  /\ \A p \in P : p # last => p + n \in P
  /\ \A p \in P : p # a => p - n \in P

\* So do multiples of n.
LEMMA Multiples ==
  ASSUME NEW a \in Nat, NEW n \in Nat \ {0}, NEW k \in Nat, NEW P, P = {a + i * n : i \in 0 .. k}
  PROVE  Every(P, a, n, a + k * n)
<1>1. \A i \in Nat : i * n \in Nat /\ (i + 1) * n = i * n + n
  <2> SUFFICES ASSUME NEW i \in Nat PROVE i * n \in Nat /\ (i + 1) * n = i * n + n
    OBVIOUS
  <2>1. i * n \in Nat /\ i * n + 1 * n = (i + 1) * n
    BY Products
  <2> QED
    BY <2>1
<1>2. \A i, j \in Nat : i <= j => i * n <= j * n
  BY Products
<1>3. \A i, j \in Nat : i * n < j * n => i < j
  BY <1>1, <1>2
<1> DEFINE f == [i \in Nat |-> i * n]
<1>4. /\ \A i \in Nat : f[i] \in Nat /\ f[i + 1] = f[i] + n
      /\ \A i, j \in Nat : i <= j => f[i] <= f[j]
      /\ \A i, j \in Nat : f[i] < f[j] => i < j
      /\ f[0] = 0 /\ f[k] = k * n /\ P = {a + f[i] : i \in 0 .. k}
  BY <1>1, <1>2, <1>3
<1> HIDE DEF f
<1>5. \A p \in P : \E i \in 0 .. k : p = a + f[i]
  BY <1>4
<1>6. \A i \in 0 .. k : a + f[i] \in P
  BY <1>4
<1> DEFINE last == a + f[k]
<1>7. a \in P /\ last \in P /\ P \subseteq Nat
  <2>1. 0 \in 0 .. k /\ k \in 0 .. k /\ a + f[0] = a
    BY <1>4
  <2>2. P \subseteq Nat
    <3> SUFFICES ASSUME NEW p \in P PROVE p \in Nat
      OBVIOUS
    <3>1. PICK i \in 0 .. k : p = a + f[i]
      BY <1>5
    <3>2. f[i] \in Nat
      BY <1>4
    <3> QED
      BY <3>1, <3>2
  <2> QED
    BY <1>6, <2>1, <2>2
<1>8. \A p \in P : a <= p /\ p <= last
  <2> SUFFICES ASSUME NEW p \in P PROVE a <= p /\ p <= last
    OBVIOUS
  <2>1. PICK i \in 0 .. k : p = a + f[i]
    BY <1>5
  <2>2. f[i] \in Nat /\ f[k] \in Nat /\ f[i] <= f[k]
    BY <1>4
  <2> QED
    BY <2>1, <2>2
<1>9. \A p, q \in P : p < q => p + n <= q
  <2> SUFFICES ASSUME NEW p \in P, NEW q \in P, p < q PROVE p + n <= q
    OBVIOUS
  <2>1. PICK i \in 0 .. k : p = a + f[i]
    BY <1>5
  <2>2. PICK j \in 0 .. k : q = a + f[j]
    BY <1>5
  <2>3. f[i] \in Nat /\ f[j] \in Nat /\ i \in Nat /\ j \in Nat /\ f[i] < f[j]
    BY <1>4, <2>1, <2>2
  <2>4. i + 1 \in Nat /\ i + 1 <= j /\ f[i + 1] = f[i] + n
    BY <1>4, <2>3
  <2>5. f[i + 1] <= f[j]
    BY <1>4, <2>3, <2>4
  <2> QED
    BY <2>1, <2>2, <2>3, <2>4, <2>5
<1>10. \A p \in P : p # last => p + n \in P
  <2> SUFFICES ASSUME NEW p \in P, p # last PROVE p + n \in P
    OBVIOUS
  <2>1. PICK i \in 0 .. k : p = a + f[i]
    BY <1>5
  <2>2. i # k
    BY <2>1
  <2> HIDE DEF last
  <2>3. i + 1 \in 0 .. k /\ f[i] \in Nat /\ f[i + 1] = f[i] + n
    <3>1. i \in Nat /\ k \in Nat /\ i + 1 \in 0 .. k
      BY ONLY <2>2, i \in 0 .. k, k \in Nat
    <3> QED
      BY <1>4, <3>1
  <2>4. p + n = a + f[i + 1]
    BY <2>1, <2>3
  <2> QED
    BY <1>6, <2>3, <2>4
<1>11. \A p \in P : p # a => p - n \in P
  <2> SUFFICES ASSUME NEW p \in P, p # a PROVE p - n \in P
    OBVIOUS
  <2>1. PICK i \in 0 .. k : p = a + f[i]
    BY <1>5
  <2>2. i # 0
    BY <1>4, <2>1
  <2>3. i - 1 \in 0 .. k /\ i - 1 \in Nat /\ (i - 1) + 1 = i
    BY <2>2
  <2>4. f[i - 1] \in Nat /\ f[i] = f[i - 1] + n
    BY <1>4, <2>3
  <2>5. p - n = a + f[i - 1]
    BY <2>1, <2>4
  <2> QED
    BY <1>6, <2>3, <2>5
<1>12. Every(P, a, n, last)
  <2> HIDE DEF last
  <2> QED
    BY <1>7, <1>8, <1>9, <1>10, <1>11 DEF Every
<1> QED
  BY <1>4, <1>12

\* Chunks in use at the addresses P, each up to the next and the last to e, in place of the chunk a.
CutsAt(C, D, P, a, n, last, e) ==
  /\ DOMAIN D = DOMAIN C \cup P
  /\ \A b \in DOMAIN D : b \notin P /\ b # e => D[b] = C[b]
  /\ \A p \in P : D[p].cin /\ D[p].pin /\ D[p].size = IF p = last THEN e - p ELSE n
  /\ \A p \in P : p # a => D[p].foot = Stamp
  /\ D[a].foot = C[a].foot
  /\ D[e].size = C[e].size /\ D[e].cin = C[e].cin /\ D[e].pin = C[e].pin /\ D[e].foot = Stamp

\* The blocks P take the place of the block a.
Divided(h, g, L, a, P) ==
  /\ Sound(g, (L \ {a}) \cup P, {}) /\ P \cap (L \ {a}) = {} /\ P \subseteq Nat \ {0}
  /\ Spares(h, g, L \ {a})

\* The pieces of a block are blocks.
LEMMA PiecesSound ==
  ASSUME NEW h, NEW L, Sound(h, L, {}), NEW a \in L, h.chunk[a].cin, h.chunk[a].pin,
         NEW e, e = a + h.chunk[a].size, NEW n \in Nat, n >= MinChunk,
         NEW P, NEW last, Every(P, a, n, last), last + MinChunk <= e,
         NEW g, SameBut(g, h, {"chunk"}), Heads(g.chunk), CutsAt(h.chunk, g.chunk, P, a, n, last, e)
  PROVE  Divided(h, g, L, a, P)
<1> DEFINE C == h.chunk
           D == g.chunk
           none == {}
<1> HIDE DEF none
<1>1. Sound(h, L, none)
  BY DEF none
<1>2. /\ Span(h, a, e, L, none) /\ a \in InHeap(C) /\ e \in InHeap(C) /\ a \in DOMAIN C
      /\ e \in DOMAIN C /\ C[e].pin /\ a \in Nat \ {0} /\ C[a].size \in Nat \ {0}
      /\ \A b \in DOMAIN C : a <= b /\ b < e => b = a
  BY <1>1, BlockSpan
<1>3. DOMAIN C \subseteq Nat \ {0} /\ L \subseteq DOMAIN C
  BY <1>1, <1>2, SpanFields
<1>4. e \in Nat /\ a < e /\ MinChunk = 2 /\ Stamp = 0
  BY <1>2, Numbers
<1>5. /\ a \in P /\ last \in P /\ P \subseteq Nat
      /\ \A p \in P : a <= p /\ p <= last
      /\ \A p, q \in P : p < q => p + n <= q
      /\ \A p \in P : p # last => p + n \in P
      /\ \A p \in P : p # a => p - n \in P
  BY DEF Every
<1>6. \A p \in P : a <= p /\ p < e /\ p \in Nat /\ p # e
  BY <1>4, <1>5
<1>7. /\ DOMAIN D = DOMAIN C \cup P
      /\ \A b \in DOMAIN D : b \notin P /\ b # e => D[b] = C[b]
      /\ \A p \in P : D[p].cin /\ D[p].pin /\ D[p].size = IF p = last THEN e - p ELSE n
      /\ \A p \in P : p # a => D[p].foot = Stamp
      /\ D[a].foot = C[a].foot
      /\ D[e].size = C[e].size /\ D[e].cin = C[e].cin /\ D[e].pin = C[e].pin /\ D[e].foot = Stamp
  BY DEF CutsAt
<1> HIDE DEF C, D
<1>8. Between(C, D, a, e)
  <2>1. \A b \in Nat : b < a \/ b >= e => (b \in DOMAIN D <=> b \in DOMAIN C)
    <3> SUFFICES ASSUME NEW b \in Nat, b < a \/ b >= e PROVE b \in DOMAIN D <=> b \in DOMAIN C
      OBVIOUS
    <3>1. b \notin P
      BY <1>2, <1>4, <1>6
    <3> QED
      BY <1>7, <3>1
  <2>2. \A b \in DOMAIN C : b < a \/ b > e => D[b] = C[b]
    BY <1>2, <1>3, <1>4, <1>6, <1>7
  <2>3. D[a].pin = C[a].pin
    <3>1. C[a].pin \in BOOLEAN /\ D[a].pin \in BOOLEAN
      <4>1. Heads(C) /\ Heads(D) /\ a \in DOMAIN C /\ a \in DOMAIN D
        BY <1>1, <1>2, <1>7 DEF C, D, Sound, Shape
      <4> QED
        BY <4>1, ChunkFields
    <3>2. C[a].pin
      BY DEF C
    <3>3. D[a].pin
      BY <1>5, <1>7
    <3> QED
      BY <3>1, <3>2, <3>3
  <2> QED
    BY <1>5, <1>7, <2>1, <2>2, <2>3 DEF Between
<1>9. \A b \in DOMAIN D : a <= b /\ b < e <=> b \in P
  BY <1>2, <1>3, <1>4, <1>5, <1>6, <1>7
<1>10. \A p \in P : p + D[p].size \in P \cup {e}
  BY <1>4, <1>5, <1>6, <1>7
<1>11. \A p \in P : Tells(D, p, p + D[p].size, 0)
  <2> SUFFICES ASSUME NEW p \in P PROVE Tells(D, p, p + D[p].size, 0)
    OBVIOUS
  <2> DEFINE q == p + D[p].size
  <2>1. q \in P \cup {e} /\ D[p].cin
    BY <1>7, <1>10
  <2>2. q # a
    <3>1. p \in Nat /\ a <= p /\ D[p].size > 0
      BY <1>4, <1>6, <1>7
    <3>2. D[p].size \in Nat
      BY <1>4, <1>6, <1>7
    <3> QED
      BY <1>2, <3>1, <3>2
  <2>3. D[q].pin /\ D[q].foot = Stamp
    <3> HIDE DEF q
    <3>1. CASE q \in P
      BY <1>7, <2>2, <3>1
    <3>2. CASE q = e
      <4>1. D[e].pin
        BY <1>2, <1>7 DEF C
      <4> QED
        BY <1>7, <3>2, <4>1
    <3> QED
      BY <2>1, <3>1, <3>2
  <2> HIDE DEF q
  <2>4. D[q].pin \in BOOLEAN /\ D[p].cin \in BOOLEAN
    <3>1. q \in DOMAIN D /\ p \in DOMAIN D
      BY <1>2, <1>7, <2>1
    <3> QED
      BY <3>1, ChunkFields DEF D
  <2>5. Tells(D, p, q, 0)
    BY <2>1, <2>3, <2>4 DEF Tells
  <2> QED
    BY <2>5 DEF q
<1>12. \A p \in P : p \in InHeap(D) /\ D[p].size >= MinChunk /\ D[p].size \in Nat /\ p + D[p].size <= e
  <2> SUFFICES ASSUME NEW p \in P
               PROVE  p \in InHeap(D) /\ D[p].size >= MinChunk /\ D[p].size \in Nat /\ p + D[p].size <= e
    OBVIOUS
  <2>1. p \in InHeap(D)
    BY <1>7 DEF InHeap
  <2>2. CASE p = last
    BY <1>4, <1>6, <1>7, <2>1, <2>2
  <2>3. CASE p # last
    <3>1. p + n \in P /\ D[p].size = n
      BY <1>5, <1>7, <2>3
    <3> QED
      BY <1>4, <1>6, <2>1, <3>1
  <2> QED
    BY <2>2, <2>3
<1>13. \A p, q \in P : p < q => p + D[p].size <= q
  <2> SUFFICES ASSUME NEW p \in P, NEW q \in P, p < q PROVE p + D[p].size <= q
    OBVIOUS
  <2>1. p # last
    BY <1>5, <1>6
  <2> QED
    BY <1>5, <1>7, <2>1
<1>14. Chained(D, a, e)
  <2>1. \A p \in P : p # a => \E b \in DOMAIN D : a <= b /\ b + D[b].size = p
    <3> SUFFICES ASSUME NEW p \in P, p # a PROVE \E b \in DOMAIN D : a <= b /\ b + D[b].size = p
      OBVIOUS
    <3>1. p - n \in P /\ p \in Nat
      BY <1>5
    <3>2. p - n # last
      BY <1>4, <1>5, <1>6, <3>1
    <3>3. D[p - n].size = n /\ a <= p - n /\ p - n \in DOMAIN D
      BY <1>5, <1>7, <3>1, <3>2
    <3>4. (p - n) + n = p
      BY <3>1
    <3> QED
      BY <3>3, <3>4
  <2>2. \E b \in DOMAIN D : a <= b /\ b < e /\ b + D[b].size = e
    <3>1. last \in DOMAIN D /\ D[last].size = e - last /\ a <= last /\ last < e /\ last \in Nat
      BY <1>5, <1>6, <1>7
    <3>2. last + (e - last) = e
      BY <1>4, <3>1
    <3> QED
      BY <3>1, <3>2
  <2>3. \A b \in DOMAIN D : a <= b /\ b < e =>
          /\ b \in InHeap(D) /\ D[b].size >= MinChunk
          /\ b + D[b].size \in DOMAIN D /\ b + D[b].size <= e
          /\ Tells(D, b, b + D[b].size, 0)
          /\ b # a => \E c \in DOMAIN D : a <= c /\ c + D[c].size = b
    <3> SUFFICES ASSUME NEW b \in DOMAIN D, a <= b, b < e
                 PROVE  /\ b \in InHeap(D) /\ D[b].size >= MinChunk
                        /\ b + D[b].size \in DOMAIN D /\ b + D[b].size <= e
                        /\ Tells(D, b, b + D[b].size, 0)
                        /\ b # a => \E c \in DOMAIN D : a <= c /\ c + D[c].size = b
      OBVIOUS
    <3>1. b \in P
      BY <1>9
    <3>2. b + D[b].size \in DOMAIN D
      BY <1>2, <1>7, <1>10, <3>1
    <3> QED
      BY <1>11, <1>12, <2>1, <3>1, <3>2
  <2>4. \A b, c \in DOMAIN D : a <= b /\ b < c /\ c < e => b + D[b].size <= c
    <3> SUFFICES ASSUME NEW b \in DOMAIN D, NEW c \in DOMAIN D, a <= b, b < c, c < e
                 PROVE  b + D[b].size <= c
      OBVIOUS
    <3>1. b \in Nat /\ c \in Nat
      BY <1>3, <1>5, <1>7
    <3>2. b < e /\ a <= c
      BY <1>2, <1>4, <3>1
    <3>3. b \in P /\ c \in P
      BY <1>9, <3>2
    <3> QED
      BY <1>13, <3>3
  <2> QED
    BY <2>2, <2>3, <2>4 DEF Chained
<1>15. PICK i \in DOMAIN h.segs : Holds(h.segs[i], a) /\ Holds(h.segs[i], e)
  BY <1>2 DEF Span
<1>16. Sound(g, UsedOf(D, L, a, e), LooseOf(D, none, a, e, g.top))
  BY <1>1, <1>2, <1>4, <1>7, <1>8, <1>14, <1>15, SoundSplice DEF Span, C, D
<1>17. UsedOf(D, L, a, e) = (L \ {a}) \cup P
  <2>1. \A b \in L : b < a \/ b >= e <=> b # a
    BY <1>2, <1>3, <1>4
  <2>2. {b \in DOMAIN D : a <= b /\ b < e /\ D[b].cin} = P
    BY <1>7, <1>9
  <2> QED
    BY <2>1, <2>2 DEF UsedOf
<1>18. LooseOf(D, none, a, e, g.top) = {}
  BY <1>7, <1>9 DEF LooseOf, none
<1>19. \A b \in L \ {a} : b \notin P /\ b \in DOMAIN C
  BY <1>2, <1>3, <1>4, <1>6
<1>20. Spares(h, g, L \ {a})
  BY <1>7, <1>19 DEF Spares, C, D
<1>21. P \subseteq Nat \ {0}
  BY <1>2, <1>6
<1> QED
  BY <1>16, <1>17, <1>18, <1>19, <1>20, <1>21 DEF Divided

\* What Carve writes.
LEMMA CarveWrites ==
  ASSUME NEW h, NEW L, Sound(h, L, {}), NEW a \in L, h.chunk[a].cin,
         NEW count, NEW n \in Nat, n >= MinChunk, NEW array,
         NEW P, P = Pieces(a, count, n, array),
         NEW last, last = a + (count - IF array THEN 0 ELSE 1) * n,
         Every(P, a, n, last), NEW e, e = a + h.chunk[a].size, last + MinChunk <= e,
         NEW g, g = Carve(h, a, count, n, array)
  PROVE  SameBut(g, h, {"chunk"}) /\ Heads(g.chunk) /\ CutsAt(h.chunk, g.chunk, P, a, n, last, e)
<1> DEFINE C == h.chunk
           none == {}
           B == [p \in DOMAIN C \cup P |->
                  IF p \in P
                  THEN [size |-> IF p = last THEN e - p ELSE n, cin |-> TRUE, pin |-> TRUE,
                        foot |-> IF p = a THEN C[p].foot ELSE Stamp]
                  ELSE C[p]]
           k == [h EXCEPT !.chunk = B]
<1> HIDE DEF none
<1>1. Sound(h, L, none)
  BY DEF none
<1>2. /\ Span(h, a, e, L, none) /\ a \in InHeap(C) /\ e \in InHeap(C) /\ a \in DOMAIN C
      /\ e \in DOMAIN C /\ a \in Nat \ {0} /\ C[a].size \in Nat \ {0}
  BY <1>1, BlockSpan
<1>3. IsHeap(h) /\ Heads(C)
  BY DEF Sound, Shape
<1>4. e \in Nat /\ a < e /\ MinChunk = 2 /\ Stamp = 0
  BY <1>2, Numbers
<1>5. a \in P /\ last \in P /\ P \subseteq Nat /\ \A p \in P : a <= p /\ p <= last
  BY DEF Every
<1>6. \A p \in P : p \in Nat \ {0} /\ p < e /\ p # e
  BY <1>2, <1>4, <1>5
<1>7. g = SetFoot(k, e, Stamp)
  BY DEF Carve, NextChunk, SizeOf
<1>8. k.chunk = B /\ SameBut(k, h, {"chunk"}) /\ IsHeap(k)
  <2> HIDE DEF B
  <2>1. h = [f \in HeapFields |-> h[f]]
    BY <1>3 DEF IsHeap
  <2> QED
    BY <2>1 DEF SameBut, IsHeap, HeapFields
<1>9. /\ DOMAIN B = DOMAIN C \cup P /\ B = [p \in DOMAIN B |-> B[p]]
      /\ \A p \in DOMAIN C : p \notin P => B[p] = C[p]
      /\ \A p \in P : B[p] = [size |-> IF p = last THEN e - p ELSE n, cin |-> TRUE, pin |-> TRUE,
                              foot |-> IF p = a THEN C[p].foot ELSE Stamp]
  OBVIOUS
<1> HIDE DEF B
<1>10. Heads(B)
  <2>1. DOMAIN C \subseteq Nat \ {0} /\ \A p \in DOMAIN C : C[p] \in Header
    BY <1>3 DEF Heads
  <2>2. DOMAIN B \subseteq Nat \ {0}
    BY <1>6, <1>9, <2>1
  <2>3. \A p \in P : B[p] \in Header
    <3> SUFFICES ASSUME NEW p \in P PROVE B[p] \in Header
      OBVIOUS
    <3> DEFINE s == IF p = last THEN e - p ELSE n
               f == IF p = a THEN C[p].foot ELSE Stamp
    <3>1. s \in Nat \ {0}
      BY <1>4, <1>6
    <3>2. f \in Nat
      BY <1>2, <1>4, <2>1 DEF Header
    <3>3. B[p] = [size |-> s, cin |-> TRUE, pin |-> TRUE, foot |-> f]
      BY <1>9
    <3> HIDE DEF s, f
    <3> QED
      BY <3>1, <3>2, <3>3 DEF Header
  <2>4. \A p \in DOMAIN B : B[p] \in Header
    BY <1>9, <2>1, <2>3
  <2> QED
    BY <1>9, <2>2, <2>4 DEF Heads
<1> HIDE DEF k
<1> DEFINE D == g.chunk
<1>11. /\ SameBut(g, k, {"chunk"}) /\ IsHeap(g) /\ Heads(D) /\ DOMAIN D = DOMAIN B
       /\ \A b \in DOMAIN B : b # e => D[b] = B[b]
       /\ e \in DOMAIN B => /\ D[e].foot = Stamp /\ D[e].size = B[e].size
                            /\ D[e].cin = B[e].cin /\ D[e].pin = B[e].pin
  BY <1>4, <1>7, <1>8, <1>10, SetFootOf
<1>12. SameBut(g, h, {"chunk"})
  BY <1>8, <1>11 DEF SameBut
<1> HIDE DEF D
<1>13. e \in DOMAIN B /\ B[e] = C[e]
  BY <1>2, <1>6, <1>9
<1>14. \A p \in P : D[p] = B[p] /\ p \in DOMAIN B
  BY <1>6, <1>9, <1>11
<1>15. /\ \A p \in P : D[p].cin /\ D[p].pin /\ D[p].size = IF p = last THEN e - p ELSE n
       /\ \A p \in P : p # a => D[p].foot = Stamp
       /\ D[a].foot = C[a].foot
  BY <1>5, <1>9, <1>14
<1>16. CutsAt(C, D, P, a, n, last, e)
  BY <1>9, <1>11, <1>13, <1>15 DEF CutsAt
<1> QED
  BY <1>11, <1>12, <1>16 DEF D

\* sm_independent_allocate: the chunk it allocated becomes the blocks of its elements and of
\* their array, each as large as it was asked for, and no other block changes.
THEOREM Carving ==
  ASSUME NEW h, NEW L, Sound(h, L, {}), NEW a \in L, h.chunk[a].cin, h.chunk[a].pin,
         NEW count \in Nat \ {0}, NEW n \in Nat, n >= MinChunk, NEW array \in BOOLEAN,
         h.chunk[a].size >= IndependentSize(count, n, array),
         NEW g, g = Carve(h, a, count, n, array)
  PROVE  Carves(h, g, L, a, Pieces(a, count, n, array), count, n, array)
<1> DEFINE m == count - IF array THEN 0 ELSE 1
           P == Pieces(a, count, n, array)
           last == a + m * n
           e == a + h.chunk[a].size
<1>1. a \in Nat \ {0} /\ h.chunk[a].size \in Nat
  <2> DEFINE none == {}
  <2>1. Sound(h, L, none)
    OBVIOUS
  <2> HIDE DEF none
  <2> QED
    BY <2>1, BlockSpan
<1>2. m \in Nat /\ n \in Nat \ {0} /\ P = {a + i * n : i \in 0 .. m} /\ MinChunk = 2
  BY Numbers DEF Pieces
<1>3. Every(P, a, n, last)
  <2> HIDE DEF m, P
  <2> QED
    BY <1>1, <1>2, Multiples
<1>4. m * n \in Nat /\ last \in Nat
  <2> HIDE DEF m
  <2>1. m * n \in Nat
    BY <1>2, Products
  <2> QED
    BY <1>1, <2>1
<1>5. IF array THEN last + ArraySize(count) <= e /\ ArraySize(count) \in Nat /\ ArraySize(count) >= MinChunk
      ELSE last + n <= e
  <2>1. CASE array
    <3>1. ArraySize(count) \in Nat /\ ArraySize(count) >= MinChunk
      <4>1. (count + 1) \div 2 \in Nat
        OBVIOUS
      <4> QED
        BY <1>2, <4>1 DEF ArraySize, Pad, Larger
    <3>2. IndependentSize(count, n, array) = m * n + ArraySize(count)
      BY <2>1 DEF IndependentSize
    <3>3. h.chunk[a].size >= m * n + ArraySize(count)
      BY <3>2
    <3> HIDE DEF m
    <3> DEFINE x == m * n
               y == ArraySize(count)
               s == h.chunk[a].size
    <3>4. a \in Nat /\ x \in Nat /\ y \in Nat /\ s \in Nat /\ s >= x + y /\ last = a + x /\ e = a + s
      BY <1>1, <1>4, <3>1, <3>3
    <3> HIDE DEF x, y, s, last, e
    <3>5. last + y <= e
      BY ONLY <3>4
    <3> QED
      BY <2>1, <3>1, <3>5 DEF y
  <2>2. CASE ~array
    <3>1. count * n = m * n + n
      <4>1. m + 1 = count
        BY <2>2
      <4>2. m * n + 1 * n = (m + 1) * n
        <5> HIDE DEF m
        <5> QED
          BY <1>2, Products
      <4> QED
        BY <4>1, <4>2
    <3>2. IndependentSize(count, n, array) = m * n + n
      <4>1. count * n \in Nat
        BY <1>2, Products
      <4> QED
        BY <2>2, <3>1, <4>1 DEF IndependentSize
    <3>3. h.chunk[a].size >= m * n + n
      BY <3>2
    <3> HIDE DEF m
    <3> DEFINE x == m * n
               s == h.chunk[a].size
    <3>4. a \in Nat /\ x \in Nat /\ s \in Nat /\ s >= x + n /\ last = a + x /\ e = a + s
      BY <1>1, <1>4, <3>3
    <3> HIDE DEF x, s, last, e
    <3>5. last + n <= e
      BY ONLY <3>4, n \in Nat
    <3> QED
      BY <2>2, <3>5
  <2> QED
    BY <2>1, <2>2
<1>6. last + MinChunk <= e
  BY <1>1, <1>2, <1>4, <1>5
<1> HIDE DEF P, last, e
<1>7. SameBut(g, h, {"chunk"}) /\ Heads(g.chunk) /\ CutsAt(h.chunk, g.chunk, P, a, n, last, e)
  BY <1>3, <1>6, CarveWrites DEF P, last, e, m
<1>8. Divided(h, g, L, a, P)
  <2>1. /\ Sound(h, L, {}) /\ a \in L /\ h.chunk[a].cin /\ h.chunk[a].pin /\ n \in Nat
        /\ n >= MinChunk /\ e = a + h.chunk[a].size
    BY DEF e
  <2> QED
    BY ONLY <1>3, <1>6, <1>7, <2>1, PiecesSound
<1>9. \A p \in P : g.chunk[p].size >= IF array /\ p = a + count * n THEN ArraySize(count) ELSE n
  <2> SUFFICES ASSUME NEW p \in P
               PROVE  g.chunk[p].size >= IF array /\ p = a + count * n THEN ArraySize(count) ELSE n
    OBVIOUS
  <2>1. g.chunk[p].size = IF p = last THEN e - p ELSE n
    BY <1>7 DEF CutsAt
  <2>2. array => last = a + count * n
    BY DEF last
  <2>3. e \in Nat
    BY <1>1 DEF e
  <2> QED
    BY <1>4, <1>5, <2>1, <2>2, <2>3
<1> QED
  BY <1>7, <1>8, <1>9 DEF Carves, Divided, P

----------------------------------------------------------------------------
(* What soundness says in the terms of module Space. *)

\* The chunks of the segments, the mappings and the records, named alike.
LEMMA SameNames ==
  ASSUME Sound(heap, DOMAIN live, {})
  PROVE  /\ Heads(heap.chunk) /\ HeapChunks = InHeap(heap.chunk) /\ MapChunks = Maps(heap.chunk)
         /\ Records = Records_(heap.segs) /\ Binned = Binned_(heap.small, heap.tree)
         /\ heap.segs \in Seq(Segment) /\ Len(heap.segs) \in Nat /\ Len(heap.segs) >= 1
         /\ DOMAIN heap.segs = 1 .. Len(heap.segs)
<1> DEFINE C == heap.chunk
           S == heap.segs
<1>1. Heads(C) /\ S \in Seq(Segment) /\ Len(S) >= 1
  BY DEF Sound, Shape, Segments
<1>2. Len(S) \in Nat /\ DOMAIN S = 1 .. Len(S)
  BY <1>1
<1>3. \A a \in DOMAIN C : C[a].cin \in BOOLEAN /\ C[a].pin \in BOOLEAN
  BY <1>1 DEF Heads, Header
<1>4. MapChunks = Maps(C)
  BY DEF MapChunks, Chunks, Maps, IsMapped
<1>5. HeapChunks = InHeap(C)
  BY <1>4 DEF HeapChunks, Chunks, Maps, InHeap
<1>6. Records = Records_(S)
  <2>1. Len(Tail(S)) = Len(S) - 1 /\ \A i \in 1 .. Len(S) - 1 : Tail(S)[i] = S[i + 1]
    BY <1>1
  <2>2. Tail(S) \in Seq(Segment)
    BY <1>1
  <2>3. DOMAIN Tail(S) = 1 .. Len(S) - 1
    BY <2>1, <2>2
  <2>4. ASSUME NEW r \in Records PROVE r \in Records_(S)
    <3>1. PICK i \in 1 .. Len(S) - 1 : r = Tail(S)[i].rec
      BY <2>3, <2>4 DEF Records, Range
    <3>2. i + 1 \in 2 .. Len(S) /\ r = S[i + 1].rec
      BY <1>2, <2>1, <3>1
    <3> QED
      BY <3>2 DEF Records_
  <2>5. ASSUME NEW r \in Records_(S) PROVE r \in Records
    <3>1. PICK i \in 2 .. Len(S) : r = S[i].rec
      BY <2>5 DEF Records_
    <3>2. i - 1 \in 1 .. Len(S) - 1 /\ (i - 1) + 1 = i
      BY <1>2, <3>1
    <3>3. Tail(S)[i - 1] = S[i]
      BY <2>1, <3>2
    <3> QED
      BY <2>3, <3>1, <3>2, <3>3 DEF Records, Range
  <2> QED
    BY <2>4, <2>5
<1> QED
  BY <1>1, <1>2, <1>4, <1>5, <1>6 DEF Binned, Binned_

\* A sound space is laid out in its segments as Tiled says.
LEMMA SoundTiled ==
  ASSUME Sound(heap, DOMAIN live, {})
  PROVE  Tiled /\ RecordsAtHome /\ AddressesOk /\ BoundaryTags
<1> DEFINE C == heap.chunk
           S == heap.segs
           T == heap.top
<1>1. /\ Heads(C) /\ HeapChunks = InHeap(C) /\ Records = Records_(S)
      /\ S \in Seq(Segment) /\ Len(S) \in Nat /\ Len(S) >= 1 /\ DOMAIN S = 1 .. Len(S)
  BY SameNames
<1>2. /\ \A i \in DOMAIN S : S[i].base \in InHeap(C) /\ C[S[i].base].pin
      /\ \A a \in InHeap(C) : \E i \in DOMAIN S : Holds(S[i], a)
      /\ Ends(C, S, T, heap.state) /\ Linked(C, S, T, heap.state)
  <2>1. InHeap(C) \subseteq DOMAIN C
    BY DEF InHeap
  <2> QED
    BY <2>1 DEF Sound, Shape
<1>3. Range(S) = {S[i] : i \in DOMAIN S}
  BY DEF Range
<1>4. ASSUME NEW a \in InHeap(C), a # T, a \notin Records_(S)
      PROVE  \E i \in DOMAIN S :
                /\ Holds(S[i], a) /\ a + C[a].size \in InHeap(C) /\ Holds(S[i], a + C[a].size)
                /\ Tells(C, a, a + C[a].size, heap.state)
  <2>1. PICK i \in DOMAIN S : Holds(S[i], a)
    BY <1>2
  <2>2. a # LastOf(S, i, T)
    <3>1. CASE i = 1
      BY <1>4, <3>1 DEF LastOf
    <3>2. CASE i # 1
      <4>1. i \in 2 .. Len(S)
        BY <1>1, <3>2
      <4> QED
        BY <1>4, <3>2, <4>1 DEF LastOf, Records_
    <3> QED
      BY <3>1, <3>2
  <2> QED
    BY <1>2, <2>1, <2>2 DEF Linked
<1>5. Tiled
  <2>1. \A s \in Range(S) : s.base \in HeapChunks
    BY <1>1, <1>2, <1>3
  <2>2. T \notin Records
    <3>1. \A r \in Records_(S) : C[r].cin
      BY <1>2 DEF Ends, Records_
    <3> QED
      BY <1>1, <1>2, <3>1 DEF Ends
  <2>3. ASSUME NEW a \in HeapChunks
        PROVE  \E s \in Range(S) :
                  /\ Holds(s, a)
                  /\ CASE a = T -> s = S[1] /\ NextChunk(heap, a) = End(s) - TopFoot
                       [] a \in Records -> a = s.rec /\ NextChunk(heap, a) <= End(s) - MinChunk
                       [] OTHER -> NextChunk(heap, a) \in HeapChunks /\ Holds(s, NextChunk(heap, a))
    <3>1. NextChunk(heap, a) = a + C[a].size
      BY DEF NextChunk, SizeOf
    <3>2. CASE a = T
      <4>1. S[1] \in Range(S) /\ Holds(S[1], T) /\ NextChunk(heap, T) = End(S[1]) - TopFoot
        <5>1. 1 \in DOMAIN S /\ T + C[T].size = End(S[1]) - TopFoot /\ Holds(S[1], T)
          BY <1>1, <1>2 DEF Ends
        <5>2. NextChunk(heap, T) = T + C[T].size
          BY <3>1, <3>2
        <5>3. NextChunk(heap, T) = End(S[1]) - TopFoot
          BY ONLY <5>1, <5>2
        <5> QED
          BY <1>3, <5>1, <5>3
      <4> QED
        BY <2>2, <3>2, <4>1
    <3>3. CASE a \in Records
      <4>1. PICK i \in 2 .. Len(S) : a = S[i].rec
        BY <1>1, <3>3 DEF Records_
      <4>2. /\ Holds(S[i], a) /\ C[a].size = SegmentChunk /\ a + TopFoot <= End(S[i])
            /\ i \in DOMAIN S /\ S[i] \in Segment
        <5>1. i \in DOMAIN S /\ S[i] \in Segment
          BY <1>1, <4>1
        <5>2. Holds(S[i], a) /\ C[a].size = SegmentChunk
          BY <1>2, <4>1 DEF Ends
        <5>3. S[i].rec + TopFoot <= End(S[i])
          BY <1>2, <4>1 DEF Ends
        <5> QED
          BY <4>1, <5>1, <5>2, <5>3
      <4>3. S[i].base \in Nat /\ S[i].size \in Nat /\ a \in Nat
        BY <4>1, <4>2 DEF Segment
      <4>4. End(S[i]) \in Nat
        BY <4>3 DEF End
      <4>5. NextChunk(heap, a) <= End(S[i]) - MinChunk
        <5>1. C[a].size = SegmentChunk /\ a + TopFoot <= End(S[i])
          BY <4>2
        <5> QED
          BY <3>1, <4>3, <4>4, <5>1, Numbers
      <4> QED
        BY <1>3, <2>2, <3>3, <4>1, <4>2, <4>5
    <3>4. CASE a # T /\ a \notin Records
      <4>1. PICK i \in DOMAIN S : Holds(S[i], a) /\ a + C[a].size \in InHeap(C)
                                   /\ Holds(S[i], a + C[a].size)
        BY <1>1, <1>4, <3>4
      <4> QED
        BY <1>1, <1>3, <3>1, <3>4, <4>1
    <3> QED
      BY <3>2, <3>3, <3>4
  <2> QED
    BY <2>1, <2>3 DEF Tiled
<1>6. RecordsAtHome
  BY <1>2 DEF RecordsAtHome, Ends
<1>7. AddressesOk
  BY DEF Sound, Settings, AddressesOk, Chunks
<1>8. BoundaryTags
  <2>1. \A s \in Range(S) : C[s.base].pin
    BY <1>2, <1>3
  <2>2. ASSUME NEW a \in HeapChunks \ ({T} \cup Records)
        PROVE  /\ C[NextChunk(heap, a)].pin = C[a].cin
               /\ ~C[a].cin => C[a].pin /\ C[NextChunk(heap, a)].cin
                               /\ C[NextChunk(heap, a)].foot = C[a].size
               /\ C[a].cin /\ a # heap.state => C[NextChunk(heap, a)].foot = Stamp
    <3>1. NextChunk(heap, a) = a + C[a].size
      BY DEF NextChunk, SizeOf
    <3>2. Tells(C, a, a + C[a].size, heap.state)
      BY <1>1, <1>4, <2>2
    <3>3. ~C[a].cin => C[a].pin
      BY <1>1, <2>2 DEF InHeap
    <3> QED
      BY <3>1, <3>2, <3>3 DEF Tells
  <2> QED
    BY <2>1, <2>2 DEF BoundaryTags
<1> QED
  BY <1>5, <1>6, <1>7, <1>8

\* Everything in a sound space is accounted for.
LEMMA SoundAccounted ==
  ASSUME Sound(heap, DOMAIN live, {})
  PROVE  Accounted
<1> DEFINE C == heap.chunk
           S == heap.segs
           L == DOMAIN live
<1>1. /\ Heads(C) /\ HeapChunks = InHeap(C) /\ MapChunks = Maps(C)
      /\ Records = Records_(S) /\ Binned = Binned_(heap.small, heap.tree)
  BY SameNames
<1>2. L \cup {heap.state} \cup Records = {a \in DOMAIN C : C[a].cin \/ ~C[a].pin}
  BY <1>1 DEF Sound, Owned
<1>3. {a \in HeapChunks : InUse(C[a])} \cup MapChunks = L \cup {heap.state} \cup Records
  BY <1>1, <1>2 DEF InHeap, Maps, InUse
<1>4. HeapChunks \ (L \cup {heap.state} \cup Records) = Idle_(C)
  BY <1>1, <1>2 DEF InHeap, Idle_
<1>5. /\ Idle_(C) = {heap.top} \cup Binned \cup ({heap.dv} \ {0})
      /\ {heap.dv, heap.top} \cap Binned = {} /\ heap.dv # heap.top
      /\ \A n \in SmallSizes :
          /\ \A i, j \in DOMAIN heap.small[n] : heap.small[n][i] = heap.small[n][j] => i = j
          /\ \A a \in Range(heap.small[n]) : C[a].size = n
      /\ \A a \in heap.tree : C[a].size >= SmallLimit
  BY <1>1 DEF Sound, Placed
<1>6. /\ heap.dvsize = IF heap.dv = 0 THEN 0 ELSE SizeOf(heap, heap.dv)
      /\ heap.topsize = SizeOf(heap, heap.top)
  BY DEF Sound, Sizes, SizeOf
<1>7. \A n \in SmallSizes : /\ IsInjective(heap.small[n])
                            /\ \A a \in Range(heap.small[n]) : SizeOf(heap, a) = n
  BY <1>5 DEF IsInjective, SizeOf
<1>8. \A a \in heap.tree : SizeOf(heap, a) >= SmallLimit
  BY <1>5 DEF SizeOf
<1> QED
  BY <1>3, <1>4, <1>5, <1>6, <1>7, <1>8 DEF Accounted

\* The footprint counts the granules the system lends, each for one region.
LEMMA SoundLent ==
  ASSUME Sound(heap, DOMAIN live, {})
  PROVE  FootprintExact
<1> DEFINE C == heap.chunk
           S == heap.segs
           spans == {<<s.base, s.size>> : s \in Range(S)}
           maps == {<<a - C[a].foot, SizeOf(heap, a) + C[a].foot + MapFootPad>> : a \in MapChunks}
           Gs(r) == GranulesOf(r[1], r[2])
<1>1. MapChunks = Maps(C)
  BY SameNames
<1>2. /\ heap.footprint = Granule * Cardinality(heap.backed)
      /\ \A i \in DOMAIN S : GranulesOf(S[i].base, S[i].size) \subseteq heap.backed
      /\ \A i, j \in DOMAIN S : i # j =>
            GranulesOf(S[i].base, S[i].size) \cap GranulesOf(S[j].base, S[j].size) = {}
      /\ \A a \in Maps(C) :
          /\ GranulesOf(MapBase(C, a), MapLength(C, a)) \subseteq heap.backed
          /\ \A i \in DOMAIN S :
              GranulesOf(MapBase(C, a), MapLength(C, a)) \cap GranulesOf(S[i].base, S[i].size) = {}
      /\ \A a, b \in Maps(C) : a # b =>
            GranulesOf(MapBase(C, a), MapLength(C, a))
                \cap GranulesOf(MapBase(C, b), MapLength(C, b)) = {}
  BY DEF Sound, Lent
<1>3. \A r \in spans : \E i \in DOMAIN S : r = <<S[i].base, S[i].size>>
                                       /\ Gs(r) = GranulesOf(S[i].base, S[i].size)
  BY DEF Range
<1>4. \A r \in maps : \E a \in Maps(C) : r = <<MapBase(C, a), MapLength(C, a)>>
                                     /\ Gs(r) = GranulesOf(MapBase(C, a), MapLength(C, a))
  BY <1>1 DEF MapBase, MapLength, SizeOf
<1> HIDE DEF spans, maps, Gs
<1>5. \A r \in spans \cup maps : Gs(r) \subseteq heap.backed
  BY <1>2, <1>3, <1>4
<1>6. \A r, q \in spans \cup maps : r # q => Gs(r) \cap Gs(q) = {}
  <2>1. ASSUME NEW r \in spans, NEW q \in spans, r # q PROVE Gs(r) \cap Gs(q) = {}
    BY <1>2, <1>3, <2>1
  <2>2. ASSUME NEW r \in maps, NEW q \in spans PROVE Gs(r) \cap Gs(q) = {}
    BY <1>2, <1>3, <1>4, <2>2
  <2>3. ASSUME NEW r \in maps, NEW q \in maps, r # q PROVE Gs(r) \cap Gs(q) = {}
    BY <1>2, <1>4, <2>3
  <2>4. \A r \in maps, q \in spans : Gs(q) \cap Gs(r) = {}
    BY <2>2
  <2> QED
    BY <2>1, <2>2, <2>3, <2>4
<1> QED
  BY <1>2, <1>5, <1>6 DEF FootprintExact, spans, maps, Gs

----------------------------------------------------------------------------
(* What holds between the steps of the calls. *)

Moving == [op : {"move"}, old : Nat, size : Requests]
Copied == [op : {"copied"}, old : Nat, at : Nat \ {0}]
Aligning_ == [op : {"align"}, at : Nat \ {0}, size : Requests, alignment : Alignments]
Asking == [op : {"disable", "ask"}, count : Counts, size : Requests, array : BOOLEAN, on : BOOLEAN]
Cutting == [op : {"enable", "carve"}, at : Nat, count : Counts, size : Requests,
            array : BOOLEAN, on : BOOLEAN]
Calls == {Idle} \cup Moving \cup Copied \cup Aligning_ \cup Asking \cup Cutting

\* A thread that allocated for more than its caller asked has that much.
Roomy(h, c) ==
  /\ c \in Aligning_ => h.chunk[c.at].size >= Pad(AlignRequest(Pad(c.size), c.alignment))
  /\ c \in Cutting /\ c.at # 0 =>
        h.chunk[c.at].size >= IndependentSize(c.count, Pad(c.size), c.array)
  /\ c \in Cutting /\ c.op = "carve" => c.at # 0
  /\ c \in Copied => c.at # c.old

\* The space is sound, each block out has the room its caller asked for, and
\* the threads inside a call work on blocks of their own.
Consistent(h, lent, calls) ==
  /\ Sound(h, DOMAIN lent, {})
  /\ \A a \in DOMAIN lent : lent[a] \in Nat /\ h.chunk[a].size - 1 >= lent[a]
  /\ calls \in [Threads -> Calls]
  /\ \A t \in Threads : Held(calls[t]) \subseteq DOMAIN lent /\ Roomy(h, calls[t])
  /\ \A t, u \in Threads : t # u => Held(calls[t]) \cap Held(calls[u]) = {}

Inv == Consistent(heap, live, call)

\* What each call holds.
LEMMA HeldBy ==
  /\ Held(Idle) = {}
  /\ \A c \in Moving : c.op = "move" /\ Held(c) = {c.old} /\ c.old \in Nat /\ c.size \in Requests
  /\ \A c \in Copied : /\ c.op = "copied" /\ Held(c) = {c.old, c.at}
                       /\ c.old \in Nat /\ c.at \in Nat \ {0}
  /\ \A c \in Aligning_ : /\ c.op = "align" /\ Held(c) = {c.at} /\ c.at \in Nat \ {0}
                          /\ c.size \in Requests /\ c.alignment \in Alignments
  /\ \A c \in Asking : /\ c.op \in {"disable", "ask"} /\ Held(c) = {} /\ c.count \in Counts
                       /\ c.size \in Requests /\ c.array \in BOOLEAN /\ c.on \in BOOLEAN
  /\ \A c \in Cutting : /\ c.op \in {"enable", "carve"} /\ Held(c) = {c.at} \ {0} /\ c.at \in Nat
                        /\ c.count \in Counts /\ c.size \in Requests
                        /\ c.array \in BOOLEAN /\ c.on \in BOOLEAN
<1>1. Held(Idle) = {}
  BY DEF Held, Idle
<1>2. ASSUME NEW c \in Moving
      PROVE  c.op = "move" /\ Held(c) = {c.old} /\ c.old \in Nat /\ c.size \in Requests
  BY DEF Held, Moving
<1>3. ASSUME NEW c \in Copied
      PROVE  /\ c.op = "copied" /\ Held(c) = {c.old, c.at}
             /\ c.old \in Nat /\ c.at \in Nat \ {0}
  BY DEF Held, Copied
<1>4. ASSUME NEW c \in Aligning_
      PROVE  /\ c.op = "align" /\ Held(c) = {c.at} /\ c.at \in Nat \ {0}
             /\ c.size \in Requests /\ c.alignment \in Alignments
  BY DEF Held, Aligning_
<1>5. ASSUME NEW c \in Asking
      PROVE  /\ c.op \in {"disable", "ask"} /\ Held(c) = {} /\ c.count \in Counts
             /\ c.size \in Requests /\ c.array \in BOOLEAN /\ c.on \in BOOLEAN
  BY DEF Held, Asking
<1>6. ASSUME NEW c \in Cutting
      PROVE  /\ c.op \in {"enable", "carve"} /\ Held(c) = {c.at} \ {0} /\ c.at \in Nat
             /\ c.count \in Counts /\ c.size \in Requests
             /\ c.array \in BOOLEAN /\ c.on \in BOOLEAN
  BY DEF Held, Cutting
<1> QED
  BY <1>1, <1>2, <1>3, <1>4, <1>5, <1>6

\* The kind of a call shows in its op.
LEMMA KindOf ==
  ASSUME NEW c \in Calls
  PROVE  /\ c = Idle => c.op = "idle"
         /\ c.op = "move" => c \in Moving
         /\ c.op = "copied" => c \in Copied
         /\ c.op = "align" => c \in Aligning_
         /\ c.op \in {"disable", "ask"} => c \in Asking
         /\ c.op \in {"enable", "carve"} => c \in Cutting
<1>1. Idle.op = "idle"
  BY DEF Idle
<1>2. c = Idle \/ c \in Moving \/ c \in Copied \/ c \in Aligning_ \/ c \in Asking \/ c \in Cutting
  BY DEF Calls
<1> QED
  BY <1>1, <1>2, HeldBy

\* A step of thread t takes the blocks in gone and leaves those of left.
Passes(h, lent, calls, t, gone, g, left) ==
  /\ \A u \in Threads : u # t => Held(calls[u]) \cap gone = {}
  /\ Sound(g, DOMAIN left, {}) /\ Spares(h, g, DOMAIN lent \ gone)
  /\ \A a \in DOMAIN lent \ gone : a \in DOMAIN left /\ left[a] = lent[a]
  /\ \A a \in DOMAIN left : a \notin DOMAIN lent \ gone =>
        left[a] \in Nat /\ g.chunk[a].size - 1 >= left[a]

\* Its call then is c.
Turns(calls, t, g, left, after, c) ==
  /\ c \in Calls /\ after = [calls EXCEPT ![t] = c]
  /\ Held(c) \subseteq DOMAIN left /\ Roomy(g, c)
  /\ \A u \in Threads : u # t => Held(calls[u]) \cap Held(c) = {}

\* Such a step keeps space, blocks and calls consistent.
LEMMA StepKeeps ==
  ASSUME NEW h, NEW lent, NEW calls, Consistent(h, lent, calls), NEW t \in Threads, NEW gone,
         NEW g, NEW left, Passes(h, lent, calls, t, gone, g, left),
         NEW after, NEW c, Turns(calls, t, g, left, after, c)
  PROVE  Consistent(g, left, after)
<1> USE DEF Passes, Turns
<1>1. /\ \A a \in DOMAIN lent : lent[a] \in Nat /\ h.chunk[a].size - 1 >= lent[a]
      /\ calls \in [Threads -> Calls]
      /\ \A u \in Threads : Held(calls[u]) \subseteq DOMAIN lent /\ Roomy(h, calls[u])
      /\ \A u, v \in Threads : u # v => Held(calls[u]) \cap Held(calls[v]) = {}
  BY DEF Consistent
<1>2. after \in [Threads -> Calls] /\ after[t] = c /\ \A u \in Threads : u # t => after[u] = calls[u]
  BY <1>1
<1>3. \A a \in DOMAIN left : left[a] \in Nat /\ g.chunk[a].size - 1 >= left[a]
  <2> SUFFICES ASSUME NEW a \in DOMAIN left PROVE left[a] \in Nat /\ g.chunk[a].size - 1 >= left[a]
    OBVIOUS
  <2>1. CASE a \in DOMAIN lent \ gone
    <3>1. left[a] = lent[a] /\ g.chunk[a].size = h.chunk[a].size
      BY <2>1 DEF Spares
    <3> QED
      BY <1>1, <2>1, <3>1
  <2>2. CASE a \notin DOMAIN lent \ gone
    BY <2>2
  <2> QED
    BY <2>1, <2>2
<1>4. ASSUME NEW u \in Threads
      PROVE  Held(after[u]) \subseteq DOMAIN left /\ Roomy(g, after[u])
  <2>1. CASE u = t
    BY <1>2, <2>1
  <2>2. CASE u # t
    <3>1. after[u] = calls[u] /\ Held(calls[u]) \subseteq DOMAIN lent \ gone
      BY <1>1, <1>2, <2>2
    <3>2. Held(calls[u]) \subseteq DOMAIN left
      BY <3>1
    <3>3. \A a \in Held(calls[u]) : g.chunk[a].size = h.chunk[a].size
      BY <3>1 DEF Spares
    <3>4. Roomy(g, calls[u])
      <4>1. calls[u] \in Aligning_ => calls[u].at \in Held(calls[u])
        BY HeldBy
      <4>2. calls[u] \in Cutting /\ calls[u].at # 0 => calls[u].at \in Held(calls[u])
        BY HeldBy
      <4>3. Roomy(h, calls[u])
        BY <1>1
      <4> QED
        BY <3>3, <4>1, <4>2, <4>3 DEF Roomy
    <3> QED
      BY <3>1, <3>2, <3>4
  <2> QED
    BY <2>1, <2>2
<1>5. ASSUME NEW u \in Threads, NEW v \in Threads, u # v
      PROVE  Held(after[u]) \cap Held(after[v]) = {}
  BY <1>1, <1>2, <1>5
<1>6. Sound(g, DOMAIN left, {})
  OBVIOUS
<1> HIDE DEF Passes, Turns
<1> QED
  BY <1>2, <1>3, <1>4, <1>5, <1>6 DEF Consistent

----------------------------------------------------------------------------
(* The steps, one by one. *)

\* What is left of a function without some of its arguments.
LEMMA DropHas ==
  ASSUME NEW f, NEW S
  PROVE  DOMAIN Drop(f, S) = DOMAIN f \ S /\ \A a \in DOMAIN f \ S : Drop(f, S)[a] = f[a]
BY DEF Drop

\* A function with one argument more, or changed.
LEMMA WithHas ==
  ASSUME NEW f, NEW p, NEW r
  PROVE  /\ DOMAIN With(f, p, r) = DOMAIN f \cup {p} /\ With(f, p, r)[p] = r
         /\ \A a \in DOMAIN f : a # p => With(f, p, r)[a] = f[a]
BY DEF With

\* In j the block p of r stands for the block a of f.
Replaced(f, a, p, r, j) ==
  /\ DOMAIN j = (DOMAIN f \ {a}) \cup {p} /\ j[p] = r
  /\ \A b \in DOMAIN f \ {a} : b # p => j[b] = f[b]

\* A function in which one argument takes the place of another.
LEMMA ReplaceHas ==
  ASSUME NEW f, NEW a, NEW p, NEW r
  PROVE  Replaced(f, a, p, r, With(Drop(f, {a}), p, r))
<1> DEFINE rest == Drop(f, {a})
<1>1. DOMAIN rest = DOMAIN f \ {a} /\ \A b \in DOMAIN f \ {a} : rest[b] = f[b]
  BY DEF Drop
<1> HIDE DEF rest
<1>2. /\ DOMAIN With(rest, p, r) = DOMAIN rest \cup {p} /\ With(rest, p, r)[p] = r
      /\ \A b \in DOMAIN rest : b # p => With(rest, p, r)[b] = rest[b]
  BY DEF With
<1>3. /\ DOMAIN With(rest, p, r) = (DOMAIN f \ {a}) \cup {p}
      /\ With(rest, p, r)[p] = r
      /\ \A b \in DOMAIN f \ {a} : b # p => With(rest, p, r)[b] = f[b]
  BY <1>1, <1>2
<1> QED
  BY <1>3 DEF rest, Replaced

\* The system lends more only within the limit.
Bounded(h, g) == g.footprint > h.footprint /\ h.limit # 0 => g.footprint <= h.limit

\* The blocks of gone went, or made place for others.
Handled(lent, left, gone) ==
  \/ gone = {} /\ DOMAIN left = DOMAIN lent
  \/ gone = {} /\ \E a : a \notin DOMAIN lent /\ DOMAIN left = DOMAIN lent \cup {a}
  \/ DOMAIN left = DOMAIN lent \ gone
  \/ \E a \in DOMAIN lent : \E P :
        gone = {a} /\ IsFiniteSet(P) /\ DOMAIN left = (DOMAIN lent \ {a}) \cup P

Steps(h, lent, calls, g, left, after) ==
  \E t \in Threads, c \in Calls, gone \in SUBSET DOMAIN lent :
    /\ Passes(h, lent, calls, t, gone, g, left) /\ Turns(calls, t, g, left, after, c)
    /\ Bounded(h, g) /\ Handled(lent, left, gone)

\* What a thread and the others hold.
LEMMA Holdings ==
  ASSUME Inv, NEW t \in Threads
  PROVE  /\ Sound(heap, DOMAIN live, {}) /\ call[t] \in Calls /\ call \in [Threads -> Calls]
         /\ Roomy(heap, call[t])
         /\ Held(call[t]) \subseteq DOMAIN live
         /\ \A u \in Threads : u # t => Held(call[u]) \cap Held(call[t]) = {}
         /\ \A u \in Threads : Held(call[u]) \subseteq DOMAIN live
         /\ \A a \in DOMAIN live : live[a] \in Nat /\ heap.chunk[a].size - 1 >= live[a]
         /\ Available \subseteq DOMAIN live
         /\ \A u \in Threads : Held(call[u]) \cap Available = {}
<1>1. Available \subseteq DOMAIN live /\ \A u \in Threads : Held(call[u]) \cap Available = {}
  BY DEF Available
<1> QED
  BY <1>1 DEF Inv, Consistent

\* A chunk of that size has the room asked for.
LEMMA RoomOf ==
  ASSUME NEW r \in Nat, NEW n \in Nat, n >= Pad(r)
  PROVE  Pad(r) \in Nat /\ Pad(r) >= MinChunk /\ n - 1 >= r
BY Numbers DEF Pad, Larger

\* The numbers of a sound space.
LEMMA SoundNumbers ==
  ASSUME NEW h, NEW L, Sound(h, L, {})
  PROVE  /\ h.footprint \in Nat /\ h.limit \in Nat /\ L \subseteq DOMAIN h.chunk
         /\ \A a \in DOMAIN h.chunk : a \in Nat \ {0} /\ h.chunk[a].size \in Nat
<1>1. h.backed \subseteq Space /\ h.footprint = Granule * Cardinality(h.backed)
  BY DEF Sound, Lent
<1>2. Cardinality(h.backed) \in Nat
  BY <1>1, HeapAssumption, FS_Subset, FS_CardinalityType
<1>3. h.footprint \in Nat
  BY <1>1, <1>2, Numbers
<1>4. h.limit \in Nat
  BY DEF Sound, Settings
<1>5. Heads(h.chunk) /\ L \subseteq DOMAIN h.chunk
  BY Inside
<1>6. \A a \in DOMAIN h.chunk : a \in Nat \ {0} /\ h.chunk[a].size \in Nat
  BY <1>5 DEF Heads, Header
<1> QED
  BY <1>3, <1>4, <1>5, <1>6

\* A thread between its calls stays there.
LEMMA IdleTurns ==
  ASSUME Inv, NEW t \in Threads, call[t] = Idle, NEW g, NEW left
  PROVE  Turns(call, t, g, left, call, Idle)
<1>1. call = [call EXCEPT ![t] = Idle]
  BY Holdings
<1>2. Held(Idle) = {} /\ Idle \notin Moving \cup Copied \cup Aligning_ \cup Asking \cup Cutting
  <2>1. Idle.op = "idle"
    BY DEF Idle
  <2> QED
    BY <2>1, HeldBy
<1>3. Idle \in Calls
  BY DEF Calls
<1> QED
  BY <1>1, <1>2, <1>3 DEF Turns, Roomy

\* A call that ends leaves its thread idle.
LEMMA EndTurns ==
  ASSUME Inv, NEW t \in Threads, NEW g, NEW left, NEW after, after = [call EXCEPT ![t] = Idle]
  PROVE  Turns(call, t, g, left, after, Idle)
<1>2. Held(Idle) = {} /\ Idle \notin Moving \cup Copied \cup Aligning_ \cup Asking \cup Cutting
  <2>1. Idle.op = "idle"
    BY DEF Idle
  <2> QED
    BY <2>1, HeldBy
<1>3. Idle \in Calls
  BY DEF Calls
<1> QED
  BY <1>2, <1>3 DEF Turns, Roomy

\* An allocation disturbs nobody's block, and adds one if it succeeds.
LEMMA AllocationPasses ==
  ASSUME Inv, NEW t \in Threads, NEW n \in Nat, n >= MinChunk, NEW r \in Nat, n - 1 >= r,
         NEW o \in Allocate(heap, n), NEW left, left = Taken(o, r)
  PROVE  /\ Passes(heap, live, call, t, {}, o.heap, left) /\ Bounded(heap, o.heap)
         /\ Handled(live, left, {})
         /\ o.at = 0 => left = live
         /\ o.at # 0 => /\ o.at \in Nat \ {0} /\ o.at \notin DOMAIN live
                        /\ DOMAIN left = DOMAIN live \cup {o.at}
                        /\ o.heap.chunk[o.at].size \in Nat /\ o.heap.chunk[o.at].size >= n
         /\ DOMAIN live \subseteq DOMAIN left
<1> DEFINE L == DOMAIN live
           g == o.heap
<1>1. Sound(heap, L, {})
  BY Holdings
<1>2. Lends(heap, o, L, n)
  BY <1>1, Allocation
<1>3. Spares(heap, g, L) /\ (g.footprint = heap.footprint \/ heap.limit = 0 \/ g.footprint <= heap.limit)
  BY <1>2 DEF Lends, Asked
<1>4. L \ {} = L
  OBVIOUS
<1>5. \A u \in Threads : Held(call[u]) \cap {} = {}
  OBVIOUS
<1>6. CASE o.at = 0
  <2>1. left = live
    BY <1>6 DEF Taken
  <2>2. Sound(g, L, {})
    BY <1>2, <1>6 DEF Lends
  <2>3. Bounded(heap, g)
    BY <1>1, <1>3, <2>2, SoundNumbers DEF Bounded
  <2> HIDE DEF L, g
  <2>4. DOMAIN live = L
    BY DEF L
  <2>5. Passes(heap, live, call, t, {}, g, left)
    BY <1>3, <1>4, <1>5, <2>1, <2>2, <2>4 DEF Passes
  <2> QED
    BY <1>6, <2>1, <2>3, <2>5 DEF Handled, g
<1>7. CASE o.at # 0
  <2>1. /\ o.at \notin L /\ Sound(g, L \cup {o.at}, {}) /\ g.chunk[o.at].size >= n
    BY <1>2, <1>7 DEF Lends
  <2>2. left = With(live, o.at, r)
    BY <1>7 DEF Taken
  <2>3. DOMAIN left = L \cup {o.at} /\ (\A a \in L : left[a] = live[a]) /\ left[o.at] = r
    <3>1. \A a \in L : a # o.at
      BY <2>1
    <3>2. /\ DOMAIN With(live, o.at, r) = DOMAIN live \cup {o.at}
          /\ With(live, o.at, r)[o.at] = r
          /\ \A a \in DOMAIN live : a # o.at => With(live, o.at, r)[a] = live[a]
      BY ONLY WithHas
    <3> QED
      BY <2>2, <3>1, <3>2
  <2>4. o.at \in Nat \ {0} /\ g.chunk[o.at].size \in Nat /\ g.footprint \in Nat /\ heap.footprint \in Nat
        /\ heap.limit \in Nat
    <3>1. /\ g.footprint \in Nat /\ L \cup {o.at} \subseteq DOMAIN g.chunk
          /\ \A a \in DOMAIN g.chunk : a \in Nat \ {0} /\ g.chunk[a].size \in Nat
      BY <2>1, SoundNumbers
    <3>2. heap.footprint \in Nat /\ heap.limit \in Nat
      BY <1>1, SoundNumbers
    <3> QED
      BY <3>1, <3>2
  <2>5. Bounded(heap, g)
    BY <1>3, <2>4 DEF Bounded
  <2>6. g.chunk[o.at].size - 1 >= r
    BY <2>1, <2>4
  <2> HIDE DEF L, g
  <2>7. DOMAIN live = L
    BY DEF L
  <2>8. Passes(heap, live, call, t, {}, g, left)
    BY <1>3, <1>4, <1>5, <2>1, <2>3, <2>6, <2>7 DEF Passes
  <2>9. Handled(live, left, {})
    BY <2>1, <2>3, <2>7 DEF Handled
  <2> QED
    BY <1>7, <2>1, <2>3, <2>4, <2>5, <2>7, <2>8, <2>9 DEF g
<1> QED
  BY <1>6, <1>7

Remain(lent, left, gone) ==
  DOMAIN left = DOMAIN lent \ gone /\ \A a \in DOMAIN lent \ gone : left[a] = lent[a]

\* Blocks given back, and memory with them.
LEMMA ReturnPasses ==
  ASSUME Inv, NEW t \in Threads, NEW gone, gone \subseteq DOMAIN live,
         \A u \in Threads : u # t => Held(call[u]) \cap gone = {},
         NEW g, Returned(heap, g, DOMAIN live \ gone), NEW left, Remain(live, left, gone)
  PROVE  Passes(heap, live, call, t, gone, g, left) /\ Bounded(heap, g) /\ Handled(live, left, gone)
<1>1. DOMAIN left = DOMAIN live \ gone /\ \A a \in DOMAIN live \ gone : left[a] = live[a]
  BY DEF Remain
<1>2. Sound(g, DOMAIN left, {}) /\ Spares(heap, g, DOMAIN live \ gone) /\ g.footprint <= heap.footprint
  BY <1>1 DEF Returned
<1>3. Bounded(heap, g)
  <2>1. Sound(heap, DOMAIN live, {})
    BY Holdings
  <2>2. heap.footprint \in Nat /\ g.footprint \in Nat
    BY <1>2, <2>1, SoundNumbers
  <2> QED
    BY <1>2, <2>2 DEF Bounded
<1> QED
  BY <1>1, <1>2, <1>3 DEF Passes, Handled

\* Blocks that stay where they are, in a space whose chunks are changed in one.
LEMMA ChangePasses ==
  ASSUME Inv, NEW t \in Threads, NEW a \in DOMAIN live,
         \A u \in Threads : u # t => a \notin Held(call[u]),
         NEW g, NEW p, Sound(g, (DOMAIN live \ {a}) \cup {p}, {}), p \notin DOMAIN live \ {a},
         Spares(heap, g, DOMAIN live \ {a}), SameBut(g, heap, FreeFields),
         NEW r \in Nat, g.chunk[p].size - 1 >= r,
         NEW left, DOMAIN left = (DOMAIN live \ {a}) \cup {p}, left[p] = r,
         \A b \in DOMAIN live \ {a} : left[b] = live[b]
  PROVE  Passes(heap, live, call, t, {a}, g, left) /\ Bounded(heap, g) /\ Handled(live, left, {a})
<1>1. Bounded(heap, g)
  <2>1. Sound(heap, DOMAIN live, {})
    BY Holdings
  <2>2. heap.footprint \in Nat
    BY <2>1, SoundNumbers
  <2>3. g.footprint = heap.footprint
    BY DEF SameBut, FreeFields, HeapFields
  <2> QED
    BY <2>2, <2>3 DEF Bounded
<1>2. Passes(heap, live, call, t, {a}, g, left)
  <2>1. \A u \in Threads : u # t => Held(call[u]) \cap {a} = {}
    OBVIOUS
  <2> QED
    BY <2>1 DEF Passes
<1>3. Handled(live, left, {a})
  <2> DEFINE P == {p}
  <2>1. IsFiniteSet(P)
    BY FS_Singleton
  <2>2. DOMAIN left = (DOMAIN live \ {a}) \cup P
    OBVIOUS
  <2> HIDE DEF P
  <2> QED
    BY <2>1, <2>2 DEF Handled
<1> QED
  BY <1>1, <1>2, <1>3

\* A step is one that passes, with the turn its call takes.
LEMMA StepsBy ==
  ASSUME NEW h, NEW lent, NEW calls, NEW g, NEW left, NEW after,
         NEW t \in Threads, NEW c, NEW gone, gone \subseteq DOMAIN lent,
         Passes(h, lent, calls, t, gone, g, left), Turns(calls, t, g, left, after, c),
         Bounded(h, g), Handled(lent, left, gone)
  PROVE  Steps(h, lent, calls, g, left, after)
BY DEF Steps, Turns

\* sm_space_allocate 3645-3791.
LEMMA MallocSteps ==
  ASSUME Inv, NEW t \in Threads, Malloc(t)
  PROVE  Steps(heap, live, call, heap', live', call')
<1>1. PICK r \in Requests : \E o \in Allocate(heap, Pad(r)) : heap' = o.heap /\ live' = Taken(o, r)
  BY DEF Malloc
<1>2. PICK o \in Allocate(heap, Pad(r)) : heap' = o.heap /\ live' = Taken(o, r)
  BY <1>1
<1>3. r \in Nat /\ Pad(r) \in Nat /\ Pad(r) >= MinChunk /\ Pad(r) - 1 >= r
  <2>1. r \in Nat
    BY SpaceAssumption
  <2> QED
    BY <2>1, Numbers DEF Pad, Larger
<1>4. /\ Passes(heap, live, call, t, {}, o.heap, live') /\ Bounded(heap, o.heap)
      /\ Handled(live, live', {})
  BY <1>2, <1>3, AllocationPasses
<1>5. Turns(call, t, heap', live', call', Idle)
  <2>1. call[t] = Idle /\ call' = call
    BY DEF Malloc
  <2> QED
    BY <2>1, IdleTurns
<1> QED
  <2>1. {} \subseteq DOMAIN live
    OBVIOUS
  <2> QED
    BY <1>2, <1>4, <1>5, <2>1, StepsBy

\* sm_space_free.
LEMMA FreeBlockSteps ==
  ASSUME Inv, NEW t \in Threads, FreeBlock(t)
  PROVE  Steps(heap, live, call, heap', live', call')
<1>1. PICK a \in Available : heap' \in Free(heap, a) /\ live' = Drop(live, {a})
  BY DEF FreeBlock
<1>2. /\ Sound(heap, DOMAIN live, {}) /\ a \in DOMAIN live
      /\ \A u \in Threads : Held(call[u]) \cap {a} = {}
  BY <1>1, Holdings
<1>3. Returned(heap, heap', DOMAIN live \ {a})
  BY <1>1, <1>2, Freeing
<1>4. Remain(live, live', {a})
  BY <1>1, DropHas DEF Remain
<1>5. {a} \subseteq DOMAIN live
  BY <1>2
<1>6. /\ Passes(heap, live, call, t, {a}, heap', live') /\ Bounded(heap, heap')
      /\ Handled(live, live', {a})
  BY <1>2, <1>3, <1>4, <1>5, ReturnPasses
<1>7. Turns(call, t, heap', live', call', Idle)
  <2>1. call[t] = Idle /\ call' = call
    BY DEF FreeBlock
  <2> QED
    BY <2>1, IdleTurns
<1> QED
  BY <1>5, <1>6, <1>7, StepsBy

\* The space as it is, and the blocks.
LEMMA SamePasses ==
  ASSUME Inv, NEW t \in Threads, NEW g, Sound(g, DOMAIN live, {}), Spares(heap, g, DOMAIN live),
         SameBut(g, heap, {"limit", "trimcheck", "checks", "mmapon"})
  PROVE  Passes(heap, live, call, t, {}, g, live) /\ Bounded(heap, g) /\ Handled(live, live, {})
<1>1. DOMAIN live \ {} = DOMAIN live
  OBVIOUS
<1>2. Bounded(heap, g)
  <2>1. Sound(heap, DOMAIN live, {})
    BY Holdings
  <2>2. heap.footprint \in Nat
    BY <2>1, SoundNumbers
  <2>3. g.footprint = heap.footprint
    BY DEF SameBut, HeapFields
  <2> QED
    BY <2>2, <2>3 DEF Bounded
<1>3. Passes(heap, live, call, t, {}, g, live)
  BY <1>1 DEF Passes
<1>4. Handled(live, live, {})
  BY DEF Handled
<1> QED
  BY <1>2, <1>3, <1>4

\* Leaving space and blocks alone passes.
LEMMA UnchangedPasses ==
  ASSUME Inv, NEW t \in Threads
  PROVE  /\ Passes(heap, live, call, t, {}, heap, live) /\ Bounded(heap, heap)
         /\ Handled(live, live, {})
<1>1. Sound(heap, DOMAIN live, {})
  BY Holdings
<1>2. DOMAIN live \subseteq DOMAIN heap.chunk /\ IsHeap(heap)
  BY <1>1, Inside
<1>3. Spares(heap, heap, DOMAIN live)
  BY <1>2, SparesSame
<1>4. SameBut(heap, heap, {"limit", "trimcheck", "checks", "mmapon"})
  BY <1>2 DEF SameBut
<1> QED
  BY <1>1, <1>3, <1>4, SamePasses

\* A block of r resized where it is.
LEMMA ResizePasses ==
  ASSUME Inv, NEW t \in Threads, NEW a \in Available, NEW n \in Nat, n >= MinChunk,
         NEW r \in Nat, n - 1 >= r, NEW g, Sound(g, DOMAIN live, {}),
         Spares(heap, g, DOMAIN live \ {a}), SameBut(g, heap, FreeFields), g.chunk[a].size >= n,
         NEW left, DOMAIN left = DOMAIN live, left[a] = r,
         \A b \in DOMAIN live \ {a} : left[b] = live[b]
  PROVE  Passes(heap, live, call, t, {a}, g, left) /\ Bounded(heap, g) /\ Handled(live, left, {a})
<1> DEFINE L == (DOMAIN live \ {a}) \cup {a}
<1>1. a \in DOMAIN live /\ \A u \in Threads : a \notin Held(call[u])
  BY Holdings
<1>2. L = DOMAIN live
  BY <1>1
<1>3. g.chunk[a].size \in Nat
  BY <1>1, SoundNumbers
<1>4. g.chunk[a].size - 1 >= r
  BY <1>3
<1>5. Sound(g, L, {}) /\ DOMAIN left = L
  BY <1>2
<1> QED
  BY <1>1, <1>4, <1>5, ChangePasses

\* The attempt of realloc in place, and its going on by copy.
LEMMA ReallocSteps ==
  ASSUME ~Remaps, Inv, NEW t \in Threads, Realloc(t)
  PROVE  Steps(heap, live, call, heap', live', call')
<1>1. PICK a \in Available, r \in Requests : \E o \in TryReallocate(heap, a, Pad(r), TRUE) :
        /\ heap' = o.heap
        /\ \/ o.at # 0 /\ live' = With(Drop(live, {a}), o.at, r) /\ UNCHANGED call
           \/ o.at = 0 /\ call' = [call EXCEPT ![t] = [op |-> "move", old |-> a, size |-> r]]
                       /\ UNCHANGED live
  BY DEF Realloc
<1>2. PICK o \in TryReallocate(heap, a, Pad(r), TRUE) :
        /\ heap' = o.heap
        /\ \/ o.at # 0 /\ live' = With(Drop(live, {a}), o.at, r) /\ UNCHANGED call
           \/ o.at = 0 /\ call' = [call EXCEPT ![t] = [op |-> "move", old |-> a, size |-> r]]
                       /\ UNCHANGED live
  BY <1>1
<1>3. r \in Nat /\ Pad(r) \in Nat /\ Pad(r) >= MinChunk /\ Pad(r) - 1 >= r
  <2>1. r \in Nat
    BY SpaceAssumption
  <2> QED
    BY <2>1, Numbers DEF Pad, Larger
<1>4. Sound(heap, DOMAIN live, {}) /\ a \in DOMAIN live /\ \A u \in Threads : a \notin Held(call[u])
  BY Holdings
<1>5. a \in Nat \ {0}
  BY <1>4, SoundNumbers
<1>6. Resizes(heap, o, DOMAIN live, a, Pad(r))
  BY <1>3, <1>4, Resizing
<1>7. call[t] = Idle
  BY DEF Realloc
<1>8. CASE o.at = 0
  <2>1. heap' = heap /\ live' = live
    BY <1>2, <1>5, <1>6, <1>8 DEF Resizes
  <2> DEFINE c == [op |-> "move", old |-> a, size |-> r]
  <2>2. c \in Moving /\ c.old = a
    BY <1>5 DEF Moving
  <2>3. call' = [call EXCEPT ![t] = c]
    BY <1>2, <1>8
  <2> HIDE DEF c
  <2>4. Held(c) = {a} /\ c.op = "move"
    BY <2>2, HeldBy
  <2>5. Roomy(heap, c)
    <3>1. c \notin Aligning_ /\ c \notin Cutting /\ c \notin Copied
      BY <2>4, HeldBy
    <3> QED
      BY <3>1 DEF Roomy
  <2>6. Turns(call, t, heap, live, call', c)
    BY <1>4, <2>2, <2>3, <2>4, <2>5 DEF Turns, Calls
  <2>7. {} \subseteq DOMAIN live
    OBVIOUS
  <2>8. /\ Passes(heap, live, call, t, {}, heap, live) /\ Bounded(heap, heap)
        /\ Handled(live, live, {})
    BY UnchangedPasses
  <2> QED
    BY <2>1, <2>6, <2>7, <2>8, StepsBy
<1>9. CASE o.at # 0
  <2>1. /\ o.at = a /\ Sound(heap', DOMAIN live, {}) /\ Spares(heap, heap', DOMAIN live \ {a})
        /\ SameBut(heap', heap, FreeFields) /\ heap'.chunk[a].size >= Pad(r)
    BY <1>2, <1>6, <1>9 DEF Resizes
  <2>2. live' = With(Drop(live, {a}), a, r) /\ call' = call
    BY <1>2, <1>9, <2>1
  <2>3. Replaced(live, a, a, r, live')
    BY <2>2, ReplaceHas
  <2>5. /\ DOMAIN live' = DOMAIN live /\ live'[a] = r
        /\ \A b \in DOMAIN live \ {a} : live'[b] = live[b]
    BY <1>4, <2>3 DEF Replaced
  <2>6. /\ Passes(heap, live, call, t, {a}, heap', live') /\ Bounded(heap, heap')
        /\ Handled(live, live', {a})
    BY <1>3, <2>1, <2>5, ResizePasses
  <2>7. Turns(call, t, heap', live', call', Idle)
    BY <1>7, <2>2, IdleTurns
  <2>8. {a} \subseteq DOMAIN live
    BY <1>4
  <2> QED
    BY <2>6, <2>7, <2>8, StepsBy
<1> QED
  BY <1>8, <1>9

\* sm_space_realloc_in_place.
LEMMA ReallocInPlaceSteps ==
  ASSUME ~Remaps, Inv, NEW t \in Threads, ReallocInPlace(t)
  PROVE  Steps(heap, live, call, heap', live', call')
<1>1. PICK a \in Available, r \in Requests : \E o \in TryReallocate(heap, a, Pad(r), FALSE) :
        heap' = o.heap /\ live' = IF o.at = a THEN [live EXCEPT ![a] = r] ELSE live
  BY DEF ReallocInPlace
<1>2. PICK o \in TryReallocate(heap, a, Pad(r), FALSE) :
        heap' = o.heap /\ live' = IF o.at = a THEN [live EXCEPT ![a] = r] ELSE live
  BY <1>1
<1>3. r \in Nat /\ Pad(r) \in Nat /\ Pad(r) >= MinChunk /\ Pad(r) - 1 >= r
  <2>1. r \in Nat
    BY SpaceAssumption
  <2> QED
    BY <2>1, Numbers DEF Pad, Larger
<1>4. Sound(heap, DOMAIN live, {}) /\ a \in DOMAIN live
  BY Holdings
<1>5. a \in Nat \ {0}
  BY <1>4, SoundNumbers
<1>6. Resizes(heap, o, DOMAIN live, a, Pad(r))
  BY <1>3, <1>4, Resizing
<1>7. Turns(call, t, heap', live', call', Idle)
  <2>1. call[t] = Idle /\ call' = call
    BY DEF ReallocInPlace
  <2> QED
    BY <2>1, IdleTurns
<1>8. CASE o.at = 0
  <2>1. heap' = heap /\ live' = live
    BY <1>2, <1>5, <1>6, <1>8 DEF Resizes
  <2>2. {} \subseteq DOMAIN live
    OBVIOUS
  <2>3. /\ Passes(heap, live, call, t, {}, heap', live') /\ Bounded(heap, heap')
        /\ Handled(live, live', {})
    BY <2>1, UnchangedPasses
  <2> QED
    BY <1>7, <2>2, <2>3, StepsBy
<1>9. CASE o.at # 0
  <2>1. /\ o.at = a /\ Sound(heap', DOMAIN live, {}) /\ Spares(heap, heap', DOMAIN live \ {a})
        /\ SameBut(heap', heap, FreeFields) /\ heap'.chunk[a].size >= Pad(r)
    BY <1>2, <1>6, <1>9 DEF Resizes
  <2>2. live' = [live EXCEPT ![a] = r]
    BY <1>2, <2>1
  <2>3. /\ DOMAIN live' = DOMAIN live /\ live'[a] = r
        /\ \A b \in DOMAIN live \ {a} : live'[b] = live[b]
    BY <1>4, <2>2
  <2>4. /\ Passes(heap, live, call, t, {a}, heap', live') /\ Bounded(heap, heap')
        /\ Handled(live, live', {a})
    BY <1>3, <2>1, <2>3, ResizePasses
  <2>5. {a} \subseteq DOMAIN live
    BY <1>4
  <2> QED
    BY <1>7, <2>4, <2>5, StepsBy
<1> QED
  BY <1>8, <1>9

\* A padded request is large enough for a chunk and for the request.
LEMMA PadOf ==
  ASSUME NEW r \in Requests
  PROVE  r \in Nat /\ Pad(r) \in Nat /\ Pad(r) >= MinChunk /\ Pad(r) - 1 >= r
<1>1. r \in Nat
  BY SpaceAssumption
<1> QED
  BY <1>1, Numbers DEF Pad, Larger

\* The allocation of a realloc that moves.
LEMMA ReallocAllocateSteps ==
  ASSUME Inv, NEW t \in Threads, ReallocAllocate(t)
  PROVE  Steps(heap, live, call, heap', live', call')
<1> DEFINE r == call[t].size
<1>1. PICK o \in Allocate(heap, Pad(r)) :
        /\ heap' = o.heap /\ live' = Taken(o, r)
        /\ call' = [call EXCEPT ![t] = IF o.at = 0 THEN Idle
                                       ELSE [op |-> "copied", old |-> call[t].old, at |-> o.at]]
  BY Holdings DEF ReallocAllocate
<1>2. call[t] \in Moving
  <2>1. call[t].op = "move" /\ call[t] \in Calls
    BY Holdings DEF ReallocAllocate
  <2> QED
    BY <2>1, KindOf
<1>3. r \in Requests /\ Held(call[t]) = {call[t].old} /\ call[t].old \in Nat
  BY <1>2, HeldBy
<1> HIDE DEF r
<1>4. r \in Nat /\ Pad(r) \in Nat /\ Pad(r) >= MinChunk /\ Pad(r) - 1 >= r
  BY <1>3, PadOf
<1>5. /\ Passes(heap, live, call, t, {}, o.heap, live') /\ Bounded(heap, o.heap)
      /\ Handled(live, live', {})
      /\ o.at # 0 => /\ o.at \in Nat \ {0} /\ o.at \notin DOMAIN live
                     /\ DOMAIN live' = DOMAIN live \cup {o.at}
      /\ DOMAIN live \subseteq DOMAIN live'
  BY <1>1, <1>4, AllocationPasses
<1>6. \E c : Turns(call, t, heap', live', call', c)
  <2>1. CASE o.at = 0
    <3>1. call' = [call EXCEPT ![t] = Idle]
      BY <1>1, <2>1
    <3> QED
      BY <3>1, EndTurns
  <2>2. CASE o.at # 0
    <3> DEFINE c == [op |-> "copied", old |-> call[t].old, at |-> o.at]
    <3>1. call' = [call EXCEPT ![t] = c]
      BY <1>1, <2>2
    <3>2. c \in Copied /\ c.old = call[t].old /\ c.at = o.at
      BY <1>3, <1>5, <2>2 DEF Copied
    <3> HIDE DEF c
    <3>3. Held(c) = {call[t].old, o.at} /\ c.op = "copied"
      BY <3>2, HeldBy
    <3>4. /\ call[t].old \in DOMAIN live
          /\ \A u \in Threads : u # t => call[t].old \notin Held(call[u])
          /\ \A u \in Threads : Held(call[u]) \subseteq DOMAIN live
      BY <1>3, Holdings
    <3>5. c \notin Aligning_ /\ c \notin Cutting
      BY <3>3, HeldBy
    <3>6. Roomy(heap', c)
      BY <1>5, <2>2, <3>2, <3>4, <3>5 DEF Roomy
    <3>7. Held(c) \subseteq DOMAIN live'
      BY <1>5, <2>2, <3>3, <3>4
    <3>8. \A u \in Threads : u # t => Held(call[u]) \cap Held(c) = {}
      BY <1>5, <2>2, <3>3, <3>4
    <3>9. c \in Calls
      BY <3>2 DEF Calls
    <3> QED
      BY <3>1, <3>6, <3>7, <3>8, <3>9 DEF Turns
  <2> QED
    BY <2>1, <2>2
<1>7. {} \subseteq DOMAIN live
  OBVIOUS
<1> QED
  BY <1>1, <1>5, <1>6, <1>7, StepsBy

\* The free of a realloc that moved.
LEMMA ReallocFreeSteps ==
  ASSUME Inv, NEW t \in Threads, ReallocFree(t)
  PROVE  Steps(heap, live, call, heap', live', call')
<1> DEFINE a == call[t].old
<1>1. heap' \in Free(heap, a) /\ live' = Drop(live, {a}) /\ call' = [call EXCEPT ![t] = Idle]
  BY DEF ReallocFree
<1>2. call[t] \in Copied
  <2>1. call[t].op = "copied" /\ call[t] \in Calls
    BY Holdings DEF ReallocFree
  <2> QED
    BY <2>1, KindOf
<1>3. a \in Held(call[t])
  BY <1>2, HeldBy
<1> HIDE DEF a
<1>4. /\ Sound(heap, DOMAIN live, {}) /\ a \in DOMAIN live
      /\ \A u \in Threads : u # t => Held(call[u]) \cap {a} = {}
  BY <1>3, Holdings
<1>5. Returned(heap, heap', DOMAIN live \ {a})
  BY <1>1, <1>4, Freeing
<1>6. Remain(live, live', {a})
  BY <1>1, DropHas DEF Remain
<1>7. {a} \subseteq DOMAIN live
  BY <1>4
<1>8. /\ Passes(heap, live, call, t, {a}, heap', live') /\ Bounded(heap, heap')
      /\ Handled(live, live', {a})
  BY <1>4, <1>5, <1>6, <1>7, ReturnPasses
<1>9. Turns(call, t, heap', live', call', Idle)
  BY <1>1, EndTurns
<1> QED
  BY <1>7, <1>8, <1>9, StepsBy

\* The allocation of memalign.
LEMMA MemoryAlignSteps ==
  ASSUME Inv, NEW t \in Threads, MemoryAlign(t)
  PROVE  Steps(heap, live, call, heap', live', call')
<1>1. PICK r \in Requests, al \in Alignments :
        \E o \in Allocate(heap, Pad(AlignRequest(Pad(r), al))) :
          /\ heap' = o.heap /\ live' = Taken(o, r)
          /\ call' = IF o.at = 0 THEN call
                     ELSE [call EXCEPT ![t] = [op |-> "align", at |-> o.at, size |-> r,
                                               alignment |-> al]]
  BY DEF MemoryAlign
<1> DEFINE n == Pad(AlignRequest(Pad(r), al))
<1>2. PICK o \in Allocate(heap, n) :
          /\ heap' = o.heap /\ live' = Taken(o, r)
          /\ call' = IF o.at = 0 THEN call
                     ELSE [call EXCEPT ![t] = [op |-> "align", at |-> o.at, size |-> r,
                                               alignment |-> al]]
  BY <1>1
<1>3. r \in Nat /\ n \in Nat /\ n >= MinChunk /\ n - 1 >= r
  <2>1. r \in Nat /\ Pad(r) \in Nat /\ Pad(r) >= MinChunk /\ Pad(r) - 1 >= r
    BY PadOf
  <2>2. al \in Nat
    BY SpaceAssumption
  <2>3. AlignRequest(Pad(r), al) \in Nat /\ AlignRequest(Pad(r), al) >= Pad(r)
    BY <2>1, <2>2, Numbers DEF AlignRequest
  <2> QED
    BY <2>1, <2>3, Numbers DEF Pad, Larger
<1>4. n = Pad(AlignRequest(Pad(r), al))
  OBVIOUS
<1> HIDE DEF n
<1>5. /\ Passes(heap, live, call, t, {}, o.heap, live') /\ Bounded(heap, o.heap)
      /\ Handled(live, live', {})
      /\ o.at # 0 => /\ o.at \in Nat \ {0} /\ o.at \notin DOMAIN live
                     /\ DOMAIN live' = DOMAIN live \cup {o.at}
                     /\ o.heap.chunk[o.at].size >= n
      /\ DOMAIN live \subseteq DOMAIN live'
  BY <1>2, <1>3, AllocationPasses
<1>6. \E c : Turns(call, t, heap', live', call', c)
  <2>1. CASE o.at = 0
    <3>1. call[t] = Idle /\ call' = call
      BY <1>2, <2>1 DEF MemoryAlign
    <3> QED
      BY <3>1, IdleTurns
  <2>2. CASE o.at # 0
    <3> DEFINE c == [op |-> "align", at |-> o.at, size |-> r, alignment |-> al]
    <3>1. call' = [call EXCEPT ![t] = c]
      BY <1>2, <2>2
    <3>2. c \in Aligning_ /\ c.at = o.at /\ c.size = r /\ c.alignment = al
      BY <1>5, <2>2 DEF Aligning_
    <3> HIDE DEF c
    <3>3. Held(c) = {o.at} /\ c.op = "align"
      BY <3>2, HeldBy
    <3>4. \A u \in Threads : Held(call[u]) \subseteq DOMAIN live
      BY Holdings
    <3>5. c \notin Copied /\ c \notin Cutting
      BY <3>3, HeldBy
    <3>6. Roomy(heap', c)
      BY <1>2, <1>4, <1>5, <2>2, <3>2, <3>5 DEF Roomy
    <3>7. Held(c) \subseteq DOMAIN live'
      BY <1>5, <2>2, <3>3
    <3>8. \A u \in Threads : u # t => Held(call[u]) \cap Held(c) = {}
      BY <1>5, <2>2, <3>3, <3>4
    <3>9. c \in Calls
      BY <3>2 DEF Calls
    <3> QED
      BY <3>1, <3>6, <3>7, <3>8, <3>9 DEF Turns
  <2> QED
    BY <2>1, <2>2
<1>7. {} \subseteq DOMAIN live
  OBVIOUS
<1> QED
  BY <1>2, <1>5, <1>6, <1>7, StepsBy

\* The alignment of what memalign allocated.
LEMMA MemoryAlignTailSteps ==
  ASSUME Inv, NEW t \in Threads, MemoryAlignTail(t)
  PROVE  Steps(heap, live, call, heap', live', call')
<1> DEFINE a == call[t].at
           r == call[t].size
           al == call[t].alignment
<1>1. PICK o \in Align(heap, a, Pad(r), al) : heap' = o.heap /\ live' = With(Drop(live, {a}), o.at, r)
  BY DEF MemoryAlignTail
<1>2. call[t] \in Aligning_ /\ call' = [call EXCEPT ![t] = Idle]
  <2>1. call[t].op = "align" /\ call[t] \in Calls /\ call' = [call EXCEPT ![t] = Idle]
    BY Holdings DEF MemoryAlignTail
  <2> QED
    BY <2>1, KindOf
<1>3. a \in Held(call[t]) /\ r \in Requests /\ al \in Alignments
  BY <1>2, HeldBy
<1>4. heap.chunk[a].size >= Pad(AlignRequest(Pad(r), al))
  BY <1>2, Holdings DEF Roomy
<1> HIDE DEF a, r, al
<1>5. /\ Sound(heap, DOMAIN live, {}) /\ a \in DOMAIN live
      /\ \A u \in Threads : u # t => a \notin Held(call[u])
  BY <1>3, Holdings
<1>6. r \in Nat /\ Pad(r) \in Nat /\ Pad(r) >= MinChunk /\ Pad(r) - 1 >= r /\ al \in Nat \ {0}
  BY <1>3, PadOf, SpaceAssumption
<1>7. Realigned(heap, o.heap, DOMAIN live, a, o.at, Pad(r))
  BY <1>1, <1>4, <1>5, <1>6, Aligning
<1>8. /\ Sound(heap', (DOMAIN live \ {a}) \cup {o.at}, {}) /\ o.at \notin DOMAIN live \ {a}
      /\ Spares(heap, heap', DOMAIN live \ {a}) /\ SameBut(heap', heap, FreeFields)
      /\ heap'.chunk[o.at].size >= Pad(r)
  BY <1>1, <1>7 DEF Realigned
<1>9. heap'.chunk[o.at].size - 1 >= r
  <2>1. heap'.chunk[o.at].size \in Nat
    BY <1>8, SoundNumbers
  <2> QED
    BY <1>6, <1>8, <2>1
<1>10. Replaced(live, a, o.at, r, live')
  BY <1>1, ReplaceHas
<1>11. /\ DOMAIN live' = (DOMAIN live \ {a}) \cup {o.at} /\ live'[o.at] = r
       /\ \A b \in DOMAIN live \ {a} : live'[b] = live[b]
  BY <1>8, <1>10 DEF Replaced
<1>12. /\ Passes(heap, live, call, t, {a}, heap', live') /\ Bounded(heap, heap')
       /\ Handled(live, live', {a})
  BY <1>5, <1>6, <1>8, <1>9, <1>11, ChangePasses
<1>13. Turns(call, t, heap', live', call', Idle)
  BY <1>2, EndTurns
<1>14. {a} \subseteq DOMAIN live
  BY <1>5
<1> QED
  BY <1>12, <1>13, <1>14, StepsBy

----------------------------------------------------------------------------
(* The steps of an independent allocation. *)

\* What an independent allocation cuts up is an ordinary chunk, and the chunk
\* below it has not been freed since it was allocated.
Untouched(h, c) == c.op = "carve" => h.chunk[c.at].cin /\ h.chunk[c.at].pin

\* The size an independent allocation asks for.
LEMMA IndependentOf ==
  ASSUME NEW count \in Counts, NEW r \in Requests, NEW array \in BOOLEAN,
         NEW n, n = IndependentSize(count, Pad(r), array)
  PROVE  /\ n \in Nat /\ n >= MinChunk /\ n - 1 \in Nat
         /\ ArraySize(count) \in Nat /\ ArraySize(count) >= MinChunk /\ count \in Nat \ {0}
<1>1. count \in Nat \ {0} /\ r \in Nat /\ Pad(r) \in Nat /\ Pad(r) >= MinChunk
  BY PadOf, SpaceAssumption
<1>2. ArraySize(count) \in Nat /\ ArraySize(count) >= MinChunk
  <2>1. (count + 1) \div 2 \in Nat
    BY <1>1
  <2> QED
    BY <2>1, Numbers DEF ArraySize, Pad, Larger
<1>3. count * Pad(r) \in Nat /\ count * Pad(r) >= MinChunk
  <2> DEFINE m == Pad(r)
  <2>1. m \in Nat /\ m >= 2 /\ count \in Nat /\ count >= 1
    BY <1>1, Numbers
  <2> HIDE DEF m
  <2>2. count * m \in Nat /\ count * m >= 2
    BY <2>1, SMTT(30)
  <2> QED
    BY <2>2, Numbers DEF m
<1>4. n = count * Pad(r) \/ n = count * Pad(r) + ArraySize(count)
  <2> DEFINE m == count * Pad(r)
  <2>1. m \in Nat /\ n = m + IF array THEN ArraySize(count) ELSE 0
    BY <1>3 DEF IndependentSize
  <2> HIDE DEF m
  <2>2. n = m \/ n = m + ArraySize(count)
    BY <1>2, <2>1
  <2> QED
    BY <2>2 DEF m
<1> QED
  <2> DEFINE m == count * Pad(r)
  <2>1. m \in Nat /\ m >= MinChunk /\ (n = m \/ n = m + ArraySize(count))
    BY <1>3, <1>4
  <2> HIDE DEF m
  <2> QED
    BY <1>1, <1>2, <2>1, Numbers

\* The first step of an independent allocation reads whether mapping is on.
LEMMA IndependentReadSteps ==
  ASSUME Inv, NEW t \in Threads, IndependentRead(t)
  PROVE  Steps(heap, live, call, heap', live', call')
<1>1. PICK n \in Counts, r \in Requests, array \in BOOLEAN :
        call' = [call EXCEPT ![t] = [op |-> "disable", count |-> n, size |-> r,
                                     array |-> array, on |-> heap.mmapon]]
  BY DEF IndependentRead
<1> DEFINE c == [op |-> "disable", count |-> n, size |-> r, array |-> array, on |-> heap.mmapon]
<1>2. c \in Asking
  <2>1. heap.mmapon \in BOOLEAN
    BY Holdings DEF Sound, Settings
  <2> QED
    BY <2>1 DEF Asking
<1>3. call' = [call EXCEPT ![t] = c] /\ heap' = heap /\ live' = live
  BY <1>1 DEF IndependentRead
<1> HIDE DEF c
<1>4. Held(c) = {} /\ c \notin Aligning_ /\ c \notin Cutting /\ c \notin Copied
  BY <1>2, HeldBy
<1>5. Turns(call, t, heap, live, call', c)
  BY <1>2, <1>3, <1>4 DEF Turns, Calls, Roomy
<1>6. {} \subseteq DOMAIN live
  OBVIOUS
<1>7. /\ Passes(heap, live, call, t, {}, heap, live) /\ Bounded(heap, heap)
      /\ Handled(live, live, {})
  BY UnchangedPasses
<1> QED
  BY <1>3, <1>5, <1>6, <1>7, StepsBy

\* Switching mapping on or off leaves the space sound.
LEMMA ModePasses ==
  ASSUME Inv, NEW t \in Threads, NEW m \in BOOLEAN, NEW g, g = [heap EXCEPT !.mmapon = m]
  PROVE  /\ Passes(heap, live, call, t, {}, g, live) /\ Bounded(heap, g)
         /\ Handled(live, live, {})
<1>1. Sound(heap, DOMAIN live, {})
  BY Holdings
<1>2. IsHeap(heap)
  BY <1>1 DEF Sound
<1>3. SameBut(g, heap, {"limit", "trimcheck", "checks", "mmapon"}) /\ g.limit = heap.limit
      /\ g.trimcheck = heap.trimcheck /\ g.checks = heap.checks /\ (g.mmapon <=> m)
  BY <1>2 DEF SameBut, IsHeap, HeapFields
<1>4. /\ g.limit \in Nat /\ g.trimcheck \in Nat /\ g.checks \in 1 .. Larger(ReleaseRate, Cardinality(Space))
  BY <1>1, <1>3 DEF Sound, Settings
<1>5. g.mmapon \in BOOLEAN
  <2>1. g.mmapon = m
    BY <1>2 DEF IsHeap, HeapFields
  <2> QED
    BY <2>1
<1>6. Sound(g, DOMAIN live, {}) /\ Spares(heap, g, DOMAIN live)
  BY <1>1, <1>3, <1>4, <1>5, SettingsChanged
<1> QED
  BY <1>3, <1>6, SamePasses

\* The second switches mapping off.
LEMMA IndependentDisableSteps ==
  ASSUME Inv, NEW t \in Threads, IndependentDisable(t)
  PROVE  Steps(heap, live, call, heap', live', call')
<1>1. /\ heap' = [heap EXCEPT !.mmapon = FALSE] /\ live' = live
      /\ call' = [call EXCEPT ![t].op = "ask"]
  BY DEF IndependentDisable
<1>2. call[t] \in Asking /\ call \in [Threads -> Calls]
  <2>1. call[t].op = "disable" /\ call[t] \in Calls
    BY Holdings DEF IndependentDisable
  <2> QED
    BY <2>1, KindOf, Holdings
<1> DEFINE c == [call[t] EXCEPT !.op = "ask"]
<1>3. c \in Asking
  BY <1>2 DEF Asking
<1>4. call' = [call EXCEPT ![t] = c]
  BY <1>1, <1>2
<1> HIDE DEF c
<1>5. Held(c) = {} /\ c \notin Aligning_ /\ c \notin Cutting /\ c \notin Copied
  BY <1>3, HeldBy
<1>6. Turns(call, t, heap', live', call', c)
  BY <1>3, <1>4, <1>5 DEF Turns, Calls, Roomy
<1>7. {} \subseteq DOMAIN live
  OBVIOUS
<1>8. /\ Passes(heap, live, call, t, {}, heap', live') /\ Bounded(heap, heap')
      /\ Handled(live, live', {})
  <2>1. FALSE \in BOOLEAN
    OBVIOUS
  <2> QED
    BY <1>1, <2>1, ModePasses
<1> QED
  BY <1>6, <1>7, <1>8, StepsBy

\* The third allocates for all elements.
LEMMA IndependentAllocateSteps ==
  ASSUME Inv, NEW t \in Threads, IndependentAllocate(t)
  PROVE  Steps(heap, live, call, heap', live', call')
<1> DEFINE c == call[t]
           n == IndependentSize(c.count, Pad(c.size), c.array)
<1>1. c \in Asking /\ call \in [Threads -> Calls]
  <2>1. c.op = "ask" /\ c \in Calls
    BY Holdings DEF IndependentAllocate
  <2> QED
    BY <2>1, KindOf, Holdings
<1> DEFINE d(o) == [op |-> "enable", at |-> o.at, count |-> c.count, size |-> c.size,
                    array |-> c.array, on |-> c.on]
<1>2. PICK o \in Allocate(heap, n) :
        heap' = o.heap /\ live' = Taken(o, n - 1) /\ call' = [call EXCEPT ![t] = d(o)]
  BY <1>1 DEF IndependentAllocate
<1>3. c.count \in Counts /\ c.size \in Requests /\ c.array \in BOOLEAN /\ c.on \in BOOLEAN
  BY <1>1, HeldBy
<1>4. n \in Nat /\ n >= MinChunk /\ n - 1 \in Nat /\ n - 1 >= n - 1
  BY <1>3, IndependentOf
<1> DEFINE e == d(o)
<1>5. /\ call' = [call EXCEPT ![t] = e] /\ e.at = o.at
      /\ n = IndependentSize(e.count, Pad(e.size), e.array) /\ e.op = "enable"
  BY <1>2
<1>6. o.at \in Nat => e \in Cutting
  BY <1>3 DEF Cutting
<1> HIDE DEF c, n, e, d
<1>7. /\ Passes(heap, live, call, t, {}, o.heap, live') /\ Bounded(heap, o.heap)
      /\ Handled(live, live', {})
      /\ o.at # 0 => /\ o.at \in Nat \ {0} /\ o.at \notin DOMAIN live
                     /\ DOMAIN live' = DOMAIN live \cup {o.at}
                     /\ o.heap.chunk[o.at].size >= n
  <2> DEFINE r == n - 1
  <2>1. r \in Nat /\ n - 1 >= r /\ live' = Taken(o, r)
    BY <1>2, <1>4
  <2> HIDE DEF r
  <2> QED
    BY <1>2, <1>4, <2>1, AllocationPasses, ZenonT(30)
<1>8. o.at \in Nat
  BY <1>7
<1>9. /\ Held(e) = {o.at} \ {0} /\ e \notin Aligning_ /\ e \notin Copied /\ e.op # "carve"
  BY <1>5, <1>6, <1>8, HeldBy
<1>10. Roomy(heap', e)
  BY <1>2, <1>5, <1>7, <1>9 DEF Roomy
<1>11. Held(e) \subseteq DOMAIN live'
  BY <1>7, <1>9
<1>12. \A u \in Threads : u # t => Held(call[u]) \cap Held(e) = {}
  <2>1. \A u \in Threads : Held(call[u]) \subseteq DOMAIN live
    BY Holdings
  <2> QED
    BY <1>7, <1>9, <2>1
<1>13. Turns(call, t, heap', live', call', e)
  <2>1. e \in Calls
    BY <1>6, <1>8 DEF Calls
  <2> QED
    BY <1>5, <1>10, <1>11, <1>12, <2>1 DEF Turns
<1>14. {} \subseteq DOMAIN live
  OBVIOUS
<1> QED
  BY <1>2, <1>7, <1>13, <1>14, StepsBy

\* The fourth switches mapping on again.
LEMMA IndependentEnableSteps ==
  ASSUME Inv, NEW t \in Threads, IndependentEnable(t)
  PROVE  Steps(heap, live, call, heap', live', call')
<1>1. /\ heap' = (IF call[t].on THEN [heap EXCEPT !.mmapon = TRUE] ELSE heap) /\ live' = live
      /\ call' = [call EXCEPT ![t] = IF call[t].at = 0 THEN Idle ELSE [call[t] EXCEPT !.op = "carve"]]
  BY Holdings DEF IndependentEnable
<1>2. call[t] \in Cutting /\ call \in [Threads -> Calls]
  <2>1. call[t].op = "enable" /\ call[t] \in Calls
    BY Holdings DEF IndependentEnable
  <2> QED
    BY <2>1, KindOf, Holdings
<1>3. /\ Passes(heap, live, call, t, {}, heap', live') /\ Bounded(heap, heap')
      /\ Handled(live, live', {})
  <2>1. CASE call[t].on
    <3>1. TRUE \in BOOLEAN /\ heap' = [heap EXCEPT !.mmapon = TRUE]
      BY <1>1, <2>1
    <3> QED
      BY <1>1, <3>1, ModePasses
  <2>2. CASE ~call[t].on
    BY <1>1, <2>2, UnchangedPasses
  <2> QED
    BY <2>1, <2>2
<1>4. \E c : Turns(call, t, heap', live', call', c)
  <2>1. CASE call[t].at = 0
    <3>1. call' = [call EXCEPT ![t] = Idle]
      BY <1>1, <2>1
    <3> QED
      BY <3>1, EndTurns
  <2>2. CASE call[t].at # 0
    <3> DEFINE c == [call[t] EXCEPT !.op = "carve"]
    <3>1. call' = [call EXCEPT ![t] = c]
      BY <1>1, <2>2
    <3>2. /\ c \in Cutting /\ c.at = call[t].at /\ c.count = call[t].count /\ c.size = call[t].size
          /\ c.array = call[t].array
      BY <1>2 DEF Cutting
    <3> HIDE DEF c
    <3>3. Held(c) = Held(call[t]) /\ c \notin Aligning_ /\ c \notin Copied
      BY <1>2, <3>2, HeldBy
    <3>4. heap'.chunk = heap.chunk
      <4>1. IsHeap(heap)
        BY Holdings DEF Sound
      <4> QED
        BY <1>1, <4>1 DEF IsHeap, HeapFields
    <3>5. Roomy(heap', c)
      <4>1. Roomy(heap, call[t])
        BY Holdings
      <4> QED
        BY <1>2, <2>2, <3>2, <3>3, <3>4, <4>1 DEF Roomy
    <3>6. c \in Calls
      BY <3>2 DEF Calls
    <3> QED
      BY <1>1, <3>1, <3>3, <3>5, <3>6, Holdings DEF Turns
  <2> QED
    BY <2>1, <2>2
<1>5. {} \subseteq DOMAIN live
  OBVIOUS
<1> QED
  BY <1>3, <1>4, <1>5, StepsBy

\* The last cuts the block up, if it still is as it was allocated.
LEMMA IndependentCarveSteps ==
  ASSUME Inv, NEW t \in Threads, IndependentCarve(t), Untouched(heap, call[t])
  PROVE  Steps(heap, live, call, heap', live', call')
<1> DEFINE c == call[t]
           P == Pieces(c.at, c.count, Pad(c.size), c.array)
           last == c.at + c.count * Pad(c.size)
           a == c.at
           L == DOMAIN live
<1>1. /\ c.op = "carve" /\ heap' = Carve(heap, a, c.count, Pad(c.size), c.array)
      /\ live' = [b \in P \cup (L \ {a}) |->
                    CASE b \notin P -> live[b]
                      [] b \in P /\ c.array /\ b = last -> ArraySize(c.count) - 1
                      [] OTHER -> c.size]
      /\ call' = [call EXCEPT ![t] = Idle]
  BY DEF IndependentCarve
<1>2. c \in Cutting
  BY <1>1, Holdings, KindOf
<1>3. /\ c.count \in Counts /\ c.size \in Requests /\ c.array \in BOOLEAN /\ Held(c) = {a} \ {0}
      /\ a # 0 /\ heap.chunk[a].size >= IndependentSize(c.count, Pad(c.size), c.array)
  <2>1. Roomy(heap, c)
    BY Holdings
  <2> QED
    BY <1>1, <1>2, <2>1, HeldBy DEF Roomy
<1>4. heap.chunk[a].cin /\ heap.chunk[a].pin
  BY <1>1 DEF Untouched
<1>5. /\ Sound(heap, L, {}) /\ a \in L /\ \A u \in Threads : u # t => Held(call[u]) \cap {a} = {}
  BY <1>3, Holdings
<1>6. /\ c.size \in Nat /\ Pad(c.size) \in Nat /\ Pad(c.size) >= MinChunk /\ Pad(c.size) - 1 >= c.size
      /\ ArraySize(c.count) \in Nat /\ ArraySize(c.count) >= MinChunk /\ c.count \in Nat \ {0}
  BY <1>3, PadOf, IndependentOf
<1>7. Carves(heap, heap', L, a, P, c.count, Pad(c.size), c.array)
  BY <1>1, <1>3, <1>4, <1>5, <1>6, Carving
<1>8. /\ Sound(heap', (L \ {a}) \cup P, {}) /\ P \cap (L \ {a}) = {}
      /\ Spares(heap, heap', L \ {a}) /\ SameBut(heap', heap, {"chunk"})
      /\ \A p \in P : heap'.chunk[p].size >= IF c.array /\ p = last THEN ArraySize(c.count) ELSE Pad(c.size)
  BY <1>7 DEF Carves
<1>9. DOMAIN live' = (L \ {a}) \cup P /\ \A b \in L \ {a} : live'[b] = live[b]
  BY <1>1, <1>8
<1>10. ASSUME NEW p \in P
       PROVE  live'[p] \in Nat /\ heap'.chunk[p].size - 1 >= live'[p]
  <2>1. heap'.chunk[p].size \in Nat
    BY <1>8, SoundNumbers
  <2>2. CASE c.array /\ p = last
    <3>1. live'[p] = ArraySize(c.count) - 1 /\ heap'.chunk[p].size >= ArraySize(c.count)
      BY <1>1, <1>8, <1>10, <2>2
    <3> QED
      BY <1>6, <2>1, <3>1, Numbers
  <2>3. CASE ~(c.array /\ p = last)
    <3>1. live'[p] = c.size /\ heap'.chunk[p].size >= Pad(c.size)
      BY <1>1, <1>8, <1>10, <2>3
    <3> QED
      BY <1>6, <2>1, <3>1
  <2> QED
    BY <2>2, <2>3
<1>11. IsFiniteSet(P)
  <2> DEFINE I == 0 .. (c.count - IF c.array THEN 0 ELSE 1)
             f == [i \in I |-> a + i * Pad(c.size)]
  <2>1. IsFiniteSet(I)
    <3>1. 0 \in Int /\ (c.count - IF c.array THEN 0 ELSE 1) \in Int
      BY <1>6
    <3> QED
      BY <3>1, FS_Interval
  <2>2. P = {a + i * Pad(c.size) : i \in I}
    BY DEF Pieces
  <2> HIDE DEF I
  <2>4. f \in Surjection(I, P)
    BY <2>2 DEF Surjection
  <2> QED
    BY <2>1, <2>4, FS_Surjection
<1> HIDE DEF P, last
<1>12. Bounded(heap, heap')
  <2>1. heap.footprint \in Nat
    BY <1>5, SoundNumbers
  <2>2. heap'.footprint = heap.footprint
    BY <1>8 DEF SameBut, HeapFields
  <2> QED
    BY <2>1, <2>2 DEF Bounded
<1>13. Passes(heap, live, call, t, {a}, heap', live')
  BY <1>5, <1>8, <1>9, <1>10 DEF Passes
<1>14. Handled(live, live', {a})
  BY <1>5, <1>9, <1>11 DEF Handled
<1>15. Turns(call, t, heap', live', call', Idle)
  BY <1>1, EndTurns
<1>16. {a} \subseteq DOMAIN live
  BY <1>5
<1> HIDE DEF c, a, L
<1> QED
  BY <1>12, <1>13, <1>14, <1>15, <1>16, StepsBy

\* sm_space_bulk_free.
LEMMA BulkFreeBlocksSteps ==
  ASSUME Inv, NEW t \in Threads, BulkFreeBlocks(t)
  PROVE  Steps(heap, live, call, heap', live', call')
<1>1. PICK n \in BulkSizes : \E array \in [1 .. n -> Available] :
        /\ IsInjective(array) /\ heap' \in BulkFree(heap, array) /\ live' = Drop(live, Range(array))
  BY DEF BulkFreeBlocks
<1>2. PICK array \in [1 .. n -> Available] :
        /\ IsInjective(array) /\ heap' \in BulkFree(heap, array) /\ live' = Drop(live, Range(array))
  BY <1>1
<1> DEFINE gone == Range(array)
<1>3. gone \subseteq Available
  BY <1>2 DEF Range
<1>4. /\ Sound(heap, DOMAIN live, {}) /\ gone \subseteq DOMAIN live
      /\ \A u \in Threads : Held(call[u]) \cap gone = {}
  BY <1>3, Holdings
<1>5. array \in [1 .. n -> DOMAIN live] /\ n \in Nat
  BY <1>2, Holdings, SpaceAssumption
<1>6. Returned(heap, heap', DOMAIN live \ gone)
  BY <1>2, <1>4, <1>5, BulkFreeing
<1>7. live' = Drop(live, gone)
  BY <1>2
<1> HIDE DEF gone
<1>8. Remain(live, live', gone)
  BY <1>7, DropHas DEF Remain
<1>9. /\ Passes(heap, live, call, t, gone, heap', live') /\ Bounded(heap, heap')
      /\ Handled(live, live', gone)
  BY <1>4, <1>6, <1>8, ReturnPasses
<1>10. Turns(call, t, heap', live', call', Idle)
  <2>1. call[t] = Idle /\ call' = call
    BY DEF BulkFreeBlocks
  <2> QED
    BY <2>1, IdleTurns
<1> QED
  BY <1>4, <1>9, <1>10, StepsBy

\* sm_space_trim.
LEMMA SpaceTrimSteps ==
  ASSUME Inv, NEW t \in Threads, SpaceTrim(t)
  PROVE  Steps(heap, live, call, heap', live', call')
<1> DEFINE none == {}
<1>1. PICK p \in Paddings : heap' \in Trim(heap, p)
  BY DEF SpaceTrim
<1>2. p \in Nat /\ Sound(heap, DOMAIN live, {})
  BY SpaceAssumption, Holdings
<1>3. Returned(heap, heap', DOMAIN live)
  BY <1>1, <1>2, TrimSound
<1>4. DOMAIN live \ none = DOMAIN live /\ live' = live
  BY DEF SpaceTrim
<1>5. /\ Remain(live, live', none) /\ none \subseteq DOMAIN live
      /\ \A u \in Threads : Held(call[u]) \cap none = {}
  BY <1>4 DEF Remain
<1> HIDE DEF none
<1>6. /\ Passes(heap, live, call, t, none, heap', live') /\ Bounded(heap, heap')
      /\ Handled(live, live', none)
  BY <1>3, <1>4, <1>5, ReturnPasses
<1>7. Turns(call, t, heap', live', call', Idle)
  <2>1. call[t] = Idle /\ call' = call
    BY DEF SpaceTrim
  <2> QED
    BY <2>1, IdleTurns
<1> QED
  BY <1>5, <1>6, <1>7, StepsBy

\* sm_space_track_large_chunks.
LEMMA TrackLargeChunksSteps ==
  ASSUME Inv, NEW t \in Threads, TrackLargeChunks(t)
  PROVE  Steps(heap, live, call, heap', live', call')
<1>1. PICK enable \in BOOLEAN : heap' = [heap EXCEPT !.mmapon = ~enable]
  BY DEF TrackLargeChunks
<1> DEFINE m == ~enable
<1>2. m \in BOOLEAN /\ heap' = [heap EXCEPT !.mmapon = m] /\ live' = live
  BY <1>1 DEF TrackLargeChunks
<1> HIDE DEF m
<1>3. /\ Passes(heap, live, call, t, {}, heap', live') /\ Bounded(heap, heap')
      /\ Handled(live, live', {})
  BY <1>2, ModePasses
<1>4. Turns(call, t, heap', live', call', Idle)
  <2>1. call[t] = Idle /\ call' = call
    BY DEF TrackLargeChunks
  <2> QED
    BY <2>1, IdleTurns
<1>5. {} \subseteq DOMAIN live
  OBVIOUS
<1> QED
  BY <1>3, <1>4, <1>5, StepsBy

\* sm_space_set_footprint_limit.
LEMMA SetFootprintLimitSteps ==
  ASSUME Inv, NEW t \in Threads, SetFootprintLimit(t)
  PROVE  Steps(heap, live, call, heap', live', call')
<1>1. PICK bytes \in Limits : heap' = [heap EXCEPT !.limit = RoundUp(bytes, Granule)]
  BY DEF SetFootprintLimit
<1> DEFINE n == RoundUp(bytes, Granule)
<1>2. n \in Nat
  <2> DEFINE q == (bytes + Granule - 1) \div Granule
  <2>1. bytes + Granule - 1 \in Nat /\ Granule \in Nat \ {0}
    BY SpaceAssumption, Numbers
  <2>2. q \in Nat
    BY <2>1, SMTT(30)
  <2>3. n = q * Granule
    BY DEF RoundUp
  <2> HIDE DEF q, n
  <2> QED
    BY <2>1, <2>2, <2>3
<1>3. heap' = [heap EXCEPT !.limit = n] /\ live' = live
  BY <1>1 DEF SetFootprintLimit
<1> HIDE DEF n
<1>4. Sound(heap, DOMAIN live, {})
  BY Holdings
<1>5. IsHeap(heap)
  BY <1>4 DEF Sound
<1>6. SameBut(heap', heap, {"limit", "trimcheck", "checks", "mmapon"}) /\ heap'.limit = n
      /\ heap'.trimcheck = heap.trimcheck /\ heap'.checks = heap.checks
      /\ heap'.mmapon = heap.mmapon
  BY <1>3, <1>5 DEF SameBut, IsHeap, HeapFields
<1>7. /\ heap'.limit \in Nat /\ heap'.trimcheck \in Nat /\ heap'.mmapon \in BOOLEAN
      /\ heap'.checks \in 1 .. Larger(ReleaseRate, Cardinality(Space))
  BY <1>2, <1>4, <1>6 DEF Sound, Settings
<1>8. Sound(heap', DOMAIN live, {}) /\ Spares(heap, heap', DOMAIN live)
  BY <1>4, <1>6, <1>7, SettingsChanged
<1>9. /\ Passes(heap, live, call, t, {}, heap', live') /\ Bounded(heap, heap')
      /\ Handled(live, live', {})
  BY <1>3, <1>6, <1>8, SamePasses
<1>10. Turns(call, t, heap', live', call', Idle)
  <2>1. call[t] = Idle /\ call' = call
    BY DEF SetFootprintLimit
  <2> QED
    BY <2>1, IdleTurns
<1>11. {} \subseteq DOMAIN live
  OBVIOUS
<1> QED
  BY <1>9, <1>10, <1>11, StepsBy

----------------------------------------------------------------------------
(* A new space, and all the steps together. *)

\* The cutting of an independent allocation finds the chunk as it was allocated.
Settled == \A t \in Threads : Untouched(heap, call[t])

\* A new space is sound, with no block out.
LEMMA InitHolds ==
  ASSUME Init
  PROVE  Inv /\ IsFiniteSet(DOMAIN live)
<1>1. PICK p \in Space, n \in FirstSizes, e \in {FALSE} \cup External :
        heap = NewSpace(p * Granule, n, e) /\ heap.backed \subseteq Space
  BY DEF Init
<1>2. live = <<>> /\ call = [t \in Threads |-> Idle]
  BY DEF Init
<1> DEFINE b == p * Granule
<1>3. Whole(b) /\ Whole(n) /\ e \in BOOLEAN
  <2>1. p \in Nat \ {0}
    BY HeapAssumption
  <2>2. n \in Nat /\ \E k \in 1 .. n : n = k * Granule
    BY SpaceAssumption
  <2>3. \E k \in Nat \ {0} : n = k * Granule
    BY <2>2
  <2>4. e \in BOOLEAN
    BY SpaceAssumption
  <2> QED
    BY <2>1, <2>3, <2>4 DEF Whole
<1> HIDE DEF b
<1>4. heap = NewSpace(b, n, e)
  BY <1>1 DEF b
<1> DEFINE t == b + StateChunk
           m == n - StateChunk - TopFoot
<1>5. t = b + StateChunk /\ m = n - StateChunk - TopFoot
  OBVIOUS
<1> HIDE DEF t, m
<1>6. Fresh(heap, b, n, e, t, m)
  BY ONLY <1>3, <1>4, <1>5, NewSpaceFields
<1>7. GranulesOf(b, n) \subseteq Space
  BY <1>1, <1>6 DEF Fresh
<1>8. Sound(heap, {}, {})
  BY <1>3, <1>4, <1>7, NewSpaceSound
<1>9. DOMAIN live = {}
  BY <1>2
<1>10. Sound(heap, DOMAIN live, {})
  BY <1>8, <1>9
<1>11. Idle \in Calls /\ Held(Idle) = {} /\ Roomy(heap, Idle)
  <2>1. Idle.op = "idle"
    BY DEF Idle
  <2>2. Idle \notin Aligning_ /\ Idle \notin Cutting /\ Idle \notin Copied
    BY <2>1, HeldBy
  <2> QED
    BY <2>2, HeldBy DEF Calls, Roomy
<1>12. Inv
  BY <1>2, <1>9, <1>10, <1>11 DEF Inv, Consistent
<1> QED
  BY <1>9, <1>12, FS_EmptySet

\* Every action is such a step.
LEMMA NextSteps ==
  ASSUME ~Remaps, Inv, Settled, Next
  PROVE  Steps(heap, live, call, heap', live', call')
<1>1. PICK t \in Threads :
        \/ Malloc(t) \/ FreeBlock(t)
        \/ Realloc(t) \/ ReallocAllocate(t) \/ ReallocFree(t) \/ ReallocInPlace(t)
        \/ MemoryAlign(t) \/ MemoryAlignTail(t)
        \/ IndependentRead(t) \/ IndependentDisable(t) \/ IndependentAllocate(t)
        \/ IndependentEnable(t) \/ IndependentCarve(t)
        \/ BulkFreeBlocks(t)
        \/ SpaceTrim(t) \/ TrackLargeChunks(t) \/ SetFootprintLimit(t)
  BY DEF Next
<1>2. Untouched(heap, call[t])
  BY DEF Settled
<1>3. CASE Malloc(t)
  BY <1>3, MallocSteps
<1>4. CASE FreeBlock(t)
  BY <1>4, FreeBlockSteps
<1>5. CASE Realloc(t)
  BY <1>5, ReallocSteps
<1>6. CASE ReallocAllocate(t)
  BY <1>6, ReallocAllocateSteps
<1>7. CASE ReallocFree(t)
  BY <1>7, ReallocFreeSteps
<1>8. CASE ReallocInPlace(t)
  BY <1>8, ReallocInPlaceSteps
<1>9. CASE MemoryAlign(t)
  BY <1>9, MemoryAlignSteps
<1>10. CASE MemoryAlignTail(t)
  BY <1>10, MemoryAlignTailSteps
<1>11. CASE IndependentRead(t)
  BY <1>11, IndependentReadSteps
<1>12. CASE IndependentDisable(t)
  BY <1>12, IndependentDisableSteps
<1>13. CASE IndependentAllocate(t)
  BY <1>13, IndependentAllocateSteps
<1>14. CASE IndependentEnable(t)
  BY <1>14, IndependentEnableSteps
<1>15. CASE IndependentCarve(t)
  BY <1>2, <1>15, IndependentCarveSteps
<1>16. CASE BulkFreeBlocks(t)
  BY <1>16, BulkFreeBlocksSteps
<1>17. CASE SpaceTrim(t)
  BY <1>17, SpaceTrimSteps
<1>18. CASE TrackLargeChunks(t)
  BY <1>18, TrackLargeChunksSteps
<1>19. CASE SetFootprintLimit(t)
  BY <1>19, SetFootprintLimitSteps
<1> QED
  BY <1>1, <1>3, <1>4, <1>5, <1>6, <1>7, <1>8, <1>9, <1>10, <1>11, <1>12, <1>13, <1>14, <1>15,
     <1>16, <1>17, <1>18, <1>19

\* Every such step keeps the invariant.
LEMMA StepsKeep ==
  ASSUME Inv, IsFiniteSet(DOMAIN live), Steps(heap, live, call, heap', live', call')
  PROVE  Inv' /\ IsFiniteSet(DOMAIN live')
<1>1. PICK t \in Threads, c \in Calls, gone \in SUBSET DOMAIN live :
        /\ Passes(heap, live, call, t, gone, heap', live')
        /\ Turns(call, t, heap', live', call', c)
        /\ Bounded(heap, heap') /\ Handled(live, live', gone)
  BY DEF Steps
<1>2. Consistent(heap, live, call)
  BY DEF Inv
<1>3. Consistent(heap', live', call')
  BY <1>1, <1>2, StepKeeps
<1>4. IsFiniteSet(DOMAIN live')
  <2>1. CASE DOMAIN live' = DOMAIN live
    BY <2>1
  <2>2. CASE \E a : DOMAIN live' = DOMAIN live \cup {a}
    BY <2>2, FS_AddElement
  <2>3. CASE DOMAIN live' = DOMAIN live \ gone
    <3>1. DOMAIN live' \subseteq DOMAIN live
      BY <2>3
    <3> QED
      BY <3>1, FS_Subset
  <2>4. CASE \E a, P : IsFiniteSet(P) /\ DOMAIN live' = (DOMAIN live \ {a}) \cup P
    <3>1. PICK a, P : IsFiniteSet(P) /\ DOMAIN live' = (DOMAIN live \ {a}) \cup P
      BY <2>4
    <3> DEFINE R == DOMAIN live \ {a}
    <3>2. R \subseteq DOMAIN live
      OBVIOUS
    <3>3. IsFiniteSet(R)
      BY <3>2, FS_Subset
    <3> QED
      BY <3>1, <3>3, FS_Union, ZenonT(30)
  <2> QED
    BY <1>1, <2>1, <2>2, <2>3, <2>4 DEF Handled
<1> QED
  BY <1>3, <1>4 DEF Inv

\* The invariant is as strong as what the runs check.
LEMMA InvSound ==
  ASSUME Inv
  PROVE  Layout /\ BoundaryTags /\ MemoryAccounted
<1>1. Sound(heap, DOMAIN live, {})
  BY DEF Inv, Consistent
<1>2. Tiled /\ RecordsAtHome /\ AddressesOk /\ BoundaryTags
  BY <1>1, SoundTiled
<1>3. MemoryAccounted
  BY <1>1, SoundAccounted, SoundLent DEF MemoryAccounted
<1>4. Granted
  BY DEF Inv, Consistent, Granted, SizeOf
<1>5. TypeOK
  <2>1. \A a \in Chunks : heap.chunk[a] \in [size : Nat, cin : BOOLEAN, pin : BOOLEAN, foot : Nat]
    <3>1. Heads(heap.chunk)
      BY <1>1, Inside
    <3>2. ASSUME NEW a \in Chunks
          PROVE  heap.chunk[a] \in [size : Nat, cin : BOOLEAN, pin : BOOLEAN, foot : Nat]
      <4>1. heap.chunk[a] \in Header
        BY <3>1 DEF Chunks, Heads
      <4> QED
        BY <4>1 DEF Header
    <3> QED
      BY <3>2
  <2>2. heap.topsize \in Nat
    BY <1>1, TopFields
  <2>3. heap.dvsize \in Nat
    <3>1. heap.dvsize = IF heap.dv = 0 THEN 0 ELSE heap.chunk[heap.dv].size
      BY <1>1 DEF Sound, Sizes
    <3>2. CASE heap.dv = 0
      BY <3>1, <3>2
    <3>3. CASE heap.dv # 0
      <4>1. heap.dv \in Idle_(heap.chunk)
        BY <1>1, <3>3, VictimOut
      <4>2. heap.dv \in DOMAIN heap.chunk
        BY <4>1 DEF Idle_
      <4> QED
        BY <1>1, <3>1, <3>3, <4>2, SoundNumbers
    <3> QED
      BY <3>2, <3>3
  <2>4. heap.footprint \in Nat /\ DOMAIN live \subseteq Chunks
    BY <1>1, SoundNumbers DEF Chunks
  <2>5. heap.checks \in 1 .. Larger(ReleaseRate, Cardinality(Space)) /\ heap.backed \subseteq Space
    BY <1>1 DEF Sound, Settings, Lent
  <2>6. \A t \in Threads : Held(call[t]) \subseteq DOMAIN live
    BY DEF Inv, Consistent
  <2> QED
    BY <2>1, <2>2, <2>3, <2>4, <2>5, <2>6 DEF TypeOK
<1> QED
  BY <1>2, <1>3, <1>4, <1>5 DEF Layout

\* The invariant is inductive, as long as no cutting comes too late.
LEMMA InvKept ==
  ASSUME ~Remaps, Inv, IsFiniteSet(DOMAIN live), Settled, [Next]_vars
  PROVE  Inv' /\ IsFiniteSet(DOMAIN live)'
<1>1. CASE Next
  BY <1>1, NextSteps, StepsKeep
<1>2. CASE UNCHANGED vars
  BY <1>2 DEF vars, Inv
<1> QED
  BY <1>1, <1>2

\* The invariant holds as long as no cutting comes too late.
LEMMA InvAlways ==
  ASSUME ~Remaps
  PROVE  Spec /\ []Settled => [](Inv /\ IsFiniteSet(DOMAIN live))
<1>1. Init => Inv /\ IsFiniteSet(DOMAIN live)
  BY InitHolds
<1>2. (Inv /\ IsFiniteSet(DOMAIN live)) /\ Settled /\ [Next]_vars => (Inv /\ IsFiniteSet(DOMAIN live))'
  BY InvKept
<1> QED
  BY <1>1, <1>2, PTL DEF Spec

\* Between the calls the space is sound, whatever steps the threads take, as long as no
\* cutting of an independent allocation comes too late.
THEOREM SpaceSound ==
  ASSUME ~Remaps
  PROVE  Spec /\ []Settled => []HeapSound
<1>1. Inv => HeapSound
  BY InvSound DEF HeapSound
<1> QED
  BY <1>1, InvAlways, PTL

----------------------------------------------------------------------------
(* The footprint limit. *)

\* Every action asks the system for memory within the limit only.
LEMMA NextBounded ==
  ASSUME ~Remaps, Inv, Settled, [Next]_vars
  PROVE  [heap'.footprint > heap.footprint /\ heap.limit # 0 => heap'.footprint <= heap.limit]_vars
<1>1. CASE Next
  <2>1. Bounded(heap, heap')
    BY <1>1, NextSteps DEF Steps
  <2> QED
    BY <2>1 DEF Bounded
<1>2. CASE UNCHANGED vars
  BY <1>2
<1> QED
  BY <1>1, <1>2

\* Where no cutting comes too late, the footprint grows only within the limit, and so
\* memory is asked of the system (2183, 2453).
THEOREM LimitKept ==
  ASSUME ~Remaps
  PROVE  Spec /\ []Settled => GrowsWithinLimit
<1>1. Inv /\ Settled /\ [Next]_vars =>
        [heap'.footprint > heap.footprint /\ heap.limit # 0 => heap'.footprint <= heap.limit]_vars
  BY NextBounded
<1> QED
  BY <1>1, InvAlways, PTL DEF Spec, GrowsWithinLimit

----------------------------------------------------------------------------
(* The calls implement the store of blocks of module BlockStore. *)

\* A unit of a stretch of whole granules lies in one of its granules.
LEMMA UnitOf ==
  ASSUME NEW b, NEW s, Whole(b), Whole(s), NEW u \in Nat, b <= u, u < b + s
  PROVE  \E g \in GranulesOf(b, s) : g \in Nat /\ u \in (g * Granule) .. (g * Granule + Granule - 1)
<1>1. PICK k, m \in Nat \ {0} : b = k * Granule /\ s = m * Granule /\ GranulesOf(b, s) = k .. (k + m - 1)
  BY GranulesAre
<1> DEFINE g == u \div Granule
<1>2. Granule \in Nat \ {0}
  BY Numbers
<1>3. g \in Nat /\ g * Granule <= u /\ u < (g + 1) * Granule
  BY <1>2, SMTT(30)
<1> HIDE DEF g
<1>4. (g + 1) * Granule = g * Granule + Granule /\ g * Granule \in Nat
  BY <1>2, <1>3, SMTT(30)
<1>5. b + s = (k + m) * Granule
  BY <1>1, <1>2, Products
<1>6. k <= g
  <2>1. k \in Nat /\ g + 1 \in Nat /\ m \in Nat
    BY <1>3
  <2>2. ~(g + 1 <= k)
    <3>1. g + 1 <= k => (g + 1) * Granule <= k * Granule
      BY <1>2, <2>1, Products
    <3>2. k * Granule <= u /\ k * Granule \in Nat /\ (g + 1) * Granule \in Nat
      BY <1>1, <1>2, <2>1, Products
    <3> QED
      BY <1>3, <3>1, <3>2
  <2> QED
    BY <1>3, <2>1, <2>2
<1>7. g < k + m
  <2>1. k + m \in Nat
    BY <1>1
  <2>2. ~(k + m <= g)
    <3>1. k + m <= g => (k + m) * Granule <= g * Granule
      BY <1>2, <1>3, <2>1, Products
    <3>2. u < (k + m) * Granule /\ (k + m) * Granule \in Nat
      BY <1>2, <1>5, <2>1, Products
    <3> QED
      BY <1>3, <1>4, <3>1, <3>2
  <2> QED
    BY <1>3, <2>1, <2>2
<1>8. g \in GranulesOf(b, s)
  BY <1>1, <1>3, <1>6, <1>7
<1>9. u \in (g * Granule) .. (g * Granule + Granule - 1)
  BY <1>2, <1>3, <1>4
<1> QED
  BY <1>3, <1>8, <1>9

\* A block lies in memory that the system lends.
LEMMA BlockLent ==
  ASSUME NEW h, NEW L, Sound(h, L, {}), NEW a \in L, NEW u \in Nat, a <= u, u < a + h.chunk[a].size
  PROVE  \E g \in h.backed : u \in (g * Granule) .. (g * Granule + Granule - 1)
<1> DEFINE C == h.chunk
           S == h.segs
<1>1. /\ \A i \in DOMAIN S :
          /\ Whole(S[i].base) /\ Whole(S[i].size)
          /\ GranulesOf(S[i].base, S[i].size) \subseteq h.backed
      /\ \A b \in Maps(C) :
          /\ Whole(MapBase(C, b)) /\ Whole(MapLength(C, b))
          /\ GranulesOf(MapBase(C, b), MapLength(C, b)) \subseteq h.backed
  BY DEF Sound, Lent
<1>2. a \in DOMAIN C /\ a \in Nat \ {0} /\ C[a].size \in Nat \ {0} /\ C[a].foot \in Nat
      /\ C[a].cin \in BOOLEAN /\ C[a].pin \in BOOLEAN
  <2>1. Heads(C) /\ a \in DOMAIN C
    BY Inside
  <2> QED
    BY <2>1 DEF Heads, Header
<1>3. CASE C[a].cin
  <2>1. Span(h, a, a + C[a].size, L, {})
    BY <1>3, BlockSpan
  <2>2. PICK i \in DOMAIN S : Holds(S[i], a) /\ Holds(S[i], a + C[a].size)
    BY <2>1 DEF Span
  <2>3. S[i].base \in Nat /\ S[i].size \in Nat
    <3>1. Segments(S)
      BY Inside
    <3> QED
      BY <3>1, SegmentFields
  <2>4. S[i].base <= u /\ u < S[i].base + S[i].size
    BY <1>2, <2>2, <2>3 DEF Holds, End
  <2>5. \E g \in GranulesOf(S[i].base, S[i].size) : u \in (g * Granule) .. (g * Granule + Granule - 1)
    <3>1. Whole(S[i].base) /\ Whole(S[i].size)
      BY <1>1
    <3> QED
      BY <2>4, <3>1, UnitOf
  <2> QED
    BY <1>1, <2>5
<1>4. CASE ~C[a].cin
  <2>1. a \in Maps(C)
    <3>1. a \in {b \in DOMAIN C : C[b].cin \/ ~C[b].pin}
      BY DEF Sound, Owned
    <3> QED
      BY <1>4, <3>1 DEF Maps
  <2> DEFINE b == MapBase(C, a)
             s == MapLength(C, a)
  <2>2. Whole(b) /\ Whole(s) /\ GranulesOf(b, s) \subseteq h.backed
    BY <1>1, <2>1
  <2>3. b <= u /\ u < b + s
    BY <1>2, Numbers DEF MapBase, MapLength
  <2> HIDE DEF b, s
  <2>4. \E g \in GranulesOf(b, s) : u \in (g * Granule) .. (g * Granule + Granule - 1)
    BY <2>2, <2>3, UnitOf
  <2> QED
    BY <2>2, <2>4
<1> QED
  BY <1>3, <1>4

\* The units of the block at address p of the store.
LEMMA UnitsAt ==
  ASSUME Sound(heap, DOMAIN live, {}), NEW p \in DOMAIN Blocks
  PROVE  /\ p - 1 \in DOMAIN live /\ p \in Nat /\ p - 1 \in Nat /\ (p - 1) + 1 = p
         /\ p - 1 \in DOMAIN heap.chunk /\ heap.chunk[p - 1].size \in Nat
         /\ Store!UnitsOf([at |-> p, size |-> Blocks[p]])
              = p .. (p - 1) + heap.chunk[p - 1].size - 1
<1>1. PICK a \in DOMAIN live : p = a + 1
  BY DEF Blocks
<1>2. a \in DOMAIN heap.chunk /\ a \in Nat \ {0} /\ heap.chunk[a].size \in Nat
  BY SoundNumbers
<1>3. p - 1 = a /\ p \in Nat
  BY <1>1, <1>2
<1>4. Blocks[p] = heap.chunk[a].size - 1
  BY <1>2, <1>3 DEF Blocks, SizeOf, Chunks
<1> DEFINE n == heap.chunk[a].size
           U == Store!UnitsOf([at |-> p, size |-> n - 1])
<1>5. U = {p + i : i \in 0 .. (n - 1 - 1)}
  BY DEF Store!UnitsOf
<1>6. U = p .. a + n - 1
  <2> HIDE DEF n, U
  <2>1. n \in Nat
    BY <1>2 DEF n
  <2>2. ASSUME NEW x \in U PROVE x \in p .. a + n - 1
    BY <1>1, <1>2, <1>5, <2>1, <2>2
  <2>3. ASSUME NEW x \in p .. a + n - 1 PROVE x \in U
    <3>1. x - p \in 0 .. (n - 1 - 1) /\ x = p + (x - p)
      BY <1>1, <1>2, <2>1, <2>3
    <3> QED
      BY <1>5, <3>1
  <2> QED
    BY <2>2, <2>3
<1> QED
  BY <1>2, <1>3, <1>4, <1>6

\* The blocks of a sound space are disjoint and in its memory.
LEMMA StoreSound ==
  ASSUME Inv
  PROVE  Store!Sound(Blocks, Memory)
<1>1. Sound(heap, DOMAIN live, {})
  BY Holdings DEF Inv, Consistent
<1>2. ASSUME NEW p \in DOMAIN Blocks, NEW u \in Store!UnitsOf([at |-> p, size |-> Blocks[p]])
      PROVE  u \in Memory
  <2>1. /\ p - 1 \in DOMAIN live /\ p \in Nat /\ p - 1 \in Nat /\ (p - 1) + 1 = p
        /\ heap.chunk[p - 1].size \in Nat
        /\ u \in p .. (p - 1) + heap.chunk[p - 1].size - 1
    BY <1>1, <1>2, UnitsAt
  <2> DEFINE a == p - 1
             n == heap.chunk[a].size
  <2>2. a \in DOMAIN live /\ u \in Nat /\ a <= u /\ u < a + n
    BY <2>1
  <2>3. \E g \in heap.backed : u \in (g * Granule) .. (g * Granule + Granule - 1)
    <3> HIDE DEF a
    <3> QED
      BY <1>1, <2>2, BlockLent
  <2> QED
    BY <2>3 DEF Memory
<1>3. ASSUME NEW p \in DOMAIN Blocks, NEW q \in DOMAIN Blocks, p # q
      PROVE  Store!UnitsOf([at |-> p, size |-> Blocks[p]])
                \cap Store!UnitsOf([at |-> q, size |-> Blocks[q]]) = {}
  <2> DEFINE a == p - 1
             b == q - 1
             n == heap.chunk[a].size
             m == heap.chunk[b].size
  <2>1. /\ a \in DOMAIN heap.chunk /\ p \in Nat /\ a \in Nat /\ a + 1 = p /\ n \in Nat
        /\ Store!UnitsOf([at |-> p, size |-> Blocks[p]]) = p .. a + n - 1
    BY <1>1, UnitsAt
  <2>2. /\ b \in DOMAIN heap.chunk /\ q \in Nat /\ b \in Nat /\ b + 1 = q /\ m \in Nat
        /\ Store!UnitsOf([at |-> q, size |-> Blocks[q]]) = q .. b + m - 1
    BY <1>1, UnitsAt
  <2>3. \A x, y \in DOMAIN heap.chunk : x < y => x + heap.chunk[x].size <= y
    BY <1>1 DEF Sound, Shape, Apart
  <2>4. a < b \/ b < a
    BY <1>3, <2>1, <2>2
  <2>5. a + n <= b \/ b + m <= a
    BY <2>1, <2>2, <2>3, <2>4
  <2> HIDE DEF a, b, n, m
  <2> QED
    BY <2>1, <2>2, <2>5
<1> QED
  BY <1>2, <1>3 DEF Store!Sound, Store!Units

\* Blocks that a step passes by are the same blocks of the store.
LEMMA BlocksKept ==
  ASSUME Inv, NEW t, NEW gone, Passes(heap, live, call, t, gone, heap', live'),
         NEW p \in DOMAIN Blocks, p - 1 \notin gone
  PROVE  p \in DOMAIN Blocks' /\ Blocks'[p] = Blocks[p]
<1>1. Sound(heap, DOMAIN live, {}) /\ Sound(heap', DOMAIN live', {})
  BY DEF Inv, Consistent, Passes
<1>2. p - 1 \in DOMAIN live \ gone /\ (p - 1) + 1 = p
  BY <1>1, UnitsAt
<1>3. /\ p - 1 \in DOMAIN live' /\ p - 1 \in DOMAIN heap'.chunk
      /\ heap'.chunk[p - 1].size = heap.chunk[p - 1].size
  BY <1>2 DEF Passes, Spares
<1>4. p - 1 \in DOMAIN heap.chunk
  BY <1>1, UnitsAt
<1>5. p \in DOMAIN Blocks'
  BY <1>2, <1>3 DEF Blocks
<1>6. Blocks[p] = heap.chunk[p - 1].size - 1
  BY <1>4 DEF Blocks, SizeOf, Chunks
<1>7. Blocks'[p] = heap'.chunk[p - 1].size - 1
  BY <1>3, <1>5 DEF Blocks, SizeOf, Chunks
<1> QED
  BY <1>3, <1>5, <1>6, <1>7



\* Every step is one of the store.
LEMMA StepRefines ==
  ASSUME Inv, Inv', Steps(heap, live, call, heap', live', call')
  PROVE  Store!Next
<1>1. PICK t \in Threads, c \in Calls, gone \in SUBSET DOMAIN live :
        Passes(heap, live, call, t, gone, heap', live') /\ Handled(live, live', gone)
  BY DEF Steps
<1>2. Store!Sound(Blocks', Memory')
  <2>1. Store!Sound(Blocks, Memory)'
    BY StoreSound, PTL
  <2> QED
    BY <2>1
<1>3. DOMAIN Blocks = {a + 1 : a \in DOMAIN live} /\ DOMAIN Blocks' = {a + 1 : a \in DOMAIN live'}
  BY DEF Blocks
<1>4. \A p \in DOMAIN Blocks : p - 1 \notin gone => p \in DOMAIN Blocks' /\ Blocks'[p] = Blocks[p]
  BY <1>1, BlocksKept
<1>5. \A a \in DOMAIN live \cup DOMAIN live' : a \in Nat /\ a + 1 - 1 = a
  <2>1. Sound(heap, DOMAIN live, {}) /\ Sound(heap', DOMAIN live', {})
    BY <1>1 DEF Inv, Consistent, Passes
  <2>2. \A a \in DOMAIN live : a \in Nat
    BY <2>1, SoundNumbers
  <2>3. \A a \in DOMAIN live' : a \in Nat
    BY <2>1, SoundNumbers
  <2> QED
    BY <2>2, <2>3
<1>6. CASE gone = {} /\ DOMAIN live' = DOMAIN live
  <2>1. DOMAIN Blocks' = DOMAIN Blocks
    BY <1>3, <1>6
  <2>2. \A p \in DOMAIN Blocks : Blocks'[p] = Blocks[p]
    BY <1>4, <1>6
  <2>3. Blocks = [p \in DOMAIN Blocks |-> Blocks[p]] /\ Blocks' = [p \in DOMAIN Blocks' |-> Blocks'[p]]
    BY DEF Blocks
  <2>4. Blocks' = Blocks
    BY <2>1, <2>2, <2>3
  <2>5. Store!Shift
    BY <2>4 DEF Store!Shift
  <2> QED
    BY <1>2, <2>5 DEF Store!Next
<1>7. CASE gone = {} /\ \E a : a \notin DOMAIN live /\ DOMAIN live' = DOMAIN live \cup {a}
  <2>1. PICK a : a \notin DOMAIN live /\ DOMAIN live' = DOMAIN live \cup {a}
    BY <1>7
  <2> DEFINE B == DOMAIN Blocks
  <2>2. DOMAIN Blocks' = B \cup {a + 1}
    BY <1>3, <2>1
  <2>3. a + 1 \notin B
    BY <1>3, <1>5, <2>1
  <2> HIDE DEF B
  <2>7. Store!Kept({})
    BY <1>4, <1>7 DEF Store!Kept
  <2>8. a + 1 \in DOMAIN Blocks' \ DOMAIN Blocks /\ DOMAIN Blocks' = DOMAIN Blocks \cup {a + 1}
    BY <2>2, <2>3 DEF B
  <2>9. Store!Give
    BY <2>7, <2>8 DEF Store!Give
  <2> QED
    BY <1>2, <2>9 DEF Store!Next
<1>8. CASE DOMAIN live' = DOMAIN live \ gone
  <2>1. DOMAIN Blocks' \subseteq DOMAIN Blocks
    BY <1>3, <1>8
  <2>2. \A p \in DOMAIN Blocks' : p - 1 \notin gone
    BY <1>3, <1>5, <1>8
  <2>3. Store!Kept(DOMAIN Blocks \ DOMAIN Blocks')
    BY <1>4, <2>2 DEF Store!Kept
  <2>4. Store!TakeBack
    BY <2>1, <2>3 DEF Store!TakeBack
  <2> QED
    BY <1>2, <2>4 DEF Store!Next
<1>9. CASE \E a \in DOMAIN live : gone = {a}
  <2>1. PICK a \in DOMAIN live : gone = {a}
    BY <1>9
  <2>2. a + 1 \in DOMAIN Blocks
    BY <1>3
  <2>3. Store!Kept({a + 1})
    <3>1. \A p \in DOMAIN Blocks \ {a + 1} : p - 1 \notin gone
      BY <1>3, <1>5, <2>1
    <3> QED
      BY <1>4, <3>1 DEF Store!Kept
  <2>4. Store!Replace
    BY <2>2, <2>3 DEF Store!Replace
  <2> QED
    BY <1>2, <2>4 DEF Store!Next
<1> QED
  BY <1>1, <1>6, <1>7, <1>8, <1>9 DEF Handled

\* Every step of the space, or none, is one of the store, or none.
LEMMA NextRefines ==
  ASSUME ~Remaps, Inv, IsFiniteSet(DOMAIN live), Settled, [Next]_vars
  PROVE  [Store!Next]_Store!vars
<1>1. CASE Next
  <2>1. Steps(heap, live, call, heap', live', call')
    BY <1>1, NextSteps
  <2>2. Inv'
    BY <2>1, StepsKeep
  <2> QED
    BY <2>1, <2>2, StepRefines
<1>2. CASE UNCHANGED vars
  <2>1. Blocks' = Blocks /\ Memory' = Memory
    BY <1>2 DEF vars, Blocks, Memory, SizeOf, Chunks
  <2> QED
    BY <2>1 DEF Store!vars
<1> QED
  BY <1>1, <1>2

\* Where no cutting comes too late, the calls implement the store of disjoint blocks.
THEOREM SpaceStores ==
  ASSUME ~Remaps
  PROVE  Spec /\ []Settled => StoreSpec
<1>1. Init => Store!Init
  BY InitHolds, StoreSound DEF Store!Init
<1>2. Inv /\ IsFiniteSet(DOMAIN live) /\ Settled /\ [Next]_vars => [Store!Next]_Store!vars
  BY NextRefines
<1> QED
  BY <1>1, <1>2, InvAlways, PTL DEF Spec, StoreSpec, Store!Spec

----------------------------------------------------------------------------
(* Where no cutting comes too late: the space has a single thread, or no    *)
(* thread makes independent allocations.                                    *)

Undisturbed == Counts = {} \/ \A t, u \in Threads : t = u

\* Between the steps of an independent allocation mapping is off, and the block it
\* cuts is an ordinary chunk that says so of itself.
Calm ==
  \A t \in Threads :
    /\ call[t].op \in {"ask", "enable"} => ~heap.mmapon
    /\ call[t].op \in {"enable", "carve"} /\ call[t].at # 0 =>
          heap.chunk[call[t].at].cin /\ heap.chunk[call[t].at].pin

\* Without independent allocations no call is one.
LEMMA NoneCut ==
  ASSUME Inv, Counts = {}, NEW t \in Threads
  PROVE  call[t].op \notin {"disable", "ask", "enable", "carve"}
<1>1. call[t] \in Calls
  BY Holdings
<1>2. call[t] \notin Asking /\ call[t] \notin Cutting
  BY HeldBy
<1> QED
  BY <1>1, <1>2, KindOf

\* A calm space is one where the cutting finds the chunk as it was allocated.
LEMMA CalmSettled ==
  ASSUME Inv, Calm
  PROVE  Settled
<1>1. ASSUME NEW t \in Threads, call[t].op = "carve"
      PROVE  heap.chunk[call[t].at].cin /\ heap.chunk[call[t].at].pin
  <2>1. call[t] \in Cutting /\ Roomy(heap, call[t])
    BY <1>1, Holdings, KindOf
  <2>2. call[t].at # 0
    BY <1>1, <2>1 DEF Roomy
  <2> QED
    BY <1>1, <2>2 DEF Calm
<1> QED
  BY <1>1 DEF Settled, Untouched

\* A single thread whose call is none of an independent allocation's last steps is calm.
LEMMA QuietCalm ==
  ASSUME NEW t \in Threads, \A u \in Threads : u = t, NEW calls, NEW h,
         calls[t].op \notin {"ask", "enable", "carve"}
  PROVE  \A u \in Threads :
           /\ calls[u].op \in {"ask", "enable"} => ~h.mmapon
           /\ calls[u].op \in {"enable", "carve"} /\ calls[u].at # 0 =>
                 h.chunk[calls[u].at].cin /\ h.chunk[calls[u].at].pin
OBVIOUS

\* The calls other than the independent allocations leave the thread in none of these steps.
LEMMA QuietSteps ==
  ASSUME Inv, NEW t \in Threads,
         \/ Malloc(t) \/ FreeBlock(t)
         \/ Realloc(t) \/ ReallocAllocate(t) \/ ReallocFree(t) \/ ReallocInPlace(t)
         \/ MemoryAlign(t) \/ MemoryAlignTail(t) \/ IndependentRead(t) \/ IndependentCarve(t)
         \/ BulkFreeBlocks(t)
         \/ SpaceTrim(t) \/ TrackLargeChunks(t) \/ SetFootprintLimit(t)
  PROVE  call'[t].op \notin {"ask", "enable", "carve"}
<1>1. call \in [Threads -> Calls] /\ Idle.op = "idle"
  BY Holdings DEF Idle
<1>2. CASE call[t] = Idle /\ UNCHANGED call
  BY <1>1, <1>2
<1>3. CASE \E c : call' = [call EXCEPT ![t] = c]
                  /\ c.op \in {"idle", "move", "copied", "align", "disable"}
  BY <1>1, <1>3
<1>4. CASE \/ Malloc(t) \/ FreeBlock(t) \/ ReallocInPlace(t) \/ BulkFreeBlocks(t)
           \/ SpaceTrim(t) \/ TrackLargeChunks(t) \/ SetFootprintLimit(t)
  BY <1>2, <1>4 DEF Malloc, FreeBlock, ReallocInPlace, BulkFreeBlocks, SpaceTrim, TrackLargeChunks,
                    SetFootprintLimit
<1>5. CASE Realloc(t)
  <2>1. /\ call[t] = Idle
        /\ \/ UNCHANGED call
           \/ \E a, r : call' = [call EXCEPT ![t] = [op |-> "move", old |-> a, size |-> r]]
    BY <1>5 DEF Realloc
  <2>2. CASE \E a, r : call' = [call EXCEPT ![t] = [op |-> "move", old |-> a, size |-> r]]
    <3>1. PICK a, r : call' = [call EXCEPT ![t] = [op |-> "move", old |-> a, size |-> r]]
      BY <2>2
    <3>2. call'[t].op = "move"
      BY <1>1, <3>1
    <3> QED
      BY <3>2
  <2> QED
    BY <1>2, <2>1, <2>2
<1>6. CASE ReallocAllocate(t)
  <2>1. PICK o : call' = [call EXCEPT ![t] =
                   IF o.at = 0 THEN Idle ELSE [op |-> "copied", old |-> call[t].old, at |-> o.at]]
    BY <1>1, <1>6 DEF ReallocAllocate
  <2>2. call'[t] = Idle \/ call'[t].op = "copied"
    BY <1>1, <2>1
  <2> QED
    BY <1>1, <2>2
<1>7. CASE ReallocFree(t) \/ MemoryAlignTail(t) \/ IndependentCarve(t)
  BY <1>1, <1>3, <1>7 DEF ReallocFree, MemoryAlignTail, IndependentCarve
<1>8. CASE MemoryAlign(t)
  <2>1. PICK o, r, al : call[t] = Idle /\ call' = IF o.at = 0 THEN call
            ELSE [call EXCEPT ![t] = [op |-> "align", at |-> o.at, size |-> r, alignment |-> al]]
    BY <1>8 DEF MemoryAlign
  <2>2. call'[t] = Idle \/ call'[t].op = "align"
    BY <1>1, <2>1
  <2> QED
    BY <1>1, <2>2
<1>9. CASE IndependentRead(t)
  <2>1. PICK n, r, array : call' = [call EXCEPT ![t] = [op |-> "disable", count |-> n, size |-> r,
                                        array |-> array, on |-> heap.mmapon]]
    BY <1>9 DEF IndependentRead
  <2>2. call'[t].op = "disable"
    BY <1>1, <2>1
  <2> QED
    BY <2>2
<1> QED
  BY <1>4, <1>5, <1>6, <1>7, <1>8, <1>9

\* The allocation made with mapping off gives an ordinary chunk, and leaves mapping off.
LEMMA AllocateCalm ==
  ASSUME Inv, NEW t \in Threads, \A u \in Threads : u = t, Calm, IndependentAllocate(t)
  PROVE  Calm'
<1> DEFINE c == call[t]
           n == IndependentSize(c.count, Pad(c.size), c.array)
<1>1. /\ c \in Asking /\ call \in [Threads -> Calls] /\ Sound(heap, DOMAIN live, {})
      /\ ~heap.mmapon
  <2>1. c.op = "ask" /\ c \in Calls
    BY Holdings DEF IndependentAllocate
  <2> QED
    BY <2>1, KindOf, Holdings DEF Calm
<1>2. PICK o \in Allocate(heap, n) :
        /\ heap' = o.heap
        /\ call' = [call EXCEPT ![t] = [op |-> "enable", at |-> o.at, count |-> c.count,
                                        size |-> c.size, array |-> c.array, on |-> c.on]]
  BY <1>1 DEF IndependentAllocate
<1>3. c.count \in Counts /\ c.size \in Requests /\ c.array \in BOOLEAN
  BY <1>1, HeldBy
<1>4. n \in Nat /\ n >= MinChunk
  BY <1>3, IndependentOf
<1>5. call'[t].op = "enable" /\ call'[t].at = o.at
  BY <1>1, <1>2
<1> HIDE DEF n, c
<1>6. Lends(heap, o, DOMAIN live, n)
  BY <1>1, <1>2, <1>4, Allocation
<1>7. ~o.heap.mmapon
  BY <1>1, <1>6 DEF Lends, Asked, SameBut, AskFields, HeapFields
<1>8. o.at # 0 => o.heap.chunk[o.at].cin /\ o.heap.chunk[o.at].pin
  BY <1>1, <1>6 DEF Lends
<1> QED
  BY <1>2, <1>5, <1>7, <1>8 DEF Calm

\* A single thread stays calm.
LEMMA CalmKept ==
  ASSUME Inv, Calm, \A t, u \in Threads : t = u, [Next]_vars
  PROVE  Calm'
<1>1. CASE UNCHANGED vars
  BY <1>1 DEF vars, Calm
<1>2. CASE Next
  <2>1. PICK t \in Threads :
        \/ Malloc(t) \/ FreeBlock(t)
        \/ Realloc(t) \/ ReallocAllocate(t) \/ ReallocFree(t) \/ ReallocInPlace(t)
        \/ MemoryAlign(t) \/ MemoryAlignTail(t)
        \/ IndependentRead(t) \/ IndependentDisable(t) \/ IndependentAllocate(t)
        \/ IndependentEnable(t) \/ IndependentCarve(t)
        \/ BulkFreeBlocks(t)
        \/ SpaceTrim(t) \/ TrackLargeChunks(t) \/ SetFootprintLimit(t)
    BY <1>2 DEF Next
  <2>2. (\A u \in Threads : u = t) /\ call \in [Threads -> Calls] /\ IsHeap(heap) /\ Idle.op = "idle"
    BY Holdings DEF Sound, Idle
  <2>3. CASE call'[t].op \notin {"ask", "enable", "carve"}
    BY <2>2, <2>3 DEF Calm
  <2>4. CASE IndependentDisable(t)
    <3>1. heap' = [heap EXCEPT !.mmapon = FALSE] /\ call' = [call EXCEPT ![t].op = "ask"]
          /\ call[t] \in Asking
      <4>1. call[t].op = "disable" /\ call[t] \in Calls
        BY <2>4, Holdings DEF IndependentDisable
      <4> QED
        BY <2>4, <4>1, KindOf DEF IndependentDisable
    <3>2. call'[t].op = "ask"
      BY <2>2, <3>1 DEF Asking
    <3>3. ~heap'.mmapon
      BY <2>2, <3>1 DEF IsHeap, HeapFields
    <3> QED
      BY <2>2, <3>2, <3>3 DEF Calm
  <2>5. CASE IndependentAllocate(t)
    BY <2>2, <2>5, AllocateCalm
  <2>6. CASE IndependentEnable(t)
    <3>1. /\ call[t].op = "enable" /\ heap'.chunk = heap.chunk
          /\ call' = [call EXCEPT ![t] = IF @.at = 0 THEN Idle ELSE [@ EXCEPT !.op = "carve"]]
          /\ call[t] \in Cutting
      <4>1. call[t].op = "enable" /\ call[t] \in Calls
        BY <2>6, Holdings DEF IndependentEnable
      <4>2. heap'.chunk = heap.chunk
        BY <2>2, <2>6 DEF IndependentEnable, IsHeap, HeapFields
      <4> QED
        BY <2>6, <4>1, <4>2, KindOf DEF IndependentEnable
    <3>2. CASE call[t].at = 0
      <4>1. call'[t].op = "idle"
        BY <2>2, <3>1, <3>2
      <4> QED
        BY <2>3, <4>1
    <3>3. CASE call[t].at # 0
      <4>1. call'[t].op = "carve" /\ call'[t].at = call[t].at
        BY <2>2, <3>1, <3>3 DEF Cutting
      <4>2. heap.chunk[call[t].at].cin /\ heap.chunk[call[t].at].pin
        BY <3>1, <3>3 DEF Calm
      <4> QED
        BY <2>2, <3>1, <4>1, <4>2 DEF Calm
    <3> QED
      BY <3>2, <3>3
  <2> QED
    BY <2>1, <2>3, <2>4, <2>5, <2>6, QuietSteps
<1> QED
  BY <1>1, <1>2

\* Undisturbed, the space settles every cutting.
LEMMA UndisturbedSettled ==
  ASSUME ~Remaps, Undisturbed
  PROVE  Spec => []Settled
<1> DEFINE J == Inv /\ IsFiniteSet(DOMAIN live) /\ (Counts = {} \/ Calm)
<1>1. Init => J
  <2> SUFFICES ASSUME Init PROVE J
    OBVIOUS
  <2>1. Inv /\ IsFiniteSet(DOMAIN live)
    BY InitHolds
  <2>2. Calm
    BY DEF Init, Idle, Calm
  <2> QED
    BY <2>1, <2>2
<1>2. J => Settled
  <2> SUFFICES ASSUME J PROVE Settled
    OBVIOUS
  <2>1. CASE Counts = {}
    BY <2>1, NoneCut DEF Settled, Untouched
  <2> QED
    BY <2>1, CalmSettled
<1>3. J /\ [Next]_vars => J'
  <2> SUFFICES ASSUME J, [Next]_vars PROVE J'
    OBVIOUS
  <2>1. Inv' /\ IsFiniteSet(DOMAIN live)'
    BY <1>2, InvKept
  <2>2. CASE Counts = {}
    BY <2>1, <2>2
  <2>3. CASE Counts # {}
    <3>1. Calm'
      BY <2>3, CalmKept DEF Undisturbed
    <3> QED
      BY <2>1, <3>1
  <2> QED
    BY <2>2, <2>3
<1> HIDE DEF J
<1> QED
  BY <1>1, <1>2, <1>3, PTL DEF Spec

\* The space stays sound under any calls of any number of threads that make no
\* independent allocation, and under all the calls of one thread.
THEOREM UndisturbedSound ==
  ASSUME ~Remaps, Undisturbed
  PROVE  Spec => []HeapSound
BY UndisturbedSettled, SpaceSound, PTL

\* Then each part of what a call relies on holds by itself: the chunks tile the granted
\* segments, with the records of the segments at home and each block as large as asked.
THEOREM UndisturbedLayout ==
  ASSUME ~Remaps, Undisturbed
  PROVE  Spec => []Layout
<1>1. Spec => []Inv
  BY UndisturbedSettled, InvAlways, PTL
<1>2. Inv => Layout
  BY InvSound
<1> QED
  BY <1>1, <1>2, PTL

\* The bits and footers at the border of two chunks say the same of both, and no two
\* free chunks are neighbours.
THEOREM UndisturbedTags ==
  ASSUME ~Remaps, Undisturbed
  PROVE  Spec => []BoundaryTags
<1>1. Spec => []Inv
  BY UndisturbedSettled, InvAlways, PTL
<1>2. Inv => BoundaryTags
  BY InvSound
<1> QED
  BY <1>1, <1>2, PTL

\* No chunk is lost, in two bins at once or both lent and free, and the footprint is
\* what the system lent.
THEOREM UndisturbedAccounted ==
  ASSUME ~Remaps, Undisturbed
  PROVE  Spec => []MemoryAccounted
<1>1. Spec => []Inv
  BY UndisturbedSettled, InvAlways, PTL
<1>2. Inv => MemoryAccounted
  BY InvSound
<1> QED
  BY <1>1, <1>2, PTL

\* Then the footprint grows only within the limit.
THEOREM UndisturbedLimit ==
  ASSUME ~Remaps, Undisturbed
  PROVE  Spec => GrowsWithinLimit
BY UndisturbedSettled, LimitKept, PTL

\* Then the calls implement the store of disjoint blocks.
THEOREM UndisturbedStores ==
  ASSUME ~Remaps, Undisturbed
  PROVE  Spec => StoreSpec
BY UndisturbedSettled, SpaceStores, PTL

\* A single thread is always calm.
LEMMA CalmAlways ==
  ASSUME ~Remaps, \A t, u \in Threads : t = u
  PROVE  Spec => [](Inv /\ Calm)
<1>1. Undisturbed
  BY DEF Undisturbed
<1>2. Spec => []Inv
  BY <1>1, UndisturbedSettled, InvAlways, PTL
<1>3. Init => Calm
  BY DEF Init, Idle, Calm
<1>4. Inv /\ Calm /\ [Next]_vars => Calm'
  BY CalmKept
<1> QED
  BY <1>2, <1>3, <1>4, PTL DEF Spec

\* What one thread cuts up is an ordinary chunk, not a mapping of its own (the
\* assertion at 3310).
THEOREM OneThreadCarves ==
  ASSUME ~Remaps, \A t, u \in Threads : t = u
  PROVE  Spec => []CarvesOrdinaryChunk
<1>1. Inv /\ Calm => CarvesOrdinaryChunk
  BY CalmSettled DEF Settled, Untouched, CarvesOrdinaryChunk, MapChunks, Chunks, IsMapped
<1> QED
  BY <1>1, CalmAlways, PTL

----------------------------------------------------------------------------
(* Destroying the space.                                                   *)

\* What is gone of the first m segments if the system refuses nothing.
OwnUpTo(h, m) ==
  {g \in h.backed : \E j \in 1 .. m :
      j \in DOMAIN h.segs /\ ~h.segs[j].external /\ g \in GranulesOf(h.segs[j].base, h.segs[j].size)}

\* How far the walk of sm_destroy_space can have come behind the first m segments.
Torn(h, m, x) ==
  /\ x = [f \in {"backed", "freed", "fit"} |-> x[f]] /\ x.fit
  /\ x.backed \subseteq h.backed /\ h.backed \ x.backed \subseteq OwnUpTo(h, m)
  /\ x.freed = Granule * Cardinality(h.backed \ x.backed)

\* The record of a segment lies in the segment, or in the first one of the walk.
LEMMA RecordHome ==
  ASSUME NEW h, NEW L, Sound(h, L, {}), NEW i \in DOMAIN h.segs
  PROVE  /\ i \in Nat /\ i >= 1
         /\ i # 1 => RecordOf(h, i) \div Granule \in GranulesOf(h.segs[i].base, h.segs[i].size)
         /\ RecordOf(h, i) \div Granule \in h.backed
         /\ Whole(h.segs[i].base) /\ Whole(h.segs[i].size)
         /\ GranulesOf(h.segs[i].base, h.segs[i].size) \subseteq h.backed
<1> DEFINE S == h.segs
           G(j) == GranulesOf(S[j].base, S[j].size)
<1>1. S \in Seq(Segment) /\ Len(S) \in Nat /\ DOMAIN S = 1 .. Len(S) /\ Len(S) >= 1
  <2>1. S \in Seq(Segment) /\ Len(S) >= 1
    BY DEF Sound, Shape, Segments
  <2> QED
    BY <2>1
<1>2. \A j \in DOMAIN S : Whole(S[j].base) /\ Whole(S[j].size) /\ G(j) \subseteq h.backed
  BY DEF Sound, Lent
<1>3. ASSUME NEW j \in DOMAIN S, NEW r \in Nat, Holds(S[j], r)
      PROVE  r \div Granule \in G(j)
  <2>1. PICK k, m \in Nat \ {0} : /\ S[j].base = k * Granule /\ S[j].size = m * Granule
                                  /\ G(j) = k .. (k + m - 1)
    BY <1>2, GranulesAre
  <2>2. k * Granule <= r /\ r < k * Granule + m * Granule /\ Granule \in Nat \ {0}
    BY <1>3, <2>1, Numbers DEF Holds
  <2>3. k * Granule + m * Granule = (k + m) * Granule
    BY <2>2, Products
  <2> DEFINE q == r \div Granule
  <2>4. q \in Nat /\ q * Granule <= r /\ r < (q + 1) * Granule
    BY <2>2, SMTT(30)
  <2> HIDE DEF q, G
  <2>5. k <= q
    <3>1. CASE q + 1 <= k
      <4>1. (q + 1) * Granule <= k * Granule
        BY <2>2, <2>4, <3>1, Products
      <4>2. (q + 1) * Granule \in Nat /\ k * Granule \in Nat
        BY <2>2, <2>4, Products
      <4> QED
        BY <2>2, <2>4, <4>1, <4>2
    <3> QED
      BY <2>4, <3>1
  <2>6. q < k + m
    <3>1. CASE k + m <= q
      <4>1. (k + m) * Granule <= q * Granule
        BY <2>2, <2>4, <3>1, Products
      <4>2. (k + m) * Granule \in Nat /\ q * Granule \in Nat
        BY <2>2, <2>4, Products
      <4> QED
        BY <2>2, <2>3, <2>4, <4>1, <4>2
    <3> QED
      BY <2>4, <3>1
  <2> QED
    BY <2>1, <2>4, <2>5, <2>6 DEF q
<1>4. CASE i = 1
  <2>1. h.state \in InHeap(h.chunk) /\ InHeap(h.chunk) \subseteq DOMAIN h.chunk
    BY DEF Sound, Shape, Ends, InHeap
  <2>2. PICK j \in DOMAIN S : Holds(S[j], h.state)
    BY <2>1 DEF Sound, Shape
  <2>3. h.state \in Nat
    BY <2>1 DEF Sound, Shape, Heads
  <2>4. RecordOf(h, i) = h.state
    BY <1>4 DEF RecordOf
  <2> HIDE DEF G
  <2>5. h.state \div Granule \in h.backed
    BY <1>2, <1>3, <2>2, <2>3
  <2> QED
    BY <1>1, <1>2, <1>4, <2>4, <2>5 DEF G
<1>5. CASE i # 1
  <2>1. i \in 2 .. Len(S) /\ S[i] \in Segment
    BY <1>1, <1>5
  <2>2. Holds(S[i], S[i].rec) /\ S[i].rec \in Nat
    BY <2>1 DEF Sound, Shape, Ends, Segment
  <2>3. RecordOf(h, i) = S[i].rec
    BY <1>5 DEF RecordOf
  <2> HIDE DEF G
  <2>4. RecordOf(h, i) \div Granule \in G(i)
    BY <1>3, <2>2, <2>3
  <2> QED
    BY <1>1, <1>2, <1>5, <2>4 DEF G
<1> QED
  BY <1>4, <1>5

\* One segment of the walk: its record is still there, and what is counted is what goes.
LEMMA TornRound ==
  ASSUME NEW h, NEW L, Sound(h, L, {}), NEW i \in DOMAIN h.segs, NEW x, Torn(h, i - 1, x)
  PROVE  /\ \A y \in UnmapSegment(h, x, i) : Torn(h, i, y)
         /\ x.backed = h.backed \ OwnUpTo(h, i - 1) =>
              \E y \in UnmapSegment(h, x, i) : y.backed = h.backed \ OwnUpTo(h, i)
<1> DEFINE s == h.segs[i]
           G == GranulesOf(s.base, s.size)
           D == h.backed \ x.backed
           read == [x EXCEPT !.fit = @ /\ RecordOf(h, i) \div Granule \in x.backed]
           gone == [read EXCEPT !.backed = @ \ G, !.freed = @ + s.size]
<1>1. /\ i \in Nat /\ i >= 1 /\ Whole(s.base) /\ Whole(s.size) /\ G \subseteq h.backed
      /\ i # 1 => RecordOf(h, i) \div Granule \in G
      /\ RecordOf(h, i) \div Granule \in h.backed
  BY RecordHome
<1>2. \A j \in DOMAIN h.segs : j # i => G \cap GranulesOf(h.segs[j].base, h.segs[j].size) = {}
  BY DEF Sound, Lent
<1>3. G \cap OwnUpTo(h, i - 1) = {}
  <2>1. \A j \in 1 .. i - 1 : j # i
    BY <1>1
  <2> HIDE DEF G
  <2> QED
    BY <1>2, <2>1 DEF OwnUpTo
<1>4. G \subseteq x.backed
  BY <1>1, <1>3 DEF Torn
<1>5. RecordOf(h, i) \div Granule \in x.backed
  <2>1. CASE i = 1
    <3>1. OwnUpTo(h, i - 1) = {}
      BY <2>1 DEF OwnUpTo
    <3> QED
      BY <1>1, <3>1 DEF Torn
  <2> QED
    BY <1>1, <1>4, <2>1
<1>6. OwnUpTo(h, i) = OwnUpTo(h, i - 1) \cup IF s.external THEN {} ELSE G
  <2>1. \A j : j \in 1 .. i <=> j \in 1 .. i - 1 \/ j = i
    BY <1>1
  <2>2. \A g : g \in OwnUpTo(h, i) <=>
          g \in h.backed /\ \E j \in 1 .. i : j \in DOMAIN h.segs /\ ~h.segs[j].external
                               /\ g \in GranulesOf(h.segs[j].base, h.segs[j].size)
    BY DEF OwnUpTo
  <2>3. \A g : g \in OwnUpTo(h, i - 1) <=>
          g \in h.backed /\ \E j \in 1 .. i - 1 : j \in DOMAIN h.segs /\ ~h.segs[j].external
                               /\ g \in GranulesOf(h.segs[j].base, h.segs[j].size)
    BY DEF OwnUpTo
  <2>4. \A g : g \in OwnUpTo(h, i) <=> g \in OwnUpTo(h, i - 1) \/ (~s.external /\ g \in G)
    BY <1>1, <2>1, <2>2, <2>3
  <2> QED
    BY <2>4
<1>7. /\ read = [f \in {"backed", "freed", "fit"} |-> read[f]] /\ read.fit
      /\ read.backed = x.backed /\ read.freed = x.freed
  BY <1>5 DEF Torn
<1>8. /\ gone = [f \in {"backed", "freed", "fit"} |-> gone[f]] /\ gone.fit
      /\ gone.backed = x.backed \ G /\ gone.freed = x.freed + s.size
  <2> HIDE DEF read
  <2> QED
    BY <1>7
<1> HIDE DEF read, gone
<1>9. Torn(h, i, read)
  BY <1>6, <1>7 DEF Torn
<1>10. ASSUME ~s.external PROVE Torn(h, i, gone)
  <2>1. h.backed \subseteq Space
    BY DEF Sound, Lent
  <2>2. h.backed \ (x.backed \ G) = D \cup G /\ G \subseteq Space \ D /\ D \subseteq Space
    BY <1>1, <1>4, <2>1
  <2>3. Granule * Cardinality(D) + s.size = Granule * Cardinality(D \cup G)
    BY <1>1, <2>2, MoreBacked
  <2>4. x.freed + s.size = Granule * Cardinality(h.backed \ (x.backed \ G))
    BY <2>2, <2>3 DEF Torn
  <2>5. x.backed \ G \subseteq h.backed /\ h.backed \ (x.backed \ G) \subseteq OwnUpTo(h, i)
    BY <1>1, <1>6, <1>10 DEF Torn
  <2> QED
    BY <1>8, <2>4, <2>5 DEF Torn
<1>11. CASE s.external
  <2>1. UnmapSegment(h, x, i) = {read}
    BY <1>11 DEF UnmapSegment, read
  <2> QED
    BY <1>6, <1>7, <1>9, <1>11, <2>1
<1>12. CASE ~s.external
  <2>1. UnmapSegment(h, x, i) = {read, gone} \/ UnmapSegment(h, x, i) = {gone}
    BY <1>12 DEF UnmapSegment, read, gone
  <2>2. x.backed = h.backed \ OwnUpTo(h, i - 1) => gone.backed = h.backed \ OwnUpTo(h, i)
    BY <1>6, <1>8, <1>12
  <2> QED
    BY <1>9, <1>10, <1>12, <2>1, <2>2
<1> QED
  BY <1>11, <1>12

\* The walk over the first m segments.
TearUpTo(f, h, m) ==
  f = [i \in 0 .. m |-> IF i = 0 THEN {[backed |-> h.backed, freed |-> 0, fit |-> TRUE]}
                        ELSE UNION {UnmapSegment(h, x, i) : x \in f[i - 1]}]

\* There is such a walk.
LEMMA TearExists ==
  ASSUME NEW h, NEW m \in Nat
  PROVE  \E f : TearUpTo(f, h, m)
<1> DEFINE start == {[backed |-> h.backed, freed |-> 0, fit |-> TRUE]}
           bad == {k \in Nat : ~\E f : TearUpTo(f, h, k)}
<1>1. bad = {}
  <2> SUFFICES ASSUME bad # {} PROVE FALSE
    OBVIOUS
  <2>1. PICK k \in bad : \A n \in bad : k <= n
    <3>1. bad \in SUBSET Nat
      OBVIOUS
    <3> HIDE DEF bad
    <3> QED
      BY <3>1, Least
  <2>2. k \in Nat /\ ~\E f : TearUpTo(f, h, k)
    BY <2>1
  <2>3. CASE k = 0
    <3> DEFINE f == [i \in 0 .. 0 |-> start]
    <3>1. TearUpTo(f, h, 0)
      BY DEF TearUpTo
    <3> QED
      BY <2>2, <2>3, <3>1
  <2>4. CASE k # 0
    <3>1. k - 1 \in Nat /\ k - 1 \notin bad
      BY <2>1, <2>2, <2>4
    <3>2. PICK f : TearUpTo(f, h, k - 1)
      BY <3>1
    <3> DEFINE g == [i \in 0 .. k |-> IF i < k THEN f[i]
                       ELSE UNION {UnmapSegment(h, x, k) : x \in f[k - 1]}]
    <3> HIDE DEF start
    <3>3. \A i \in 0 .. k : g[i] = IF i = 0 THEN start
                              ELSE UNION {UnmapSegment(h, x, i) : x \in g[i - 1]}
      <4> SUFFICES ASSUME NEW i \in 0 .. k
                   PROVE  g[i] = IF i = 0 THEN start
                                 ELSE UNION {UnmapSegment(h, x, i) : x \in g[i - 1]}
        OBVIOUS
      <4>1. CASE i < k
        <5>1. i \in 0 .. k - 1 /\ g[i] = f[i] /\ (i # 0 => i - 1 \in 0 .. k /\ i - 1 < k)
          BY <2>2, <4>1
        <5>2. i # 0 => g[i - 1] = f[i - 1]
          BY <5>1
        <5> HIDE DEF g
        <5> QED
          BY <3>2, <5>1, <5>2 DEF TearUpTo, start
      <4>2. CASE i = k
        <5>1. k - 1 \in 0 .. k /\ k - 1 < k
          BY <2>2, <2>4
        <5>2. g[k - 1] = f[k - 1]
          BY <5>1
        <5> QED
          BY <2>2, <2>4, <4>2, <5>2
      <4> QED
        BY <2>2, <4>1, <4>2
    <3>4. TearUpTo(g, h, k)
      <4>1. g = [i \in 0 .. k |-> g[i]]
        OBVIOUS
      <4> HIDE DEF g
      <4> QED
        BY <3>3, <4>1 DEF TearUpTo, start
    <3> QED
      BY <2>2, <3>4
  <2> QED
    BY <2>3, <2>4
<1> QED
  BY <1>1

\* sm_destroy_space on a sound space: it reads every record before its memory goes,
\* counts what it gives back, and can give back all but the caller's own memory.
LEMMA TearsDown ==
  ASSUME NEW h, NEW L, Sound(h, L, {}), NEW n, n = Len(h.segs)
  PROVE  /\ \A x \in DestroySpace(h) : Torn(h, n, x)
         /\ \E x \in DestroySpace(h) : x.backed = h.backed \ OwnUpTo(h, n)
<1> DEFINE f == CHOOSE f : TearUpTo(f, h, n)
           Sane(i) == /\ \A x \in f[i] : Torn(h, i, x)
                      /\ \E x \in f[i] : x.backed = h.backed \ OwnUpTo(h, i)
<1>1. n \in Nat /\ DOMAIN h.segs = 1 .. n
  <2>1. h.segs \in Seq(Segment)
    BY DEF Sound, Shape, Segments
  <2> QED
    BY <2>1
<1>2. TearUpTo(f, h, n)
  BY <1>1, TearExists
<1>3. DestroySpace(h) = f[n]
  BY <1>1 DEF DestroySpace, TearUpTo
<1> HIDE DEF f
<1> DEFINE bad == {i \in 0 .. n : ~Sane(i)}
<1>4. bad = {}
  <2> SUFFICES ASSUME bad # {} PROVE FALSE
    OBVIOUS
  <2>1. PICK k \in bad : \A m \in bad : k <= m
    <3>1. bad \in SUBSET Nat
      BY <1>1
    <3> HIDE DEF bad
    <3> QED
      BY <3>1, Least
  <2>2. k \in 0 .. n /\ ~Sane(k)
    BY <2>1
  <2>3. CASE k = 0
    <3>1. f[0] = {[backed |-> h.backed, freed |-> 0, fit |-> TRUE]}
      BY <1>1, <1>2 DEF TearUpTo
    <3>2. OwnUpTo(h, 0) = {}
      BY DEF OwnUpTo
    <3>3. h.backed \ h.backed = {} /\ Cardinality({}) = 0 /\ Granule * 0 = 0
      BY FS_EmptySet, Numbers
    <3>4. Torn(h, 0, [backed |-> h.backed, freed |-> 0, fit |-> TRUE])
      BY <3>2, <3>3 DEF Torn
    <3> QED
      BY <2>2, <2>3, <3>1, <3>2, <3>4
  <2>4. CASE k # 0
    <3>1. k - 1 \in 0 .. n /\ k \in DOMAIN h.segs /\ k \in Nat /\ k - 1 < k
      BY <1>1, <2>2, <2>4
    <3>2. Sane(k - 1)
      BY <2>1, <3>1
    <3>3. f[k] = UNION {UnmapSegment(h, x, k) : x \in f[k - 1]}
      BY <1>2, <2>2, <2>4 DEF TearUpTo
    <3> HIDE DEF bad
    <3>4. \A x \in f[k - 1] :
            /\ \A y \in UnmapSegment(h, x, k) : Torn(h, k, y)
            /\ x.backed = h.backed \ OwnUpTo(h, k - 1) =>
                 \E y \in UnmapSegment(h, x, k) : y.backed = h.backed \ OwnUpTo(h, k)
      BY <3>1, <3>2, TornRound
    <3>5. \A y \in f[k] : Torn(h, k, y)
      BY <3>3, <3>4
    <3>6. \E y \in f[k] : y.backed = h.backed \ OwnUpTo(h, k)
      <4>1. PICK x \in f[k - 1] : x.backed = h.backed \ OwnUpTo(h, k - 1)
        BY <3>2
      <4>2. PICK y \in UnmapSegment(h, x, k) : y.backed = h.backed \ OwnUpTo(h, k)
        BY <3>4, <4>1
      <4> QED
        BY <3>3, <4>1, <4>2
    <3> QED
      BY <2>2, <3>5, <3>6
  <2> QED
    BY <2>3, <2>4
<1>5. Sane(n)
  BY <1>1, <1>4
<1> QED
  BY <1>3, <1>5

\* What the walk can give back is what the space has of segments of its own.
LEMMA OwnIs ==
  ASSUME NEW h, NEW L, Sound(h, L, {})
  PROVE  OwnUpTo(h, Len(h.segs)) =
           UNION {GranulesOf(s.base, s.size) : s \in {r \in Range(h.segs) : ~r.external}}
<1> DEFINE own == UNION {GranulesOf(s.base, s.size) : s \in {r \in Range(h.segs) : ~r.external}}
<1>1. DOMAIN h.segs = 1 .. Len(h.segs)
  <2>1. h.segs \in Seq(Segment)
    BY DEF Sound, Shape, Segments
  <2> QED
    BY <2>1
<1>2. \A j \in DOMAIN h.segs : GranulesOf(h.segs[j].base, h.segs[j].size) \subseteq h.backed
  BY DEF Sound, Lent
<1>3. \A g : g \in own <=> \E j \in DOMAIN h.segs :
          ~h.segs[j].external /\ g \in GranulesOf(h.segs[j].base, h.segs[j].size)
  BY DEF Range
<1>4. \A g : g \in OwnUpTo(h, Len(h.segs)) <=> g \in own
  <2> HIDE DEF own
  <2> QED
    BY <1>1, <1>2, <1>3 DEF OwnUpTo
<1> QED
  BY <1>4

\* An undisturbed space can be destroyed between any two steps: no record is read
\* from memory that was given back, whichever munmap fails.
THEOREM UndisturbedReads ==
  ASSUME ~Remaps, Undisturbed
  PROVE  Spec => []DestroyReadsLinked
<1>1. Spec => []Inv
  BY UndisturbedSettled, InvAlways, PTL
<1>2. Inv => DestroyReadsLinked
  <2> SUFFICES ASSUME Inv, NEW x \in DestroySpace(heap) PROVE x.fit
    BY DEF DestroyReadsLinked
  <2>1. Sound(heap, DOMAIN live, {})
    BY DEF Inv, Consistent
  <2>2. Torn(heap, Len(heap.segs), x)
    BY <2>1, TearsDown
  <2> QED
    BY <2>2 DEF Torn
<1> QED
  BY <1>1, <1>2, PTL

\* Destroying it counts what it gives back, leaves the caller's memory alone, and
\* gives back every segment of the space's own when no munmap fails.
THEOREM UndisturbedReturns ==
  ASSUME ~Remaps, Undisturbed
  PROVE  Spec => []DestroyReturnsSegments
<1>1. Spec => []Inv
  BY UndisturbedSettled, InvAlways, PTL
<1>2. Inv => DestroyReturnsSegments
  <2> SUFFICES ASSUME Inv PROVE DestroyReturnsSegments
    OBVIOUS
  <2>1. Sound(heap, DOMAIN live, {})
    BY DEF Inv, Consistent
  <2>2. OwnUpTo(heap, Len(heap.segs)) =
          UNION {GranulesOf(s.base, s.size) : s \in {r \in Range(heap.segs) : ~r.external}}
    BY <2>1, OwnIs
  <2>3. \A x \in DestroySpace(heap) : Torn(heap, Len(heap.segs), x)
    BY <2>1, TearsDown
  <2>4. \E x \in DestroySpace(heap) : x.backed = heap.backed \ OwnUpTo(heap, Len(heap.segs))
    BY <2>1, TearsDown
  <2>5. \A x \in DestroySpace(heap) :
          /\ x.freed = Granule * Cardinality(heap.backed \ x.backed)
          /\ heap.backed \ OwnUpTo(heap, Len(heap.segs)) \subseteq x.backed
    BY <2>3 DEF Torn
  <2> QED
    BY <2>2, <2>4, <2>5 DEF DestroyReturnsSegments
<1> QED
  BY <1>1, <1>2, PTL

----------------------------------------------------------------------------
(* The allocator's own checks.                                             *)

\* What soundness says of a chunk in a segment, in one place.
LEMMA Neighbours ==
  ASSUME NEW h, NEW L, Sound(h, L, {}), NEW i \in DOMAIN h.segs,
         NEW a \in InHeap(h.chunk), Holds(h.segs[i], a), NEW n, n = a + h.chunk[a].size
  PROVE  /\ a \in DOMAIN h.chunk /\ a \in Nat /\ n \in Nat /\ a < n /\ h.chunk[a].size \in Nat
         /\ a <= LastOf(h.segs, i, h.top)
         /\ a # LastOf(h.segs, i, h.top) =>
              /\ h.chunk[a].size >= MinChunk /\ n \in InHeap(h.chunk) /\ Holds(h.segs[i], n)
              /\ Tells(h.chunk, a, n, h.state)
         /\ a # h.segs[i].base =>
              \E b \in InHeap(h.chunk) : b + h.chunk[b].size = a /\ Holds(h.segs[i], b)
<1>1. Shape(h.chunk, h.segs, h.top, h.state)
  BY DEF Sound
<1>2. Heads(h.chunk) /\ Linked(h.chunk, h.segs, h.top, h.state) /\ a \in DOMAIN h.chunk
  BY <1>1 DEF Shape, InHeap
<1>3. a \in Nat /\ h.chunk[a].size \in Nat /\ h.chunk[a].size > 0
  BY <1>2, ChunkFields
<1> QED
  BY <1>2, <1>3 DEF Linked

\* Where the last chunk of a segment is, and where the loop over it ends.
Finish(h, i) == IF i = 1 THEN h.top ELSE h.segs[i].rec + SegmentChunk

LEMMA LastFields ==
  ASSUME NEW h, NEW L, Sound(h, L, {}), NEW i \in DOMAIN h.segs, NEW z, z = LastOf(h.segs, i, h.top)
  PROVE  /\ i \in Nat /\ i >= 1 /\ i <= Len(h.segs) /\ Len(h.segs) \in Nat
         /\ DOMAIN h.segs = 1 .. Len(h.segs) /\ Segments(h.segs)
         /\ z \in InHeap(h.chunk) /\ Holds(h.segs[i], z) /\ z \in Nat
         /\ i = 1 => z = h.top /\ ~h.chunk[z].cin
         /\ i # 1 => /\ z = h.segs[i].rec /\ h.chunk[z].cin /\ h.chunk[z].size = SegmentChunk
                     /\ z + TopFoot <= End(h.segs[i])
         /\ Finish(h, i) \in Nat /\ z <= Finish(h, i)
         /\ i # 1 => Finish(h, i) = z + h.chunk[z].size
<1>1. /\ Heads(h.chunk) /\ Segments(h.segs) /\ Ends(h.chunk, h.segs, h.top, h.state)
  BY DEF Sound, Shape
<1>2. /\ i \in Nat /\ i >= 1 /\ i <= Len(h.segs) /\ DOMAIN h.segs = 1 .. Len(h.segs)
      /\ Len(h.segs) \in Nat
  BY <1>1, SegmentFields
<1>3. i # 1 => i \in 2 .. Len(h.segs)
  BY <1>2
<1>4. /\ z \in InHeap(h.chunk) /\ Holds(h.segs[i], z)
      /\ i = 1 => z = h.top /\ ~h.chunk[z].cin
      /\ i # 1 => /\ z = h.segs[i].rec /\ h.chunk[z].cin /\ h.chunk[z].size = SegmentChunk
                  /\ z + TopFoot <= End(h.segs[i])
  BY <1>1, <1>3 DEF LastOf, Ends
<1>5. z \in Nat
  BY <1>1, <1>4, ChunkFields DEF InHeap
<1>6. CASE i = 1
  BY <1>1, <1>2, <1>4, <1>5, <1>6 DEF Finish
<1>7. CASE i # 1
  <2>1. Finish(h, i) = z + SegmentChunk /\ SegmentChunk \in Nat
    BY <1>4, <1>7, Numbers DEF Finish
  <2>2. Finish(h, i) \in Nat /\ z <= Finish(h, i) /\ Finish(h, i) = z + h.chunk[z].size
    BY <1>4, <1>5, <1>7, <2>1
  <2> QED
    BY <1>1, <1>2, <1>4, <1>5, <1>7, <2>2
<1> QED
  BY <1>6, <1>7

\* A fence post stands behind a record.
LEMMA FencesAre ==
  ASSUME NEW h, NEW L, Sound(h, L, {})
  PROVE  \A x : x \in Fences(h) <=> \E i \in 2 .. Len(h.segs) : x = Finish(h, i)
<1> DEFINE S == h.segs
<1>1. S \in Seq(Segment) /\ Len(S) >= 1
  BY DEF Sound, Shape, Segments
<1>2. Len(S) \in Nat /\ DOMAIN S = 1 .. Len(S)
  BY <1>1
<1>3. Tail(S) \in Seq(Segment) /\ Len(Tail(S)) = Len(S) - 1
      /\ \A i \in 1 .. Len(S) - 1 : Tail(S)[i] = S[i + 1]
  BY <1>1
<1>4. DOMAIN Tail(S) = 1 .. Len(S) - 1
  BY <1>3
<1>5. \A i \in 2 .. Len(S) : NextChunk(h, S[i].rec) = Finish(h, i)
  <2> SUFFICES ASSUME NEW i \in 2 .. Len(S) PROVE NextChunk(h, S[i].rec) = Finish(h, i)
    OBVIOUS
  <2>1. i \in DOMAIN S /\ i # 1
    BY <1>2
  <2> QED
    BY <2>1, LastFields DEF NextChunk, SizeOf
<1>6. ASSUME NEW x \in Fences(h) PROVE \E i \in 2 .. Len(S) : x = Finish(h, i)
  <2>1. PICK i \in 1 .. Len(S) - 1 : x = NextChunk(h, Tail(S)[i].rec)
    BY <1>4, <1>6 DEF Fences, Range
  <2>2. i + 1 \in 2 .. Len(S) /\ Tail(S)[i] = S[i + 1]
    BY <1>2, <1>3, <2>1
  <2> QED
    BY <1>5, <2>1, <2>2
<1>7. ASSUME NEW i \in 2 .. Len(S) PROVE Finish(h, i) \in Fences(h)
  <2>1. i - 1 \in 1 .. Len(S) - 1 /\ (i - 1) + 1 = i
    BY <1>2
  <2>2. Tail(S)[i - 1] = S[i]
    BY <1>3, <2>1
  <2> QED
    BY <1>4, <1>5, <2>1, <2>2 DEF Fences, Range
<1> QED
  BY <1>6, <1>7

\* The loop over a segment ends at the top or at the fence post, and not before.
LEMMA StopsAt ==
  ASSUME NEW h, NEW L, Sound(h, L, {}), NEW i \in DOMAIN h.segs
  PROVE  /\ Stops(h, h.segs[i], Finish(h, i))
         /\ \A a \in InHeap(h.chunk) :
              Holds(h.segs[i], a) => (Stops(h, h.segs[i], a) <=> a = h.top)
<1> DEFINE S == h.segs
<1>1. i \in Nat /\ i >= 1 /\ i <= Len(S) /\ Len(S) \in Nat /\ DOMAIN S = 1 .. Len(S) /\ Segments(S)
  BY LastFields
<1>2. Stops(h, S[i], Finish(h, i))
  <2>1. CASE i = 1
    BY <2>1 DEF Stops, Finish
  <2>2. CASE i # 1
    <3>1. i \in 2 .. Len(S)
      BY <1>1, <2>2
    <3> QED
      BY <3>1, FencesAre DEF Stops
  <2> QED
    BY <2>1, <2>2
<1>3. ASSUME NEW a \in InHeap(h.chunk), Holds(S[i], a), a \in Fences(h) PROVE FALSE
  <2>1. PICK j \in 2 .. Len(S) : a = Finish(h, j)
    BY <1>3, FencesAre
  <2>2. j \in DOMAIN S /\ j # 1
    BY <1>1, <2>1
  <2> DEFINE z == LastOf(S, j, h.top)
  <2>3. /\ Holds(S[j], z) /\ z \in Nat /\ z + TopFoot <= End(S[j]) /\ h.chunk[z].size = SegmentChunk
        /\ a = z + SegmentChunk /\ a \in Nat
    BY <2>1, <2>2, LastFields
  <2> HIDE DEF z
  <2>4. S[j].base \in Nat /\ S[j].size \in Nat
    BY <1>1, <2>2, SegmentFields
  <2>5. Holds(S[j], a)
    BY <2>3, <2>4, Numbers DEF Holds, End
  <2>6. a <= z
    BY <1>3, <2>2, <2>5, Neighbours DEF z
  <2> QED
    BY <2>3, <2>6, Numbers
<1>4. ASSUME NEW a \in InHeap(h.chunk), Holds(S[i], a) PROVE Stops(h, S[i], a) <=> a = h.top
  BY <1>3, <1>4 DEF Stops, InHeap
<1> QED
  BY <1>2, <1>4

\* A sequence with one more in front.
LEMMA InFront ==
  ASSUME NEW a \in Nat, NEW q \in Seq(Nat), NEW w, w = <<a>> \o q
  PROVE  /\ w \in Seq(Nat) /\ Len(w) = Len(q) + 1 /\ Len(q) \in Nat
         /\ DOMAIN w = 1 .. Len(q) + 1 /\ DOMAIN q = 1 .. Len(q)
         /\ w[1] = a /\ \A k \in 1 .. Len(q) : w[k + 1] = q[k]
<1>1. <<a>> \in Seq(Nat) /\ Len(<<a>>) = 1 /\ <<a>>[1] = a
  OBVIOUS
<1>2. w \in Seq(Nat) /\ Len(w) = 1 + Len(q) /\ Len(q) \in Nat
  BY <1>1
<1>3. w[1] = a
  BY <1>1, <1>2
<1>4. \A k \in 1 .. Len(q) : w[k + 1] = q[k]
  BY <1>1, <1>2
<1>5. DOMAIN w = 1 .. Len(w) /\ DOMAIN q = 1 .. Len(q)
  BY <1>2
<1> QED
  BY <1>2, <1>3, <1>4, <1>5

\* One turn of the loop, if f says what it comes by from there on.
Turn(f, h, s, a) ==
  IF Stops(h, s, a) THEN [seen |-> <<>>, sum |-> 0]
  ELSE [seen |-> <<a>> \o f[NextChunk(h, a)].seen, sum |-> SizeOf(h, a) + f[NextChunk(h, a)].sum]

TurnsFrom(f, h, s, m) == f = [a \in {b \in Nat : b >= m} |-> Turn(f, h, s, a)]

\* The recursion of Traverse defines a function: addresses grow up to the segment's end.
LEMMA TraverseExists ==
  ASSUME NEW h, Heads(h.chunk), NEW s, s.base \in Nat, s.size \in Nat
  PROVE  \E f : TurnsFrom(f, h, s, 0)
<1> DEFINE end == s.base + s.size
           bad == {k \in Nat : k <= end /\ ~\E f : TurnsFrom(f, h, s, end - k)}
<1>1. end \in Nat
  OBVIOUS
<1>2. \A a \in Nat : a >= end => Stops(h, s, a)
  BY DEF Stops, Holds
<1>3. \A a \in Nat : ~Stops(h, s, a) => NextChunk(h, a) \in Nat /\ NextChunk(h, a) > a
  BY ChunkFields DEF Stops, NextChunk, SizeOf
<1> HIDE DEF end
<1>4. bad = {}
  <2> SUFFICES ASSUME bad # {} PROVE FALSE
    OBVIOUS
  <2>1. PICK k \in bad : \A n \in bad : k <= n
    <3>1. bad \in SUBSET Nat
      OBVIOUS
    <3> HIDE DEF bad
    <3> QED
      BY <3>1, Least
  <2>2. k \in Nat /\ k <= end /\ ~\E f : TurnsFrom(f, h, s, end - k)
    BY <2>1
  <2> DEFINE m == end - k
  <2>3. m \in Nat /\ m <= end
    BY <1>1, <2>2
  <2>4. CASE k = 0
    <3> DEFINE D == {b \in Nat : b >= m}
               f == [a \in D |-> [seen |-> <<>>, sum |-> 0]]
    <3>1. \A a \in D : Stops(h, s, a)
      BY <1>1, <1>2, <2>4
    <3> HIDE DEF m, D
    <3>2. \A a \in D : f[a] = Turn(f, h, s, a)
      BY <3>1 DEF Turn
    <3>3. f = [a \in D |-> f[a]]
      OBVIOUS
    <3> HIDE DEF f
    <3>4. f = [a \in D |-> Turn(f, h, s, a)]
      BY <3>2, <3>3
    <3> QED
      BY <2>2, <3>4 DEF TurnsFrom, D, m
  <2>5. CASE k # 0
    <3>1. k - 1 \in Nat /\ k - 1 <= end /\ k - 1 \notin bad /\ end - (k - 1) = m + 1
      BY <1>1, <2>1, <2>2, <2>5
    <3>2. PICK f : TurnsFrom(f, h, s, m + 1)
      BY <3>1
    <3> HIDE DEF m, bad
    <3> DEFINE D == {b \in Nat : b >= m}
               g == [a \in D |-> IF a > m THEN f[a] ELSE Turn(f, h, s, a)]
    <3>3. \A a \in D : a > m => g[a] = f[a]
      OBVIOUS
    <3>4. g[m] = Turn(f, h, s, m)
      BY <2>3
    <3>5. g = [a \in D |-> g[a]]
      OBVIOUS
    <3> HIDE DEF g
    <3>6. ASSUME NEW a \in D PROVE Turn(g, h, s, a) = Turn(f, h, s, a)
      <4>1. CASE Stops(h, s, a)
        BY <4>1 DEF Turn
      <4>2. CASE ~Stops(h, s, a)
        <5>1. NextChunk(h, a) \in D /\ NextChunk(h, a) > m
          BY <1>3, <2>3, <4>2
        <5>2. g[NextChunk(h, a)] = f[NextChunk(h, a)]
          BY <3>3, <5>1
        <5> QED
          BY <5>2 DEF Turn
      <4> QED
        BY <4>1, <4>2
    <3>7. ASSUME NEW a \in D PROVE g[a] = Turn(g, h, s, a)
      <4>1. CASE a > m
        <5>1. a \in {b \in Nat : b >= m + 1}
          BY <2>3, <4>1
        <5>2. f[a] = Turn(f, h, s, a)
          BY ONLY <3>2, <5>1 DEF TurnsFrom
        <5> QED
          BY <3>3, <3>6, <4>1, <5>2
      <4>2. CASE ~(a > m)
        <5>1. a = m
          BY <2>3, <4>2
        <5> QED
          BY <3>4, <3>6, <5>1
      <4> QED
        BY <4>1, <4>2
    <3>8. g = [a \in D |-> Turn(g, h, s, a)]
      BY <3>5, <3>7
    <3> QED
      BY <2>2, <3>8 DEF TurnsFrom, D, m
  <2> QED
    BY <2>4, <2>5
<1>5. end \notin bad /\ end - end = 0
  BY <1>1, <1>4
<1> QED
  BY <1>1, <1>5

\* It is what Traverse returns.
LEMMA TraverseIs ==
  ASSUME NEW h, Heads(h.chunk), NEW s, s.base \in Nat, s.size \in Nat
  PROVE  \E f : (\A a \in Nat : f[a] = Turn(f, h, s, a)) /\ Traverse(h, s) = f[s.base]
<1> DEFINE f == CHOOSE f : f = [a \in Nat |-> Turn(f, h, s, a)]
<1>1. \E g : g = [a \in Nat |-> Turn(g, h, s, a)]
  <2>1. PICK g : TurnsFrom(g, h, s, 0)
    BY TraverseExists
  <2>2. {b \in Nat : b >= 0} = Nat
    OBVIOUS
  <2> QED
    BY <2>1, <2>2 DEF TurnsFrom
<1>2. f = [a \in Nat |-> Turn(f, h, s, a)]
  BY <1>1
<1>3. Traverse(h, s) = f[s.base]
  BY DEF Traverse, Turn
<1> HIDE DEF f
<1>4. \A a \in Nat : f[a] = Turn(f, h, s, a)
  BY ONLY <1>2
<1> QED
  BY <1>3, <1>4

\* What the loop comes by from chunk a on: one chunk behind the other, up to where it ends.
Trail(h, i, a, x) ==
  /\ x.sum = Finish(h, i) - a
  /\ x.seen \in Seq(Nat) /\ (Len(x.seen) > 0 => x.seen[1] = a)
  /\ \A k \in 1 .. Len(x.seen) :
      /\ x.seen[k] \in InHeap(h.chunk) /\ Holds(h.segs[i], x.seen[k]) /\ x.seen[k] # h.top
      /\ k # 1 => x.seen[k - 1] \in DOMAIN h.chunk
                    /\ x.seen[k - 1] + h.chunk[x.seen[k - 1]].size = x.seen[k]

\* A turn at a chunk puts it in front of the trail that starts behind it.
LEMMA TrailMore ==
  ASSUME NEW h, NEW L, Sound(h, L, {}), NEW i \in DOMAIN h.segs, NEW a \in InHeap(h.chunk),
         Holds(h.segs[i], a), a # h.top, NEW f, Trail(h, i, NextChunk(h, a), f[NextChunk(h, a)])
  PROVE  Trail(h, i, a, Turn(f, h, h.segs[i], a))
<1> DEFINE n == NextChunk(h, a)
           q == f[n].seen
           x == Turn(f, h, h.segs[i], a)
<1>1. a \in DOMAIN h.chunk /\ a \in Nat /\ n \in Nat /\ n = a + h.chunk[a].size /\ h.chunk[a].size \in Nat
  BY Neighbours DEF NextChunk, SizeOf
<1>2. ~Stops(h, h.segs[i], a)
  BY StopsAt
<1>3. x.seen = <<a>> \o q /\ x.sum = h.chunk[a].size + f[n].sum
  BY <1>2 DEF Turn, SizeOf
<1>4. Finish(h, i) \in Nat
  BY LastFields
<1>5. x.sum = Finish(h, i) - a
  <2>1. f[n].sum = Finish(h, i) - n
    BY DEF Trail
  <2> HIDE DEF n, x
  <2> QED
    BY <1>1, <1>3, <1>4, <2>1
<1>6. q \in Seq(Nat)
  BY DEF Trail
<1> DEFINE w == x.seen
<1>7. /\ w \in Seq(Nat) /\ Len(w) = Len(q) + 1 /\ Len(q) \in Nat /\ w[1] = a
      /\ \A k \in 1 .. Len(q) : w[k + 1] = q[k]
  <2> HIDE DEF x, q
  <2> QED
    BY <1>1, <1>3, <1>6, InFront
<1>8. /\ Len(q) > 0 => q[1] = n
      /\ \A k \in 1 .. Len(q) :
          /\ q[k] \in InHeap(h.chunk) /\ Holds(h.segs[i], q[k]) /\ q[k] # h.top
          /\ k # 1 => q[k - 1] \in DOMAIN h.chunk /\ q[k - 1] + h.chunk[q[k - 1]].size = q[k]
  BY DEF Trail
<1> HIDE DEF n, x, q, w
<1>9. ASSUME NEW k \in 1 .. Len(w)
      PROVE  /\ w[k] \in InHeap(h.chunk) /\ Holds(h.segs[i], w[k]) /\ w[k] # h.top
             /\ k # 1 => w[k - 1] \in DOMAIN h.chunk /\ w[k - 1] + h.chunk[w[k - 1]].size = w[k]
  <2>1. CASE k = 1
    BY <1>7, <2>1
  <2>2. CASE k # 1
    <3> DEFINE j == k - 1
    <3>1. j \in 1 .. Len(q) /\ j + 1 = k
      BY <1>7, <2>2
    <3>2. w[k] = q[j]
      BY <1>7, <3>1
    <3>3. w[j] \in DOMAIN h.chunk /\ w[j] + h.chunk[w[j]].size = w[k]
      <4>1. CASE j = 1
        BY <1>1, <1>7, <1>8, <3>1, <3>2, <4>1
      <4>2. CASE j # 1
        <5>1. j - 1 \in 1 .. Len(q) /\ (j - 1) + 1 = j
          BY <1>7, <3>1, <4>2
        <5>2. w[j] = q[j - 1]
          BY <1>7, <5>1
        <5> HIDE DEF j
        <5> QED
          BY <1>8, <3>1, <3>2, <4>2, <5>2
      <4> QED
        BY <4>1, <4>2
    <3> HIDE DEF j
    <3>4. w[k] \in InHeap(h.chunk) /\ Holds(h.segs[i], w[k]) /\ w[k] # h.top
      BY <1>8, <3>1, <3>2
    <3> QED
      BY <3>3, <3>4 DEF j
  <2> QED
    BY <2>1, <2>2
<1>10. Trail(h, i, a, x)
  BY <1>5, <1>7, <1>9 DEF Trail, w
<1> QED
  BY <1>10 DEF x

\* The loop over a segment comes by chunks one behind the other, from its base to its end.
LEMMA Traversal ==
  ASSUME NEW h, NEW L, Sound(h, L, {}), NEW i \in DOMAIN h.segs
  PROVE  Trail(h, i, h.segs[i].base, Traverse(h, h.segs[i]))
<1> DEFINE s == h.segs[i]
           F == Finish(h, i)
           at(a) == a = F \/ (a \in InHeap(h.chunk) /\ Holds(s, a))
<1>1. /\ Heads(h.chunk) /\ s.base \in Nat /\ s.size \in Nat /\ s.size > 0
      /\ s.base \in InHeap(h.chunk) /\ F \in Nat
  <2>1. Heads(h.chunk) /\ Segments(h.segs) /\ s.base \in InHeap(h.chunk)
    BY DEF Sound, Shape
  <2> QED
    BY <2>1, SegmentFields, LastFields
<1>2. PICK f : (\A a \in Nat : f[a] = Turn(f, h, s, a)) /\ Traverse(h, s) = f[s.base]
  BY <1>1, TraverseIs
<1>3. \A a \in Nat : at(a) => a <= F
  <2>1. LastOf(h.segs, i, h.top) \in Nat /\ LastOf(h.segs, i, h.top) <= F
    BY LastFields
  <2>2. \A a \in InHeap(h.chunk) : Holds(s, a) => a <= LastOf(h.segs, i, h.top)
    BY Neighbours
  <2> HIDE DEF F, s
  <2> QED
    BY <1>1, <2>1, <2>2
<1>4. \A a \in Nat : at(a) /\ a # F /\ a # h.top =>
        NextChunk(h, a) \in Nat /\ NextChunk(h, a) > a /\ at(NextChunk(h, a))
  <2> SUFFICES ASSUME NEW a \in Nat, a \in InHeap(h.chunk), Holds(s, a), a # h.top
               PROVE  NextChunk(h, a) \in Nat /\ NextChunk(h, a) > a /\ at(NextChunk(h, a))
    OBVIOUS
  <2> DEFINE n == a + h.chunk[a].size
  <2>1. /\ n \in Nat /\ n > a
        /\ a # LastOf(h.segs, i, h.top) => n \in InHeap(h.chunk) /\ Holds(s, n)
    BY Neighbours
  <2>2. a = LastOf(h.segs, i, h.top) => n = F
    BY LastFields
  <2> QED
    BY <2>1, <2>2 DEF NextChunk, SizeOf
<1>5. \A a \in Nat : at(a) /\ (a = F \/ a = h.top) => Stops(h, s, a) /\ a = F
  <2>1. Stops(h, s, F) /\ (\A a \in InHeap(h.chunk) : Holds(s, a) => (Stops(h, s, a) <=> a = h.top))
    BY StopsAt
  <2>2. ASSUME h.top \in InHeap(h.chunk), Holds(s, h.top) PROVE h.top = F
    <3>1. 1 \in DOMAIN h.segs /\ Holds(h.segs[1], h.top) /\ h.top \in Nat /\ Segments(h.segs)
      BY TopFields DEF Sound, Shape
    <3>2. i = 1
      BY <2>2, <3>1, OneSegment
    <3> QED
      BY <3>2 DEF Finish
  <2> QED
    BY <2>1, <2>2
<1> DEFINE bad == {k \in Nat : \E a \in Nat : at(a) /\ k = F - a /\ ~Trail(h, i, a, f[a])}
<1>6. bad = {}
  <2> SUFFICES ASSUME bad # {} PROVE FALSE
    OBVIOUS
  <2>1. PICK k \in bad : \A n \in bad : k <= n
    <3>1. bad \in SUBSET Nat
      OBVIOUS
    <3> HIDE DEF bad
    <3> QED
      BY <3>1, Least
  <2>2. PICK a \in Nat : at(a) /\ k = F - a /\ ~Trail(h, i, a, f[a]) /\ k \in Nat
    BY <2>1
  <2>3. f[a] = Turn(f, h, s, a)
    BY <1>2
  <2>4. CASE a = F \/ a = h.top
    <3>1. Stops(h, s, a) /\ a = F
      BY <1>5, <2>2, <2>4
    <3>2. f[a].seen = <<>> /\ f[a].sum = 0
      BY <2>3, <3>1 DEF Turn
    <3> QED
      BY <1>1, <2>2, <3>1, <3>2 DEF Trail
  <2>5. CASE a # F /\ a # h.top
    <3> DEFINE n == NextChunk(h, a)
    <3>1. n \in Nat /\ n > a /\ at(n) /\ n <= F
      BY <1>3, <1>4, <2>2, <2>5
    <3>2. F - n \in Nat /\ F - n < k
      BY <1>1, <2>2, <3>1
    <3>3. F - n \notin bad
      BY <2>1, <2>2, <3>2
    <3>4. Trail(h, i, n, f[n])
      BY <3>1, <3>2, <3>3
    <3>5. a \in InHeap(h.chunk) /\ Holds(s, a)
      BY <2>2, <2>5
    <3> QED
      BY <2>2, <2>3, <2>5, <3>4, <3>5, TrailMore
  <2> QED
    BY <2>4, <2>5
<1>7. Holds(s, s.base)
  BY <1>1 DEF Holds
<1>8. F - s.base \in Nat /\ F - s.base \notin bad
  BY <1>1, <1>3, <1>6, <1>7
<1>9. Trail(h, i, s.base, f[s.base])
  BY <1>1, <1>7, <1>8
<1> QED
  BY <1>2, <1>9

\* The search for a chunk in the bins finds those that are binned.
LEMMA FoundBinned ==
  ASSUME NEW h, NEW L, Sound(h, L, {}), NEW a \in DOMAIN h.chunk
  PROVE  BinFind(h, a) <=> a \in Binned_(h.small, h.tree)
<1>1. Placed(h.chunk, h.small, h.tree, h.dv, h.top, {})
  BY DEF Sound
<1>2. \A n \in SmallSizes : \A b \in Range(h.small[n]) : h.chunk[b].size = n
  BY <1>1 DEF Placed
<1>3. \A b \in h.tree : h.chunk[b].size >= SmallLimit
  BY <1>1 DEF Placed
<1> QED
  BY <1>2, <1>3, BinnedHas DEF BinFind, SizeOf

\* A chunk in use passes its check.
LEMMA UsedPasses ==
  ASSUME NEW h, NEW L, Sound(h, L, {}), NEW i \in DOMAIN h.segs,
         NEW a \in InHeap(h.chunk), Holds(h.segs[i], a), h.chunk[a].cin
  PROVE  InUse(h.chunk[a]) /\ CheckInUse(h, a) /\ ~BinFind(h, a)
<1> DEFINE n == a + h.chunk[a].size
           z == LastOf(h.segs, i, h.top)
<1>1. /\ a \in DOMAIN h.chunk /\ a \in Nat /\ n \in Nat /\ a < n
      /\ a # z => n \in InHeap(h.chunk) /\ Tells(h.chunk, a, n, h.state)
      /\ a # h.segs[i].base =>
           \E b \in InHeap(h.chunk) : b + h.chunk[b].size = a /\ Holds(h.segs[i], b)
  BY Neighbours
<1>2. \A b \in DOMAIN h.chunk : (\E j \in DOMAIN h.segs : Holds(h.segs[j], b)) <=> b \in InHeap(h.chunk)
  BY DEF Sound, Shape
<1>3. Placed(h.chunk, h.small, h.tree, h.dv, h.top, {}) /\ h.chunk[h.segs[i].base].pin /\ Segments(h.segs)
  BY DEF Sound, Shape
<1>4. NextPinned(h, a)
  <2>1. CASE a # z
    <3>1. h.chunk[n].pin = h.chunk[a].cin
      BY <1>1, <2>1 DEF Tells
    <3> QED
      BY <3>1 DEF NextPinned, NextChunk, SizeOf
  <2>2. CASE a = z
    <3>1. /\ i # 1 /\ h.chunk[a].size = SegmentChunk /\ a + TopFoot <= End(h.segs[i]) /\ n = a + SegmentChunk
      BY <2>2, LastFields
    <3>2. Holds(h.segs[i], n)
      BY <1>1, <1>3, <3>1, SegmentFields, Numbers DEF Holds
    <3>3. n \notin InHeap(h.chunk)
      <4>1. ASSUME n \in InHeap(h.chunk) PROVE FALSE
        <5>1. n <= z
          BY <3>2, <4>1, Neighbours
        <5> QED
          BY <1>1, <2>2, <5>1
      <4> QED
        BY <4>1
    <3>4. n \notin DOMAIN h.chunk
      BY <1>2, <3>2, <3>3
    <3> QED
      BY <3>4 DEF NextPinned, NextChunk, SizeOf
  <2> QED
    BY <2>1, <2>2
<1>5. h.chunk[a].pin \/ NextChunk(h, a - h.chunk[a].foot) = a
  <2>1. CASE ~h.chunk[a].pin
    <3> DEFINE b == a - h.chunk[a].foot
    <3>1. b + h.chunk[b].size = a
      BY <2>1, Predecessor
    <3> QED
      BY <3>1 DEF NextChunk, SizeOf
  <2> QED
    BY <2>1
<1>6. InUse(h.chunk[a]) /\ ~IsMapped(h.chunk[a])
  BY DEF InUse, IsMapped
<1>7. CheckInUse(h, a)
  BY <1>4, <1>5, <1>6 DEF CheckInUse
<1>8. ~BinFind(h, a)
  <2>1. a \notin Idle_(h.chunk)
    BY DEF Idle_
  <2>2. a \notin Binned_(h.small, h.tree)
    BY <1>3, <2>1 DEF Placed
  <2> QED
    BY <1>1, <2>2, FoundBinned
<1> QED
  BY <1>6, <1>7, <1>8

\* So does a free one that is not the top; and what is behind it is in use.
LEMMA FreePasses ==
  ASSUME NEW h, NEW L, Sound(h, L, {}), NEW i \in DOMAIN h.segs,
         NEW a \in InHeap(h.chunk), Holds(h.segs[i], a), ~h.chunk[a].cin, a # h.top
  PROVE  /\ ~InUse(h.chunk[a]) /\ CheckFree(h, a) /\ h.chunk[a].size >= MinChunk
         /\ a = h.dv \/ BinFind(h, a)
         /\ NextChunk(h, a) \in InHeap(h.chunk) /\ Holds(h.segs[i], NextChunk(h, a))
         /\ h.chunk[NextChunk(h, a)].cin
<1> DEFINE n == a + h.chunk[a].size
<1>1. a # LastOf(h.segs, i, h.top)
  BY LastFields
<1>2. /\ a \in DOMAIN h.chunk /\ h.chunk[a].size >= MinChunk /\ n \in InHeap(h.chunk)
      /\ Holds(h.segs[i], n) /\ Tells(h.chunk, a, n, h.state)
  BY <1>1, Neighbours
<1>3. h.chunk[a].pin
  BY DEF InHeap
<1>4. /\ h.chunk[n].pin = h.chunk[a].cin /\ h.chunk[n].cin /\ h.chunk[n].foot = h.chunk[a].size
  BY <1>2 DEF Tells
<1>5. NextChunk(h, a) = n
  BY DEF NextChunk, SizeOf
<1>6. ~InUse(h.chunk[a]) /\ InUse(h.chunk[n])
  BY <1>3, <1>4 DEF InUse
<1> HIDE DEF n
<1>7. CheckFree(h, a)
  BY <1>2, <1>3, <1>4, <1>5, <1>6 DEF CheckFree
<1>8. a = h.dv \/ BinFind(h, a)
  <2>1. Placed(h.chunk, h.small, h.tree, h.dv, h.top, {})
    BY DEF Sound
  <2>2. a \in Idle_(h.chunk)
    BY <1>2, <1>3 DEF Idle_
  <2>3. a = h.dv \/ a \in Binned_(h.small, h.tree)
    BY <2>1, <2>2 DEF Placed
  <2> QED
    BY <1>2, <2>3, FoundBinned
<1> QED
  BY <1>2, <1>4, <1>5, <1>6, <1>7, <1>8

\* So does every chunk of a small bin.
LEMMA BinPasses ==
  ASSUME NEW h, NEW L, Sound(h, L, {}), NEW n \in SmallSizes
  PROVE  CheckSmallBin(h, n)
<1>1. /\ Placed(h.chunk, h.small, h.tree, h.dv, h.top, {})
      /\ Shape(h.chunk, h.segs, h.top, h.state)
  BY DEF Sound
<1> SUFFICES ASSUME NEW a \in Range(h.small[n])
             PROVE  /\ CheckFree(h, a) /\ SizeOf(h, a) = n
                    /\ NextChunk(h, a) \notin Fences(h) => CheckInUse(h, NextChunk(h, a))
  BY DEF CheckSmallBin
<1>2. a \in Binned_(h.small, h.tree)
  BY BinnedHas
<1>3. a \in Idle_(h.chunk) /\ a # h.top
  BY <1>1, <1>2 DEF Placed
<1>4. a \in DOMAIN h.chunk /\ a \in InHeap(h.chunk) /\ ~h.chunk[a].cin
  BY <1>3 DEF Idle_, InHeap
<1>5. PICK i \in DOMAIN h.segs : Holds(h.segs[i], a)
  BY <1>1, <1>4 DEF Shape
<1>6. SizeOf(h, a) = n
  BY <1>1 DEF Placed, SizeOf
<1>7. /\ CheckFree(h, a) /\ NextChunk(h, a) \in InHeap(h.chunk)
      /\ Holds(h.segs[i], NextChunk(h, a)) /\ h.chunk[NextChunk(h, a)].cin
  BY <1>3, <1>4, <1>5, FreePasses
<1>8. CheckInUse(h, NextChunk(h, a))
  BY <1>5, <1>7, UsedPasses
<1> QED
  BY <1>6, <1>7, <1>8

\* So does a segment.
LEMMA SegmentPasses ==
  ASSUME NEW h, NEW L, Sound(h, L, {}), NEW i \in DOMAIN h.segs
  PROVE  CheckSegment(h, h.segs[i])
<1> DEFINE s == h.segs[i]
           w == Traverse(h, s).seen
<1>1. /\ w \in Seq(Nat) /\ (Len(w) > 0 => w[1] = s.base)
      /\ \A k \in 1 .. Len(w) :
          /\ w[k] \in InHeap(h.chunk) /\ Holds(s, w[k]) /\ w[k] # h.top
          /\ k # 1 => w[k - 1] \in DOMAIN h.chunk /\ w[k - 1] + h.chunk[w[k - 1]].size = w[k]
  BY Traversal DEF Trail
<1>2. DOMAIN w = 1 .. Len(w) /\ Len(w) \in Nat
  BY <1>1
<1>3. h.chunk[s.base].pin
  BY DEF Sound, Shape
<1> HIDE DEF w
<1>4. ASSUME NEW k \in DOMAIN w
      PROVE  IF InUse(h.chunk[w[k]]) THEN ~BinFind(h, w[k]) /\ CheckInUse(h, w[k])
             ELSE /\ w[k] = h.dv \/ BinFind(h, w[k])
                  /\ k = 1 \/ InUse(h.chunk[w[k - 1]])
                  /\ CheckFree(h, w[k])
  <2> DEFINE a == w[k]
  <2>1. a \in InHeap(h.chunk) /\ Holds(s, a) /\ a # h.top
    BY <1>1, <1>2
  <2>2. CASE h.chunk[a].cin
    BY <2>1, <2>2, UsedPasses
  <2>3. CASE ~h.chunk[a].cin
    <3>1. ~InUse(h.chunk[a]) /\ CheckFree(h, a) /\ (a = h.dv \/ BinFind(h, a))
      BY <2>1, <2>3, FreePasses
    <3>2. CASE k # 1
      <4> DEFINE b == w[k - 1]
      <4>1. k - 1 \in 1 .. Len(w)
        BY <1>2, <3>2
      <4>2. b \in InHeap(h.chunk) /\ Holds(s, b) /\ b # h.top /\ b + h.chunk[b].size = a
        BY <1>1, <1>2, <3>2, <4>1
      <4>3. h.chunk[b].cin
        <5>1. ASSUME ~h.chunk[b].cin PROVE FALSE
          <6>1. NextChunk(h, b) = a
            BY <4>2 DEF NextChunk, SizeOf
          <6>2. h.chunk[NextChunk(h, b)].cin
            BY <4>2, <5>1, FreePasses
          <6> QED
            BY <2>3, <6>1, <6>2
        <5> QED
          BY <5>1
      <4> QED
        BY <3>1, <4>3 DEF InUse
    <3> QED
      BY <3>1, <3>2
  <2> QED
    BY <2>2, <2>3
<1> QED
  BY <1>3, <1>4 DEF CheckSegment, w

\* So do the top and the designated victim.
LEMMA TopPasses ==
  ASSUME NEW h, NEW L, Sound(h, L, {})
  PROVE  CheckTop(h) /\ ~BinFind(h, h.top)
<1>1. /\ h.top \in DOMAIN h.chunk /\ h.topsize = h.chunk[h.top].size /\ h.topsize > 0
      /\ h.chunk[h.top].pin /\ 1 \in DOMAIN h.segs /\ Holds(h.segs[1], h.top) /\ h.top \in Nat
      /\ h.topsize \in Nat /\ h.top + h.topsize = End(h.segs[1]) - TopFoot /\ End(h.segs[1]) \in Nat
  BY TopFields
<1>2. Segments(h.segs) /\ Placed(h.chunk, h.small, h.tree, h.dv, h.top, {})
  BY DEF Sound, Shape
<1>3. \A x \in Range(h.segs) : Holds(x, h.top) => x = h.segs[1]
  <2> SUFFICES ASSUME NEW j \in DOMAIN h.segs, Holds(h.segs[j], h.top) PROVE h.segs[j] = h.segs[1]
    BY DEF Range
  <2>1. j = 1
    BY <1>1, <1>2, OneSegment
  <2> QED
    BY <2>1
<1>4. h.segs[1] \in Range(h.segs)
  BY <1>1 DEF Range
<1>5. (CHOOSE x \in Range(h.segs) : Holds(x, h.top)) = h.segs[1]
  BY <1>1, <1>3, <1>4
<1>6. h.topsize = End(h.segs[1]) - h.top - TopFoot
  BY <1>1, Numbers
<1>7. CheckTop(h)
  BY <1>1, <1>4, <1>5, <1>6 DEF CheckTop, SizeOf
<1>8. h.top \notin Binned_(h.small, h.tree)
  BY <1>2 DEF Placed
<1> QED
  BY <1>1, <1>7, <1>8, FoundBinned

LEMMA VictimPasses ==
  ASSUME NEW h, NEW L, Sound(h, L, {}), h.dvsize # 0
  PROVE  h.dvsize = SizeOf(h, h.dv) /\ h.dvsize >= MinChunk /\ ~BinFind(h, h.dv)
<1>1. /\ Placed(h.chunk, h.small, h.tree, h.dv, h.top, {})
      /\ Sizes(h.chunk, h.dv, h.dvsize, h.top, h.topsize)
      /\ Shape(h.chunk, h.segs, h.top, h.state)
  BY DEF Sound
<1>2. h.dv # 0 /\ h.dvsize = h.chunk[h.dv].size
  BY <1>1 DEF Sizes
<1>3. h.dv \in Idle_(h.chunk) /\ h.dv # h.top /\ h.dv \notin Binned_(h.small, h.tree)
  BY <1>1, <1>2 DEF Placed
<1>4. h.dv \in DOMAIN h.chunk /\ h.dv \in InHeap(h.chunk) /\ ~h.chunk[h.dv].cin
  BY <1>3 DEF Idle_, InHeap
<1>5. PICK i \in DOMAIN h.segs : Holds(h.segs[i], h.dv)
  BY <1>1, <1>4 DEF Shape
<1>6. h.chunk[h.dv].size >= MinChunk
  BY <1>3, <1>4, <1>5, FreePasses
<1> QED
  BY <1>2, <1>3, <1>4, <1>6, FoundBinned DEF SizeOf

\* A running sum of numbers.
LEMMA SumExists ==
  ASSUME NEW m \in Nat, NEW w, NEW start \in Nat, \A i \in 1 .. m : w[i] \in Nat
  PROVE  \E f : f = [i \in 0 .. m |-> IF i = 0 THEN start ELSE f[i - 1] + w[i]]
<1> DEFINE bad == {k \in Nat : k <= m /\ ~\E f :
                     f = [i \in 0 .. k |-> IF i = 0 THEN start ELSE f[i - 1] + w[i]]}
<1>1. bad = {}
  <2> SUFFICES ASSUME bad # {} PROVE FALSE
    OBVIOUS
  <2>1. PICK k \in bad : \A n \in bad : k <= n
    <3>1. bad \in SUBSET Nat
      OBVIOUS
    <3> HIDE DEF bad
    <3> QED
      BY <3>1, Least
  <2>2. /\ k \in Nat /\ k <= m
        /\ ~\E f : f = [i \in 0 .. k |-> IF i = 0 THEN start ELSE f[i - 1] + w[i]]
    BY <2>1
  <2>3. CASE k = 0
    <3> DEFINE f == [i \in 0 .. 0 |-> start]
    <3>1. f = [i \in 0 .. 0 |-> IF i = 0 THEN start ELSE f[i - 1] + w[i]]
      OBVIOUS
    <3> QED
      BY <2>2, <2>3, <3>1
  <2>4. CASE k # 0
    <3> DEFINE j == k - 1
    <3>1. j \in Nat /\ j <= m /\ j < k /\ j + 1 = k /\ j \notin bad
      BY <2>1, <2>2, <2>4
    <3>2. PICK f : f = [i \in 0 .. j |-> IF i = 0 THEN start ELSE f[i - 1] + w[i]]
      BY <3>1
    <3>3. \A i \in 0 .. j : f[i] = IF i = 0 THEN start ELSE f[i - 1] + w[i]
      BY ONLY <3>2
    <3> HIDE DEF j, bad
    <3> DEFINE g == [i \in 0 .. k |-> IF i < k THEN f[i] ELSE f[j] + w[k]]
    <3>4. /\ \A i \in 0 .. k : i < k => g[i] = f[i]
          /\ g[k] = f[j] + w[k] /\ g = [i \in 0 .. k |-> g[i]]
      BY <2>2
    <3> HIDE DEF g
    <3>5. ASSUME NEW i \in 0 .. k PROVE g[i] = IF i = 0 THEN start ELSE g[i - 1] + w[i]
      <4>1. CASE i = 0
        <5>1. i \in 0 .. j /\ i < k
          BY <2>2, <2>4, <3>1, <4>1
        <5> QED
          BY <3>3, <3>4, <4>1, <5>1
      <4>2. CASE i # 0 /\ i < k
        <5>1. i \in 0 .. j /\ i - 1 \in 0 .. k /\ i - 1 < k
          BY <2>2, <3>1, <4>2
        <5> QED
          BY <3>3, <3>4, <4>2, <5>1
      <4>3. CASE i = k
        <5>1. i - 1 = j /\ j \in 0 .. k /\ j < k
          BY <2>2, <3>1, <4>3
        <5> QED
          BY <2>4, <3>4, <4>3, <5>1
      <4> QED
        BY <2>2, <4>1, <4>2, <4>3
    <3>6. g = [i \in 0 .. k |-> IF i = 0 THEN start ELSE g[i - 1] + w[i]]
      BY <3>4, <3>5
    <3> QED
      BY <2>2, <3>6
  <2> QED
    BY <2>3, <2>4
<1>2. m <= m /\ m \notin bad
  BY <1>1
<1> QED
  BY <1>2

\* What the traversal adds up of a segment lies in the segment.
LEMMA SegmentSum ==
  ASSUME NEW h, NEW L, Sound(h, L, {}), NEW i \in DOMAIN h.segs,
         NEW w, w = Traverse(h, h.segs[i]).sum
  PROVE  /\ w \in Nat /\ h.segs[i].size \in Nat /\ w <= h.segs[i].size
         /\ i = 1 => h.topsize + TopFoot + w = h.segs[i].size
<1> DEFINE s == h.segs[i]
           z == LastOf(h.segs, i, h.top)
           F == Finish(h, i)
<1>1. w = F - s.base
  BY Traversal DEF Trail
<1>2. /\ s.base \in Nat /\ s.size \in Nat /\ End(s) = s.base + s.size
  BY SegmentFields DEF Sound, Shape
<1>3. /\ z \in Nat /\ F \in Nat /\ z <= F /\ Holds(s, z)
      /\ i = 1 => z = h.top
      /\ i # 1 => z + TopFoot <= End(s) /\ F = z + SegmentChunk
  BY LastFields
<1>4. s.base <= z
  BY <1>3 DEF Holds
<1>5. CASE i = 1
  <2>1. F = h.top
    BY <1>5 DEF Finish
  <2>2. /\ h.top \in Nat /\ h.topsize \in Nat /\ h.top + h.topsize = End(s) - TopFoot
    BY <1>5, TopFields
  <2> HIDE DEF F, s, z
  <2>3. h.topsize + TopFoot + w = s.size /\ w \in Nat
    BY <1>1, <1>2, <1>3, <1>4, <1>5, <2>1, <2>2, Numbers
  <2> QED
    BY <1>2, <2>2, <2>3, Numbers DEF s
<1>6. CASE i # 1
  <2> HIDE DEF F, s, z
  <2>1. w \in Nat /\ w <= s.size
    BY <1>1, <1>2, <1>3, <1>4, <1>6, Numbers
  <2> QED
    BY <1>2, <1>6, <2>1 DEF s
<1> QED
  BY <1>5, <1>6

\* All it adds up is memory that the system lends for the segments.
LEMMA SumWithin ==
  ASSUME NEW h, NEW L, Sound(h, L, {})
  PROVE  Traversed(h) <= h.footprint
<1> DEFINE S == h.segs
           m == Len(S)
           w == [i \in 1 .. m |-> Traverse(h, S[i]).sum]
           start == h.topsize + TopFoot
           gone == Range(S)
<1>1. S \in Seq(Segment) /\ m \in Nat /\ m >= 1 /\ DOMAIN S = 1 .. m
  <2>1. S \in Seq(Segment) /\ m >= 1
    BY DEF Sound, Shape, Segments
  <2> QED
    BY <2>1
<1>2. \A i \in 1 .. m : /\ w[i] = Traverse(h, S[i]).sum /\ w[i] \in Nat /\ S[i].size \in Nat
                        /\ w[i] <= S[i].size /\ (i = 1 => start + w[i] = S[i].size)
  BY <1>1, SegmentSum
<1>3. start \in Nat
  BY TopFields, Numbers
<1>4. \E f : f = [i \in 0 .. m |-> IF i = 0 THEN start ELSE f[i - 1] + Traverse(h, S[i]).sum]
  <2>1. PICK f : f = [i \in 0 .. m |-> IF i = 0 THEN start ELSE f[i - 1] + w[i]]
    <3> HIDE DEF w, start, m
    <3> QED
      BY <1>1, <1>2, <1>3, SumExists
  <2>2. \A i \in 0 .. m : i # 0 => w[i] = Traverse(h, S[i]).sum
    BY <1>1
  <2> HIDE DEF w, start, m
  <2>3. f = [i \in 0 .. m |-> IF i = 0 THEN start ELSE f[i - 1] + Traverse(h, S[i]).sum]
    BY <2>1, <2>2
  <2> QED
    BY <2>3
<1> DEFINE f == CHOOSE f : f = [i \in 0 .. m |-> IF i = 0 THEN start ELSE f[i - 1] + Traverse(h, S[i]).sum]
<1>5. f = [i \in 0 .. m |-> IF i = 0 THEN start ELSE f[i - 1] + Traverse(h, S[i]).sum]
  BY <1>4
<1>6. Traversed(h) = f[m]
  BY DEF Traversed
<1> HIDE DEF f
<1>7. f[0] = start /\ \A i \in 1 .. m : f[i] = f[i - 1] + w[i]
  <2>1. \A i \in 0 .. m : f[i] = IF i = 0 THEN start ELSE f[i - 1] + Traverse(h, S[i]).sum
    BY ONLY <1>5
  <2>2. 0 \in 0 .. m /\ \A i \in 1 .. m : i \in 0 .. m /\ i # 0
    BY <1>1
  <2> HIDE DEF start
  <2> QED
    BY <1>2, <2>1, <2>2
<1>8. PICK r : ReleasedUpTo(r, S, gone, m) /\ Released(S, gone) = r[m]
  BY <1>1, ReleasedIs
<1>9. r[0] = 0 /\ \A i \in 1 .. m : r[i] = r[i - 1] + S[i].size
  <2>1. \A i \in 0 .. m : r[i] = IF i = 0 THEN 0 ELSE r[i - 1] + IF S[i] \in gone THEN S[i].size ELSE 0
    BY ONLY <1>8 DEF ReleasedUpTo
  <2>2. /\ 0 \in 0 .. m
        /\ \A i \in 1 .. m : i \in 0 .. m /\ i # 0 /\ S[i] \in gone
    BY <1>1 DEF Range
  <2> HIDE DEF gone
  <2> QED
    BY <2>1, <2>2
<1> HIDE DEF w, start, gone
<1> DEFINE bad == {k \in Nat : 1 <= k /\ k <= m /\ ~(f[k] \in Nat /\ r[k] \in Nat /\ f[k] <= r[k])}
<1>10. bad = {}
  <2> SUFFICES ASSUME bad # {} PROVE FALSE
    OBVIOUS
  <2>1. PICK k \in bad : \A n \in bad : k <= n
    <3>1. bad \in SUBSET Nat
      OBVIOUS
    <3> HIDE DEF bad
    <3> QED
      BY <3>1, Least
  <2>2. k \in Nat /\ 1 <= k /\ k <= m /\ ~(f[k] \in Nat /\ r[k] \in Nat /\ f[k] <= r[k])
    BY <2>1
  <2>3. k \in 1 .. m /\ f[k] = f[k - 1] + w[k] /\ r[k] = r[k - 1] + S[k].size
    BY <1>1, <1>7, <1>9, <2>2
  <2>4. /\ w[k] \in Nat /\ S[k].size \in Nat /\ w[k] <= S[k].size
        /\ k = 1 => start + w[k] = S[k].size
    BY <1>2, <2>3
  <2>5. CASE k = 1
    <3>1. k - 1 = 0
      BY <2>5
    <3>2. f[k] = start + w[k] /\ r[k] = 0 + S[k].size
      BY <1>7, <1>9, <2>3, <3>1
    <3> HIDE DEF bad, S, m
    <3> QED
      BY <1>3, <2>2, <2>4, <2>5, <3>2
  <2>6. CASE k # 1
    <3> DEFINE j == k - 1
    <3>1. j \in Nat /\ 1 <= j /\ j <= m /\ j < k /\ j \notin bad
      BY <1>1, <2>1, <2>2, <2>6
    <3>2. f[j] \in Nat /\ r[j] \in Nat /\ f[j] <= r[j]
      BY <3>1
    <3>3. f[k] = f[j] + w[k] /\ r[k] = r[j] + S[k].size
      BY <2>3
    <3> HIDE DEF j, bad, S, m
    <3> QED
      BY <2>2, <2>4, <3>2, <3>3
  <2> QED
    BY <2>5, <2>6
<1>11. f[m] \in Nat /\ r[m] \in Nat /\ f[m] <= r[m]
  <2>1. m \notin bad
    BY <1>10
  <2> HIDE DEF m
  <2> QED
    BY <1>1, <2>1
<1>12. Lent(h.chunk, S, h.backed, h.footprint)
  BY DEF Sound
<1>13. Returns(S, gone, h.backed, Len(S), r[m])
  BY <1>1, <1>8, <1>12, ReleasedReturns
<1>14. /\ h.footprint = Granule * Cardinality(h.backed) /\ h.footprint \in Nat
       /\ Granule * Cardinality(h.backed \ GoneUpTo(S, gone, Len(S))) \in Nat
  <2>1. IsFiniteSet(h.backed \ GoneUpTo(S, gone, Len(S)))
    BY <1>12, HeapAssumption, FS_Subset DEF Lent
  <2>2. Cardinality(h.backed \ GoneUpTo(S, gone, Len(S))) \in Nat
    BY <2>1, FS_CardinalityType
  <2>3. h.footprint = Granule * Cardinality(h.backed) /\ h.footprint \in Nat
    BY <1>12, FootprintNat DEF Lent
  <2> DEFINE c == Cardinality(h.backed \ GoneUpTo(S, gone, Len(S)))
  <2>4. Granule * c \in Nat
    <3> HIDE DEF c
    <3> QED
      BY <2>2, Numbers DEF c
  <2> QED
    BY <2>3, <2>4
<1>15. r[m] <= h.footprint
  BY <1>11, <1>13, <1>14 DEF Returns
<1> QED
  BY <1>6, <1>11, <1>14, <1>15

\* Then all the checks pass.
LEMMA StatePasses ==
  ASSUME NEW h, NEW L, Sound(h, L, {})
  PROVE  CheckAllocationState(h)
<1>1. \A s \in Range(h.segs) : CheckSegment(h, s)
  BY SegmentPasses DEF Range
<1> QED
  BY <1>1, BinPasses, TopPasses, VictimPasses, SumWithin DEF CheckAllocationState

\* Whatever the calls do, the allocator's debug checks would find nothing to stop for
\* at any time the lock is free (sm_do_check_allocation_state 1826).
THEOREM UndisturbedChecks ==
  ASSUME ~Remaps, Undisturbed
  PROVE  Spec => []ChecksPass
<1>1. Inv => ChecksPass
  <2> SUFFICES ASSUME Inv PROVE ChecksPass
    OBVIOUS
  <2>1. Sound(heap, DOMAIN live, {})
    BY DEF Inv, Consistent
  <2> QED
    BY <2>1, StatePasses DEF ChecksPass
<1> QED
  BY <1>1, UndisturbedSettled, InvAlways, PTL
=============================================================================
