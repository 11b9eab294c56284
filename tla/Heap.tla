------------------------------- MODULE Heap -------------------------------
(***************************************************************************)
(* One allocator space (allocator_internal.c) as a record, and every call  *)
(* made under its lock as an operator that gives the SET of its outcomes:  *)
(* the only choices left open are those of the system (where it maps       *)
(* memory, whether a call to it fails) and the order of equal tree chunks. *)
(*                                                                         *)
(* Addresses and sizes count 16-byte units (SM_MALLOC_ALIGNMENT); 0 is     *)
(* NULL.  A chunk is known by its address; a.foot is its `previous' field, *)
(* written by the chunk below it.  What lies inside a chunk is user data,  *)
(* so writing a head forgets the heads it covers.  Fence posts and the     *)
(* word behind the top chunk are not kept: nothing reads them but the      *)
(* traversals, which stop there.                                           *)
(***************************************************************************)
EXTENDS Integers, Sequences, FiniteSets, SequencesExt

CONSTANTS
    Granule,        \* units of a page, and of the granularity
    Space,          \* the numbers of the granules the system can map
    SmallLimit,     \* the smallest size the tree bins hold (16 in the code)
    SegmentChunk,   \* size of the chunk of a segment record (3)
    StateChunk,     \* size of the chunk of the space's own state
    MapThreshold,   \* requests this large are mapped directly
    TrimThreshold,  \* a top larger than this is trimmed on free
    ReleaseRate,    \* large frees between two scans for unused segments
    MapFails,       \* mmap may fail
    UnmapFails,     \* munmap (or VirtualFree) may fail
    Remaps          \* mremap is there

MinChunk == 2       \* four words
MapFootPad == 2     \* four words
TopFoot == SegmentChunk + MinChunk
Padding == TopFoot + 1
Never == 2 * Granule * (Cardinality(Space) + 1)  \* SM_MAX_SIZE_T as a threshold
Stamp == 0          \* the footer of a chunk in use: its state, xor the magic

ASSUME HeapAssumption ==
    /\ Granule \in Nat /\ Space \subseteq Nat \ {0} /\ IsFiniteSet(Space)
    /\ SmallLimit \in Nat /\ SmallLimit > MinChunk
    /\ SegmentChunk \in Nat /\ SegmentChunk >= MinChunk
    /\ StateChunk \in Nat /\ StateChunk >= MinChunk
    /\ Granule > StateChunk + TopFoot /\ Granule >= SmallLimit + TopFoot
    /\ {MapThreshold, TrimThreshold} \subseteq Nat /\ MapThreshold >= SmallLimit
    /\ ReleaseRate \in Nat \ {0}
    /\ {MapFails, UnmapFails, Remaps} \subseteq BOOLEAN

SmallSizes == MinChunk .. (SmallLimit - 1)
Larger(x, y) == IF x > y THEN x ELSE y
RoundUp(x, unit) == ((x + unit - 1) \div unit) * unit

\* request_to_size: the payload, one unit of overhead (footers), the minimum.
Pad(r) == Larger(MinChunk, r + 1)

(***************************************************************************)
(* Heads and feet.                                                         *)
(***************************************************************************)
IsMapped(c) == ~c.cin /\ ~c.pin
InUse(c) == c.cin \/ ~c.pin
SizeOf(h, a) == h.chunk[a].size
NextChunk(h, a) == a + SizeOf(h, a)

Put(h, a, n, cin, pin) ==
    LET outside == {b \in DOMAIN h.chunk : b < a \/ b >= a + n}
        foot == IF a \in DOMAIN h.chunk THEN h.chunk[a].foot ELSE Stamp
    IN  [h EXCEPT !.chunk =
            [b \in outside \cup {a} |->
                IF b = a THEN [size |-> n, cin |-> cin, pin |-> pin, foot |-> foot]
                ELSE h.chunk[b]]]

SetFoot(h, a, v) ==
    IF a \in DOMAIN h.chunk THEN [h EXCEPT !.chunk[a].foot = v] ELSE h
SetPin(h, a, v) ==
    IF a \in DOMAIN h.chunk THEN [h EXCEPT !.chunk[a].pin = v] ELSE h

\* sm_set_in_use keeps the chunk's own bit about its predecessor; on a head
\* that was user data the caller's other call sets it, before (Shorten, where
\* the second call is therefore SetInUseWhole) or after (DropLeader).
SetInUse(h, a, n) ==
    LET pin == a \in DOMAIN h.chunk /\ h.chunk[a].pin
    IN  SetFoot(SetPin(Put(h, a, n, TRUE, pin), a + n, TRUE), a + n, Stamp)
SetInUseWhole(h, a, n) ==
    SetFoot(SetPin(Put(h, a, n, TRUE, TRUE), a + n, TRUE), a + n, Stamp)
SetInUsePart(h, a, n) == SetFoot(Put(h, a, n, TRUE, TRUE), a + n, Stamp)

SetFree(h, a, n) == SetFoot(Put(h, a, n, FALSE, TRUE), a + n, n)
SetFreeBefore(h, a, n, next) == SetFree(SetPin(h, next, FALSE), a, n)

(***************************************************************************)
(* Bins.  A small bin is a list, first in front; the tree bins together    *)
(* are the set of their chunks, searched by size.                          *)
(***************************************************************************)
Bin(h, a, n) ==
    IF n < SmallLimit THEN [h EXCEPT !.small[n] = <<a>> \o @]
    ELSE [h EXCEPT !.tree = @ \cup {a}]

Unbin(h, a, n) ==
    IF n < SmallLimit
    THEN [h EXCEPT !.small[n] = RemoveAt(@, CHOOSE i \in DOMAIN @ : @[i] = a)]
    ELSE [h EXCEPT !.tree = @ \ {a}]

ReplaceDv(h, a, n) ==
    [(IF h.dvsize # 0 THEN Bin(h, h.dv, h.dvsize) ELSE h)
        EXCEPT !.dv = a, !.dvsize = n]

SmallestOf(h, S) == {a \in S : \A b \in S : SizeOf(h, a) <= SizeOf(h, b)}

(***************************************************************************)
(* Segments.  segs[1] is state->segment: the one that holds the top.       *)
(* rec is the address of the segment's own record.                         *)
(***************************************************************************)
Holds(s, a) == s.base <= a /\ a < s.base + s.size
End(s) == s.base + s.size
GranulesOf(base, size) == (base \div Granule) .. ((base + size) \div Granule - 1)
HasSegmentLink(h, s) == \E i \in DOMAIN h.segs : Holds(s, h.segs[i].rec)

\* A mutant: the footprint keeps what was unmapped.
UnmappedUncounted(h, base, size) == [h EXCEPT !.backed = @ \ GranulesOf(base, size)]

Unmapped(h, base, size) ==
    [h EXCEPT !.backed = @ \ GranulesOf(base, size), !.footprint = @ - size]

\* Where mmap can place size units.
Places(h, size) ==
    {g * Granule : g \in {k \in Space :
        GranulesOf(k * Granule, size) \subseteq Space \ h.backed}}

\* A mutant: the limit is compared before the growth.
WithinLimitBefore(h, size) == h.limit = 0 \/ h.footprint <= h.limit

WithinLimit(h, size) == h.limit = 0 \/ h.footprint + size <= h.limit

InitTop(h, a, n) ==
    [Put(h, a, n, FALSE, TRUE) EXCEPT !.top = a, !.topsize = n,
                                      !.trimcheck = TrimThreshold]

\* sm_initialize_user_memory_state, and the segment flag its callers set.
NewSpace(base, size, external) ==
    LET first == base + StateChunk
        blank == [chunk |-> <<>>, small |-> [n \in SmallSizes |-> <<>>], tree |-> {},
                  dv |-> 0, dvsize |-> 0, top |-> 0, topsize |-> 0,
                  segs |-> <<[base |-> base, size |-> size, external |-> external,
                              rec |-> base]>>,
                  state |-> base, backed |-> GranulesOf(base, size),
                  footprint |-> size, limit |-> 0, least |-> base,
                  trimcheck |-> TrimThreshold, checks |-> ReleaseRate, mmapon |-> TRUE]
    IN  InitTop(SetInUsePart(blank, base, StateChunk), first, size - StateChunk - TopFoot)

Outcome(h, a) == [heap |-> h, at |-> a]
Null(h) == Outcome(h, 0)

(***************************************************************************)
(* sm_map_allocate: a chunk of its own mapping.                            *)
(***************************************************************************)
MapSize(n) == RoundUp(n + 4, Granule)

Mapped(h, base, size) ==
    [Put(h, base, size - MapFootPad, FALSE, FALSE) EXCEPT
        !.chunk[base].foot = 0,
        !.backed = @ \cup GranulesOf(base, size),
        !.footprint = @ + size,
        !.least = IF base < @ THEN base ELSE @]

MapAllocate(h, n) ==
    IF WithinLimit(h, MapSize(n))
    THEN {Outcome(Mapped(h, b, MapSize(n)), b) : b \in Places(h, MapSize(n))}
    ELSE {}

(***************************************************************************)
(* sm_prepend_allocate, sm_add_segment.                                    *)
(***************************************************************************)
\* A mutant: the chunk behind the remainder still says in use before it.
PrependKeepsPin(h, i, base, size, n) ==
    LET old == h.segs[i].base
        q == base + n
        rest == size - n
        g == SetInUsePart([h EXCEPT !.segs[i].base = base, !.segs[i].size = @ + size], base, n)
    IN  IF old = h.top
        THEN [Put(g, q, h.topsize + rest, FALSE, TRUE)
                EXCEPT !.top = q, !.topsize = @ + rest]
        ELSE IF InUse(h.chunk[old]) THEN Bin(SetFree(g, q, rest), q, rest) ELSE g

Prepend(h, i, base, size, n) ==
    LET old == h.segs[i].base
        q == base + n
        rest == size - n
        g == SetInUsePart([h EXCEPT !.segs[i].base = base, !.segs[i].size = @ + size], base, n)
        all == rest + SizeOf(h, old)
    IN  CASE old = h.top ->
                [Put(g, q, h.topsize + rest, FALSE, TRUE)
                    EXCEPT !.top = q, !.topsize = @ + rest]
          [] old = h.dv ->
                [SetFree(g, q, h.dvsize + rest) EXCEPT !.dv = q, !.dvsize = @ + rest]
          [] old \notin {h.top, h.dv} /\ ~InUse(h.chunk[old]) ->
                Bin(SetFreeBefore(Unbin(g, old, SizeOf(h, old)), q, all, NextChunk(h, old)), q, all)
          [] OTHER ->
                Bin(SetFreeBefore(g, q, rest, old), q, rest)

\* A mutant: the new record and the one in the state change places.
LinkSwapped(segs, new, rec, home) ==
    <<[new EXCEPT !.rec = rec], [Head(segs) EXCEPT !.rec = home]>> \o Tail(segs)

Link(segs, new, rec, home) ==
    <<[new EXCEPT !.rec = home], [Head(segs) EXCEPT !.rec = rec]>> \o Tail(segs)

AddSegment(h, base, size) ==
    LET old == h.top
        last == End(h.segs[1]) - TopFoot
        rec == IF last < old + MinChunk THEN old ELSE last
        g == SetInUsePart(InitTop(h, base, size - TopFoot), rec, SegmentChunk)
        new == [base |-> base, size |-> size, external |-> FALSE, rec |-> 0]
        linked == [g EXCEPT !.segs = Link(@, new, rec, h.state)]
    IN  IF rec # old
        THEN Bin(SetFreeBefore(linked, old, rec - old, rec), old, rec - old)
        ELSE linked

\* The end of malloc on the top chunk.
FromTop(h, n) ==
    LET p == h.top
        rest == h.topsize - n
    IN  Outcome(SetInUsePart([Put(h, p + n, rest, FALSE, TRUE)
                    EXCEPT !.top = p + n, !.topsize = rest], p, n), p)

\* What sm_system_allocate does with the memory the system gave it.
AddMemory(h, base, size, n) ==
    LET g == [h EXCEPT !.backed = @ \cup GranulesOf(base, size), !.footprint = @ + size]
        low == [g EXCEPT !.least = IF base < @ THEN base ELSE @]
        above == {i \in DOMAIN h.segs : h.segs[i].base = base + size /\ ~h.segs[i].external}
        topped(x) == IF n < x.topsize THEN FromTop(x, n) ELSE Null(x)
    IN  IF End(h.segs[1]) = base /\ ~h.segs[1].external
        THEN topped(InitTop([g EXCEPT !.segs[1].size = @ + size], h.top, h.topsize + size))
        ELSE IF above # {}
        THEN Outcome(Prepend(low, CHOOSE i \in above : TRUE, base, size, n), base)
        ELSE topped(AddSegment(low, base, size))

SystemSize(n) == RoundUp(n + Padding, Granule)

Grow(h, n) ==
    LET places == IF WithinLimit(h, SystemSize(n)) THEN Places(h, SystemSize(n)) ELSE {}
    IN  {AddMemory(h, b, SystemSize(n), n) : b \in places}
            \cup IF MapFails \/ places = {} THEN {Null(h)} ELSE {}

SystemAllocate(h, n) ==
    LET direct == IF h.mmapon /\ n >= MapThreshold /\ h.topsize # 0
                  THEN MapAllocate(h, n) ELSE {}
    IN  direct \cup IF MapFails \/ direct = {} THEN Grow(h, n) ELSE {}

(***************************************************************************)
(* sm_space_allocate for a padded size n.                                  *)
(***************************************************************************)
\* The remainder of a small split becomes the designated victim.
SplitToDv(h, a, n) ==
    LET rest == SizeOf(h, a) - n
    IN  IF rest < MinChunk THEN SetInUseWhole(h, a, SizeOf(h, a))
        ELSE ReplaceDv(SetFree(SetInUsePart(h, a, n), a + n, rest), a + n, rest)

SplitToBin(h, a, n) ==
    LET rest == SizeOf(h, a) - n
    IN  IF rest < MinChunk THEN SetInUseWhole(h, a, SizeOf(h, a))
        ELSE Bin(SetFree(SetInUsePart(h, a, n), a + n, rest), a + n, rest)

FromBin(h, n, m) ==
    LET a == Head(h.small[m])
    IN  Outcome(SplitToDv(Unbin(h, a, m), a, n), a)

FromTreeSmall(h, n) ==
    {Outcome(SplitToDv(Unbin(h, a, SizeOf(h, a)), a, n), a) : a \in SmallestOf(h, h.tree)}

\* The best fit, unless the designated victim is one at least as good.
TreeFit(h, n) ==
    {a \in SmallestOf(h, {b \in h.tree : SizeOf(h, b) >= n}) :
        h.dvsize < n \/ SizeOf(h, a) < h.dvsize}

FromTreeLarge(h, n) ==
    {Outcome(SplitToBin(Unbin(h, a, SizeOf(h, a)), a, n), a) : a \in TreeFit(h, n)}

FromDv(h, n) ==
    LET rest == h.dvsize - n
        p == h.dv
    IN  Outcome(IF rest >= MinChunk
                THEN SetInUsePart(SetFree([h EXCEPT !.dv = p + n, !.dvsize = rest],
                                          p + n, rest), p, n)
                ELSE SetInUseWhole([h EXCEPT !.dv = 0, !.dvsize = 0], p, h.dvsize), p)

FromRest(h, n) ==
    IF n <= h.dvsize THEN {FromDv(h, n)}
    ELSE IF n < h.topsize THEN {FromTop(h, n)}
    ELSE SystemAllocate(h, n)

Allocate(h, n) ==
    LET filled == {m \in SmallSizes : m >= n /\ h.small[m] # <<>>}
        least == CHOOSE m \in filled : \A k \in filled : m <= k
    IN  CASE n \in filled -> {FromBin(h, n, n)}
          [] n \notin filled /\ n < SmallLimit /\ n > h.dvsize /\ filled # {} ->
                {FromBin(h, n, least)}
          [] n < SmallLimit /\ n > h.dvsize /\ filled = {} /\ h.tree # {} ->
                FromTreeSmall(h, n)
          [] n >= SmallLimit /\ TreeFit(h, n) # {} -> FromTreeLarge(h, n)
          [] OTHER -> FromRest(h, n)

(***************************************************************************)
(* sm_release_unused_segments.  The segments do not affect one another:    *)
(* the scan unmaps those of the unused ones whose munmap succeeds, and     *)
(* leaves the whole chunks of the others in the tree.                      *)
(***************************************************************************)
Unused(h) ==
    {s \in Range(Tail(h.segs)) :
        /\ ~s.external
        /\ ~InUse(h.chunk[s.base])
        /\ s.base + SizeOf(h, s.base) >= End(s) - TopFoot}

Rebinned(h, firsts, gone) == (h.tree \cup firsts) \ {s.base : s \in gone}

\* The list and the released size as the scan goes from segment to segment.
Kept(segs, gone) ==
    LET kept[i \in 0 .. Len(segs)] ==
            IF i = 0 THEN <<>>
            ELSE IF segs[i] \in gone THEN kept[i - 1] ELSE Append(kept[i - 1], segs[i])
    IN  kept[Len(segs)]

Released(segs, gone) ==
    LET released[i \in 0 .. Len(segs)] ==
            IF i = 0 THEN 0
            ELSE released[i - 1] + IF segs[i] \in gone THEN segs[i].size ELSE 0
    IN  released[Len(segs)]

Freed(h, gone) ==
    LET firsts == {s.base : s \in Unused(h)}
        inside(a) == \E s \in gone : Holds(s, a)
    IN  [h EXCEPT !.chunk = [a \in {b \in DOMAIN @ : ~inside(b)} |-> @[a]],
                  !.tree = Rebinned(h, firsts, gone),
                  !.dv = IF @ \in firsts THEN 0 ELSE @,
                  !.dvsize = IF h.dv \in firsts THEN 0 ELSE @,
                  !.segs = Kept(@, gone),
                  !.backed = @ \ UNION {GranulesOf(s.base, s.size) : s \in gone},
                  !.footprint = @ - Released(h.segs, gone),
                  !.checks = Larger(Len(h.segs) - 1, ReleaseRate)]

Release(h) ==
    {Freed(h, gone) : gone \in IF UnmapFails THEN SUBSET Unused(h) ELSE {Unused(h)}}

(***************************************************************************)
(* sm_system_trim.                                                         *)
(***************************************************************************)
\* A mutant: the granule that holds the end of the top is cut as well.
ExtraWhole(h, padding) ==
    ((h.topsize - (padding + TopFoot) + Granule - 1) \div Granule) * Granule

Extra(h, padding) ==
    ((h.topsize - (padding + TopFoot) + Granule - 1) \div Granule - 1) * Granule

CanCut(h, extra) ==
    /\ extra > 0
    /\ ~h.segs[1].external
    /\ h.segs[1].size >= extra
    /\ ~HasSegmentLink(h, h.segs[1])

Cut(h, extra) ==
    LET g == Unmapped([h EXCEPT !.segs[1].size = @ - extra], End(h.segs[1]) - extra, extra)
    IN  InitTop(g, h.top, h.topsize - extra)

Trim(h, padding) ==
    LET extra == IF h.topsize > padding + TopFoot THEN Extra(h, padding) ELSE 0
        cut == IF CanCut(h, extra)
               THEN {Cut(h, extra)} \cup IF UnmapFails THEN {h} ELSE {} ELSE {h}
        stop(g) == IF g.footprint = h.footprint /\ g.topsize > g.trimcheck
                   THEN [g EXCEPT !.trimcheck = Never] ELSE g
    IN  {stop(g) : g \in UNION {Release(c) : c \in cut}}

(***************************************************************************)
(* sm_dispose_chunk, and the coalescing of sm_space_free: "where" says     *)
(* which way out the chunk took, for what free does after it.              *)
(***************************************************************************)
Disposed(h, where) == [heap |-> h, where |-> where]

\* A mutant: the footprint shrinks whether or not munmap succeeded.
UnmapCountsAlways(h, a) ==
    LET c == h.chunk[a]
        size == c.size + c.foot + MapFootPad
        gone == [h EXCEPT !.chunk = [b \in DOMAIN @ \ {a} |-> @[b]]]
    IN  {Disposed(Unmapped(gone, a - c.foot, size), "unmapped"),
         Disposed([gone EXCEPT !.footprint = @ - size], "kept")}

Unmap(h, a) ==
    LET c == h.chunk[a]
        gone == [h EXCEPT !.chunk = [b \in DOMAIN @ \ {a} |-> @[b]]]
    IN  {Disposed(Unmapped(gone, a - c.foot, c.size + c.foot + MapFootPad), "unmapped")}
            \cup IF UnmapFails THEN {Disposed(gone, "kept")} ELSE {}

\* A mutant: a victim merged into the top stays the victim.
MergeTopKeepsDv(h, p, n) ==
    [Put(h, p, h.topsize + n, FALSE, TRUE) EXCEPT !.top = p, !.topsize = @ + n]

MergeTop(h, p, n) ==
    [Put(h, p, h.topsize + n, FALSE, TRUE)
        EXCEPT !.top = p, !.topsize = @ + n,
               !.dv = IF @ = p THEN 0 ELSE @,
               !.dvsize = IF h.dv = p THEN 0 ELSE @]

MergeDv(h, p, n) ==
    [SetFree(h, p, h.dvsize + n) EXCEPT !.dv = p, !.dvsize = @ + n]

BinFreed(h, p, n) == Disposed(Bin(h, p, n), IF n < SmallLimit THEN "small" ELSE "tree")

Forward(h, p, n, next) ==
    LET all == n + SizeOf(h, next)
        merged == SetFree(Unbin(h, next, SizeOf(h, next)), p, all)
    IN  CASE h.chunk[next].cin -> BinFreed(SetFreeBefore(h, p, n, next), p, n)
          [] next = h.top -> Disposed(MergeTop(h, p, n), "top")
          [] next = h.dv -> Disposed(MergeDv(h, p, n), "dv")
          [] OTHER -> IF p = h.dv THEN Disposed([merged EXCEPT !.dvsize = all], "dv")
                      ELSE BinFreed(merged, p, all)

Dispose(h, a, n) ==
    LET c == h.chunk[a]
        prev == a - c.foot
        next == a + n
    IN  CASE IsMapped(c) -> Unmap(h, a)
          [] c.pin -> {Forward(h, a, n, next)}
          [] ~c.pin /\ c.cin /\ prev = h.dv /\ h.chunk[next].cin /\ h.chunk[next].pin ->
                {Disposed(SetFreeBefore([h EXCEPT !.dvsize = n + c.foot],
                                        prev, n + c.foot, next), "dv")}
          [] OTHER ->
                {Forward(IF prev = h.dv THEN h ELSE Unbin(h, prev, c.foot),
                         prev, n + c.foot, next)}

\* sm_space_free
AfterFree(d) ==
    LET counted == [d.heap EXCEPT !.checks = @ - 1]
    IN  CASE d.where = "top" /\ d.heap.topsize > d.heap.trimcheck -> Trim(d.heap, 0)
          [] d.where = "tree" ->
                IF counted.checks = 0 THEN Release(counted) ELSE {counted}
          [] OTHER -> {d.heap}

Free(h, a) == UNION {AfterFree(d) : d \in Dispose(h, a, SizeOf(h, a))}

(***************************************************************************)
(* sm_try_reallocate_chunk: the outcome's "at" is 0 when it gives up.      *)
(***************************************************************************)
\* Cut the chunk in use at a, of size all, to n and dispose of the rest.
\* A mutant: the rest is taken a header too long.
ShortenLong(h, a, all, n) ==
    IF all - n < MinChunk THEN {SetInUse(h, a, all)}
    ELSE {SetInUseWhole(SetInUse(h, a, n), a + n, all - n + MinChunk)}

Shorten(h, a, all, n) ==
    IF all - n < MinChunk THEN {SetInUse(h, a, all)}
    ELSE {d.heap : d \in Dispose(SetInUseWhole(SetInUse(h, a, n), a + n, all - n),
                                 a + n, all - n)}

GrowIntoTop(h, a, n) ==
    LET rest == SizeOf(h, a) + h.topsize - n
    IN  [Put(SetInUse(h, a, n), a + n, rest, FALSE, TRUE)
            EXCEPT !.top = a + n, !.topsize = rest]

\* A mutant: what is left of the victim keeps the old size.
GrowIntoDvKeepingSize(h, a, n) ==
    LET rest == SizeOf(h, a) + h.dvsize - n
    IN  IF rest >= MinChunk THEN [SetFree(SetInUse(h, a, n), a + n, rest) EXCEPT !.dv = a + n]
        ELSE [SetInUse(h, a, n + rest) EXCEPT !.dv = 0, !.dvsize = 0]

GrowIntoDv(h, a, n) ==
    LET rest == SizeOf(h, a) + h.dvsize - n
        behind == a + n + rest
    IN  IF rest >= MinChunk
        THEN [SetPin(SetFree(SetInUse(h, a, n), a + n, rest), behind, FALSE)
                EXCEPT !.dv = a + n, !.dvsize = rest]
        ELSE [SetInUse(h, a, n + rest) EXCEPT !.dv = 0, !.dvsize = 0]

\* sm_map_resize.  A mapping grows in place, or moves if it may.
Remapped(h, a, n, base) ==
    LET c == h.chunk[a]
        old == c.size + c.foot + MapFootPad
        gone == [Unmapped(h, a - c.foot, old) EXCEPT
                    !.chunk = [b \in DOMAIN @ \ {a} |-> @[b]]]
        there == Mapped(gone, base, MapSize(n))
    IN  Outcome([Put(there, base + c.foot, MapSize(n) - c.foot - MapFootPad, FALSE, FALSE)
            EXCEPT !.chunk = [b \in {base + c.foot} \cup DOMAIN gone.chunk |->
                IF b = base + c.foot THEN [@[b] EXCEPT !.foot = c.foot] ELSE @[b]]],
            base + c.foot)

MapResize(h, a, n, movable) ==
    LET c == h.chunk[a]
        base == a - c.foot
        places == Places(Unmapped(h, base, c.size + c.foot + MapFootPad), MapSize(n))
        targets == {b \in places : b = base \/ (movable /\ base \notin places)}
    IN  IF n < SmallLimit THEN {Null(h)}
        ELSE IF c.size >= n + 1 /\ c.size - n <= 2 * Granule THEN {Outcome(h, a)}
        ELSE (IF Remaps THEN {Remapped(h, a, n, b) : b \in targets} ELSE {})
                \cup IF Remaps /\ ~MapFails /\ targets # {} THEN {} ELSE {Null(h)}

TryReallocate(h, a, n, movable) ==
    LET size == SizeOf(h, a)
        next == a + size
        inPlace(S) == {Outcome(g, a) : g \in S}
    IN  CASE IsMapped(h.chunk[a]) -> MapResize(h, a, n, movable)
          [] ~IsMapped(h.chunk[a]) /\ size >= n ->
                IF size - n < MinChunk THEN {Outcome(h, a)} ELSE inPlace(Shorten(h, a, size, n))
          [] ~IsMapped(h.chunk[a]) /\ size < n /\ next = h.top /\ size + h.topsize > n ->
                {Outcome(GrowIntoTop(h, a, n), a)}
          [] ~IsMapped(h.chunk[a]) /\ size < n /\ next = h.dv /\ size + h.dvsize >= n ->
                {Outcome(GrowIntoDv(h, a, n), a)}
          [] /\ ~IsMapped(h.chunk[a]) /\ size < n /\ next \notin {h.top, h.dv}
             /\ ~h.chunk[next].cin /\ size + SizeOf(h, next) >= n ->
                inPlace(Shorten(Unbin(h, next, SizeOf(h, next)), a, size + SizeOf(h, next), n))
          [] OTHER -> {Null(h)}

(***************************************************************************)
(* sm_internal_memory_align: what it asks for, and what it makes of it.    *)
(***************************************************************************)

AlignRequest(n, alignment) == n + alignment + MinChunk - 1

Leader(a, alignment) ==
    LET br == RoundUp(a + 1, alignment) - 1
    IN  CASE br = a -> 0
          [] br - a >= MinChunk -> br - a
          [] OTHER -> br + alignment - a

DropLeader(h, a, lead) ==
    LET c == h.chunk[a]
        p == a + lead
    IN  IF IsMapped(c)
        THEN {[h EXCEPT !.chunk = [b \in (DOMAIN @ \ {a}) \cup {p} |->
                IF b = p THEN [c EXCEPT !.foot = c.foot + lead, !.size = c.size - lead]
                ELSE @[b]]]}
        ELSE {d.heap : d \in Dispose(SetInUse(SetInUse(h, p, c.size - lead), a, lead), a, lead)}

\* sm_set_in_use and the disposal of the tail, unless it is too short.
DropTail(h, a, n) ==
    IF ~IsMapped(h.chunk[a]) /\ SizeOf(h, a) > n + MinChunk
    THEN Shorten(h, a, SizeOf(h, a), n)
    ELSE {h}

Align(h, a, n, alignment) ==
    LET lead == Leader(a, alignment)
    IN  {Outcome(g, a + lead) : g \in
            UNION {DropTail(l, a + lead, n) :
                   l \in IF lead = 0 THEN {h} ELSE DropLeader(h, a, lead)}}

(***************************************************************************)
(* sm_internal_bulk_free over an array of chunks.  A chunk that the next   *)
(* entry follows in memory is not freed but lends its memory to that       *)
(* entry: "lent" is the chunk that stands there instead.                   *)
(***************************************************************************)
BulkStep(array, i, x) ==
    LET a == IF x.lent # 0 THEN x.lent ELSE array[i]
    IN  IF i < Len(array) /\ array[i + 1] = NextChunk(x.heap, a)
        THEN {[heap |-> SetInUse(x.heap, a, SizeOf(x.heap, a) + SizeOf(x.heap, array[i + 1])),
               lent |-> a]}
        ELSE {[heap |-> d.heap, lent |-> 0] : d \in Dispose(x.heap, a, SizeOf(x.heap, a))}

BulkFree(h, array) ==
    LET after[i \in 0 .. Len(array)] ==
            IF i = 0 THEN {[heap |-> h, lent |-> 0]}
            ELSE UNION {BulkStep(array, i, x) : x \in after[i - 1]}
    IN  UNION {IF x.heap.topsize > x.heap.trimcheck THEN Trim(x.heap, 0) ELSE {x.heap} :
               x \in after[Len(array)]}

(***************************************************************************)
(* The second half of sm_independent_allocate: count elements of size n    *)
(* and, if the caller brought no array, a chunk for the array, cut from    *)
(* one chunk.  The last piece takes what is left.                          *)
(***************************************************************************)
ArraySize(count) == Pad((count + 1) \div 2)

IndependentSize(count, n, array) ==
    count * n + IF array THEN ArraySize(count) ELSE 0

Pieces(a, count, n, array) == {a + i * n : i \in 0 .. (count - IF array THEN 0 ELSE 1)}

Carve(h, a, count, n, array) ==
    LET pieces == Pieces(a, count, n, array)
        last == a + (count - IF array THEN 0 ELSE 1) * n
        end == NextChunk(h, a)
    IN  SetFoot([h EXCEPT !.chunk = [p \in DOMAIN @ \cup pieces |->
            IF p \in pieces
            THEN [size |-> IF p = last THEN end - p ELSE n, cin |-> TRUE, pin |-> TRUE,
                  foot |-> IF p = a THEN @[p].foot ELSE Stamp]
            ELSE @[p]]], end, Stamp)
=============================================================================
