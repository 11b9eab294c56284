------------------------------- MODULE Checks -------------------------------
(***************************************************************************)
(* The debug checks of a space (allocator_internal.c): those of the chunks *)
(* in the bins, of the top and the designated victim, and the traversal of *)
(* the segments.  Those of the tree bins are in TreeBin.                   *)
(***************************************************************************)
EXTENDS Teardown

\* Where the fence posts behind the segments' records stand.
Fences(h) == {NextChunk(h, s.rec) : s \in Range(Tail(h.segs))}

Stops(h, s, a) ==
    \/ ~Holds(s, a) \/ a = h.top
    \/ a \in Fences(h) \/ a \notin DOMAIN h.chunk

\* The chunks that the loop over a segment comes by, from its base on, and their size.
Traverse(h, s) ==
    LET from[a \in Nat] ==
            LET rest == from[NextChunk(h, a)]
            IN  IF Stops(h, s, a) THEN [seen |-> <<>>, sum |-> 0]
                ELSE [seen |-> <<a>> \o rest.seen, sum |-> SizeOf(h, a) + rest.sum]
    IN  from[s.base]

(***************************************************************************)
(* One chunk.                                                              *)
(***************************************************************************)
BinFind(h, a) ==
    \/ SizeOf(h, a) \in SmallSizes /\ a \in Range(h.small[SizeOf(h, a)])
    \/ SizeOf(h, a) >= SmallLimit /\ a \in h.tree

CheckMapped(h, a) ==
    LET c == h.chunk[a]
    IN  /\ h.mmapon
        /\ c.size >= SmallLimit
        /\ (c.size + c.foot + MapFootPad) % Granule = 0

NextPinned(h, a) == NextChunk(h, a) \in DOMAIN h.chunk => h.chunk[NextChunk(h, a)].pin

CheckInUse(h, a) ==
    LET c == h.chunk[a]
    IN  /\ InUse(c)
        /\ ~IsMapped(c) => NextPinned(h, a)
        /\ IsMapped(c) \/ c.pin \/ NextChunk(h, a - c.foot) = a
        /\ IsMapped(c) => CheckMapped(h, a)

CheckFree(h, a) ==
    LET c == h.chunk[a]
        next == h.chunk[NextChunk(h, a)]
    IN  /\ ~InUse(c) /\ ~next.pin
        /\ a \notin {h.dv, h.top} =>
            /\ c.size >= MinChunk /\ next.foot = c.size
            /\ c.pin
            /\ NextChunk(h, a) = h.top \/ InUse(next)

CheckTop(h) ==
    LET s == CHOOSE x \in Range(h.segs) : Holds(x, h.top)
    IN  /\ \E x \in Range(h.segs) : Holds(x, h.top)
        /\ SizeOf(h, h.top) = h.topsize /\ h.topsize > 0
        /\ h.topsize = End(s) - h.top - TopFoot
        /\ h.chunk[h.top].pin

CheckSmallBin(h, n) ==
    \A a \in Range(h.small[n]) :
        /\ CheckFree(h, a)
        /\ SizeOf(h, a) = n
        /\ NextChunk(h, a) \notin Fences(h) => CheckInUse(h, NextChunk(h, a))

CheckSegment(h, s) ==
    LET all == Traverse(h, s).seen
    IN  /\ h.chunk[s.base].pin
        /\ \A i \in DOMAIN all :
            LET a == all[i]
            IN  IF InUse(h.chunk[a]) THEN ~BinFind(h, a) /\ CheckInUse(h, a)
                ELSE /\ a = h.dv \/ BinFind(h, a)
                     /\ i = 1 \/ InUse(h.chunk[all[i - 1]])
                     /\ CheckFree(h, a)

\* The sum of the traversal, which may not exceed the footprint.
Traversed(h) ==
    LET sum[i \in 0 .. Len(h.segs)] ==
            IF i = 0 THEN h.topsize + TopFoot ELSE sum[i - 1] + Traverse(h, h.segs[i]).sum
    IN  sum[Len(h.segs)]

CheckAllocationState(h) ==
    /\ \A n \in SmallSizes : CheckSmallBin(h, n)
    /\ h.dvsize # 0 =>
        h.dvsize = SizeOf(h, h.dv) /\ h.dvsize >= MinChunk /\ ~BinFind(h, h.dv)
    /\ CheckTop(h) /\ ~BinFind(h, h.top)
    /\ \A s \in Range(h.segs) : CheckSegment(h, s)
    /\ Traversed(h) <= h.footprint

\* Whenever the lock is free, the allocator's own debug checks would pass
\* (sm_do_check_allocation_state 1826, called by most exported calls).
ChecksPass == CheckAllocationState(heap)
=============================================================================
