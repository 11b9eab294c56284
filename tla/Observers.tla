----------------------------- MODULE Observers -----------------------------
(***************************************************************************)
(* What reports on a space without changing it (allocator_internal.c): the *)
(* statistics and the inspection.  They follow chunk sizes and segment     *)
(* links as the code does, and the properties hold what they find against  *)
(* the bins, the blocks that were handed out and the memory the system     *)
(* lends.                                                                  *)
(***************************************************************************)
EXTENDS Checks

SumOf(h, seq) == FoldSeq(LAMBDA a, n : n + SizeOf(h, a), 0, seq)

Walked(h) == FlattenSeq([i \in DOMAIN h.segs |-> Traverse(h, h.segs[i]).seen])
FreeWalked(h) == SelectSeq(Walked(h), LAMBDA a : ~InUse(h.chunk[a]))

\* A mutant: the designated victim is taken for in use.
MemoryInfoSkipDv(h) ==
    LET gone == SelectSeq(FreeWalked(h), LAMBDA a : a # h.dv)
        idle == h.topsize + TopFoot + SumOf(h, gone)
    IN  [arena |-> Traversed(h), freeChunks |-> 1 + Len(gone),
         mapped |-> h.footprint - Traversed(h),
         allocated |-> h.footprint - idle, free |-> idle, keep |-> h.topsize]

MemoryInfo(h) ==
    LET idle == h.topsize + TopFoot + SumOf(h, FreeWalked(h))
    IN  [arena |-> Traversed(h), freeChunks |-> 1 + Len(FreeWalked(h)),
         mapped |-> h.footprint - Traversed(h),
         allocated |-> h.footprint - idle, free |-> idle, keep |-> h.topsize]

\* in_use_bytes of the allocation statistics.
BytesInUse(h) ==
    FoldSeq(LAMBDA a, n : IF InUse(h.chunk[a]) THEN n ELSE n - SizeOf(h, a),
            h.footprint - (h.topsize + TopFoot), Walked(h))

Overhead == 1
BinnedHeader(n) == IF n < SmallLimit THEN 2 ELSE 4

Visit(h, a) ==
    IF InUse(h.chunk[a])
    THEN [start |-> a + 1, end |-> NextChunk(h, a), used |-> SizeOf(h, a) - Overhead]
    ELSE [start |-> a + BinnedHeader(SizeOf(h, a)), end |-> NextChunk(h, a), used |-> 0]

\* What sm_internal_inspect_all shows its visitor, the top included.
Inspected(h) ==
    LET seen(i) == Traverse(h, h.segs[i]).seen \o IF i = 1 THEN <<h.top>> ELSE <<>>
        all == FlattenSeq([i \in DOMAIN h.segs |-> seen(i)])
    IN  SelectSeq([i \in DOMAIN all |-> Visit(h, all[i])], LAMBDA v : v.start < v.end)

(***************************************************************************)
(* Properties.                                                             *)
(***************************************************************************)
Sizes(S) == FoldSet(LAMBDA a, n : n + SizeOf(heap, a), 0, S)

\* The counts of a walk over the segments agree with what the bins hold,
\* though neither is kept for the other: free chunks and their sizes, bytes
\* in use, and room for every mapping in the mapped space (memory_info
\* 1902-1908, malloc_stats 1960, the comments at 302-310).
StatisticsAgree ==
    LET info == MemoryInfo(heap)
        idle == Binned \cup ({heap.dv} \ {0})
        mappings == FoldSet(LAMBDA a, n : n + SizeOf(heap, a) + heap.chunk[a].foot + MapFootPad,
                            0, MapChunks)
    IN  /\ info.freeChunks = 1 + Cardinality(idle)
        /\ info.free = heap.topsize + TopFoot + Sizes(idle)
        /\ info.allocated = BytesInUse(heap)
        /\ info.mapped >= mappings
        /\ info.allocated >= Sizes(DOMAIN live)

\* The visitor of an inspection is shown each block of the heap that is out,
\* the space's own two kinds of chunks, and nothing else as used; what it is
\* shown of free chunks is no block's and overlaps nothing.
InspectionComplete ==
    LET seen == Inspected(heap)
        ours == (DOMAIN live \ MapChunks) \cup {heap.state} \cup Records
        units(v) == v.start .. (v.end - 1)
    IN  /\ {v \in Range(seen) : v.used > 0}
                = {[start |-> a + 1, end |-> NextChunk(heap, a), used |-> SizeOf(heap, a) - 1] : a \in ours}
        /\ \A i, j \in DOMAIN seen : i # j => units(seen[i]) \cap units(seen[j]) = {}

\* What statistics and inspection report is what there is.
ObserversAgree == StatisticsAgree /\ InspectionComplete
=============================================================================
