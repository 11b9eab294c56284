------------------------------- MODULE Space -------------------------------
(***************************************************************************)
(* The allocator as its callers see it: the exported calls of              *)
(* allocator_internal.c on one space, by several threads.  A call made     *)
(* under one hold of the space's lock is one action; realloc, memalign     *)
(* and the independent allocations let the lock go between their steps,    *)
(* and the last reads and writes the mapping flag without it.              *)
(***************************************************************************)
EXTENDS Heap

CONSTANTS
    Threads,
    Requests,       \* sizes asked for, in units
    Alignments,     \* of sm_space_memory_align, in units, powers of two
    Paddings,       \* of sm_space_trim
    Limits,         \* of sm_space_set_footprint_limit, in units
    Counts,         \* elements of an independent allocation
    BulkSizes,      \* entries of the array of a bulk free
    FirstSizes,     \* sizes, in units, of the space when it is created
    External,       \* {TRUE}: it may also be created on the caller's memory
    Uses,           \* calls in use, of "realloc" and "track"
    MaxBlocks       \* bound: blocks out when a call that asks for one begins

ASSUME SpaceAssumption ==
    /\ Requests \subseteq Nat /\ Paddings \subseteq Nat /\ Limits \subseteq Nat
    /\ Alignments \subseteq Nat \ {0} /\ Counts \subseteq Nat \ {0} /\ BulkSizes \subseteq Nat
    /\ \A n \in FirstSizes : n \in Nat /\ \E k \in 1 .. n : n = k * Granule
    /\ External \subseteq BOOLEAN

VARIABLES
    heap,           \* the space
    live,           \* from the chunk of each block handed out to its request
    call            \* what each thread has under way

vars == <<heap, live, call>>

Idle == [op |-> "idle"]

\* Blocks a thread inside a call still works on.
Held(c) ==
    CASE c.op = "idle" -> {}
      [] c.op \in {"disable", "ask"} -> {}
      [] c.op = "move" -> {c.old}
      [] c.op = "copied" -> {c.old, c.at}
      [] OTHER -> {c.at} \ {0}

Available == DOMAIN live \ UNION {Held(call[t]) : t \in Threads}

Room(n) == Cardinality(DOMAIN live) + n <= MaxBlocks

Drop(f, S) == [a \in DOMAIN f \ S |-> f[a]]
With(f, a, v) == [b \in DOMAIN f \cup {a} |-> IF b = a THEN v ELSE f[b]]
Taken(o, r) == IF o.at = 0 THEN live ELSE With(live, o.at, r)

Init ==
    /\ \E g \in Space, n \in FirstSizes, e \in {FALSE} \cup External :
        heap = NewSpace(g * Granule, n, e)
    /\ heap.backed \subseteq Space
    /\ live = <<>>
    /\ call = [t \in Threads |-> Idle]

Malloc(t) ==
    /\ call[t] = Idle
    /\ Room(1)
    /\ \E r \in Requests : \E o \in Allocate(heap, Pad(r)) :
        heap' = o.heap /\ live' = Taken(o, r)
    /\ UNCHANGED call

FreeBlock(t) ==
    /\ call[t] = Idle
    /\ \E a \in Available :
        /\ heap' \in Free(heap, a)
        /\ live' = Drop(live, {a})
    /\ UNCHANGED call

(***************************************************************************)
(* realloc: try in place under the lock; failing that allocate, copy and   *)
(* free, each on its own.                                                  *)
(***************************************************************************)
Realloc(t) ==
    /\ call[t] = Idle
    /\ "realloc" \in Uses
    /\ \E a \in Available, r \in Requests : \E o \in TryReallocate(heap, a, Pad(r), TRUE) :
        /\ heap' = o.heap
        /\ \/ o.at # 0 /\ live' = With(Drop(live, {a}), o.at, r) /\ UNCHANGED call
           \/ o.at = 0 /\ call' = [call EXCEPT ![t] = [op |-> "move", old |-> a, size |-> r]]
                       /\ UNCHANGED live

ReallocAllocate(t) ==
    /\ call[t].op = "move"
    /\ \E o \in Allocate(heap, Pad(call[t].size)) :
        /\ heap' = o.heap
        /\ live' = Taken(o, call[t].size)
        /\ call' = [call EXCEPT ![t] =
                IF o.at = 0 THEN Idle ELSE [op |-> "copied", old |-> @.old, at |-> o.at]]

ReallocFree(t) ==
    /\ call[t].op = "copied"
    /\ heap' \in Free(heap, call[t].old)
    /\ live' = Drop(live, {call[t].old})
    /\ call' = [call EXCEPT ![t] = Idle]

ReallocInPlace(t) ==
    /\ call[t] = Idle
    /\ "realloc" \in Uses
    /\ \E a \in Available, r \in Requests : \E o \in TryReallocate(heap, a, Pad(r), FALSE) :
        /\ heap' = o.heap
        /\ live' = IF o.at = a THEN [live EXCEPT ![a] = r] ELSE live
    /\ UNCHANGED call

MemoryAlign(t) ==
    /\ call[t] = Idle
    /\ Room(1)
    /\ \E r \in Requests, al \in Alignments :
       \E o \in Allocate(heap, Pad(AlignRequest(Pad(r), al))) :
        /\ heap' = o.heap
        /\ live' = Taken(o, r)
        /\ call' = IF o.at = 0 THEN call
                   ELSE [call EXCEPT ![t] = [op |-> "align", at |-> o.at, size |-> r,
                                             alignment |-> al]]

MemoryAlignTail(t) ==
    /\ call[t].op = "align"
    /\ \E o \in Align(heap, call[t].at, Pad(call[t].size), call[t].alignment) :
        /\ heap' = o.heap
        /\ live' = With(Drop(live, {call[t].at}), o.at, call[t].size)
    /\ call' = [call EXCEPT ![t] = Idle]

(***************************************************************************)
(* independent_calloc and independent_co_malloc: one allocation with       *)
(* mapping switched off, then cut.  Only the allocation and the cutting    *)
(* hold the lock.                                                          *)
(***************************************************************************)
IndependentRead(t) ==
    /\ call[t] = Idle
    /\ \E n \in Counts, r \in Requests, array \in BOOLEAN :
        /\ Room(n + IF array THEN 1 ELSE 0)
        /\ call' = [call EXCEPT ![t] = [op |-> "disable", count |-> n, size |-> r,
                                        array |-> array, on |-> heap.mmapon]]
    /\ UNCHANGED <<heap, live>>

IndependentDisable(t) ==
    /\ call[t].op = "disable"
    /\ heap' = [heap EXCEPT !.mmapon = FALSE]
    /\ call' = [call EXCEPT ![t].op = "ask"]
    /\ UNCHANGED live

IndependentAllocate(t) ==
    /\ call[t].op = "ask"
    /\ LET n == IndependentSize(call[t].count, Pad(call[t].size), call[t].array)
       IN  \E o \in Allocate(heap, n) :
            /\ heap' = o.heap
            /\ live' = Taken(o, n - 1)
            /\ call' = [call EXCEPT ![t] =
                    [op |-> "enable", at |-> o.at, count |-> @.count, size |-> @.size,
                     array |-> @.array, on |-> @.on]]

IndependentEnable(t) ==
    /\ call[t].op = "enable"
    /\ heap' = IF call[t].on THEN [heap EXCEPT !.mmapon = TRUE] ELSE heap
    /\ call' = [call EXCEPT ![t] = IF @.at = 0 THEN Idle ELSE [@ EXCEPT !.op = "carve"]]
    /\ UNCHANGED live

IndependentCarve(t) ==
    LET c == call[t]
        pieces == Pieces(c.at, c.count, Pad(c.size), c.array)
        array == c.at + c.count * Pad(c.size)
    IN  /\ c.op = "carve"
        /\ heap' = Carve(heap, c.at, c.count, Pad(c.size), c.array)
        /\ live' = [a \in pieces \cup (DOMAIN live \ {c.at}) |->
                        CASE a \notin pieces -> live[a]
                          [] a \in pieces /\ c.array /\ a = array -> ArraySize(c.count) - 1
                          [] OTHER -> c.size]
        /\ call' = [call EXCEPT ![t] = Idle]

BulkFreeBlocks(t) ==
    /\ call[t] = Idle
    /\ \E n \in BulkSizes : \E array \in [1 .. n -> Available] :
        /\ IsInjective(array)
        /\ heap' \in BulkFree(heap, array)
        /\ live' = Drop(live, Range(array))
    /\ UNCHANGED call

SpaceTrim(t) ==
    /\ call[t] = Idle
    /\ \E p \in Paddings : heap' \in Trim(heap, p)
    /\ UNCHANGED <<live, call>>

\* Enabling the tracking of large chunks is what stops their being mapped.
TrackLargeChunks(t) ==
    /\ call[t] = Idle
    /\ "track" \in Uses
    /\ \E enable \in BOOLEAN : heap' = [heap EXCEPT !.mmapon = ~enable]
    /\ UNCHANGED <<live, call>>

\* The limit is written without the lock.  SM_MAX_SIZE_T and 0 both lift it.
SetFootprintLimit(t) ==
    /\ call[t] = Idle
    /\ \E bytes \in Limits : heap' = [heap EXCEPT !.limit = RoundUp(bytes, Granule)]
    /\ UNCHANGED <<live, call>>

Next ==
    \E t \in Threads :
        \/ Malloc(t) \/ FreeBlock(t)
        \/ Realloc(t) \/ ReallocAllocate(t) \/ ReallocFree(t) \/ ReallocInPlace(t)
        \/ MemoryAlign(t) \/ MemoryAlignTail(t)
        \/ IndependentRead(t) \/ IndependentDisable(t) \/ IndependentAllocate(t)
        \/ IndependentEnable(t) \/ IndependentCarve(t)
        \/ BulkFreeBlocks(t)
        \/ SpaceTrim(t) \/ TrackLargeChunks(t) \/ SetFootprintLimit(t)

Spec == Init /\ [][Next]_vars

(***************************************************************************)
(* Properties.                                                             *)
(***************************************************************************)
Chunks == DOMAIN heap.chunk
MapChunks == {a \in Chunks : IsMapped(heap.chunk[a])}
HeapChunks == Chunks \ MapChunks
Records == {s.rec : s \in Range(Tail(heap.segs))}
Binned == heap.tree \cup UNION {Range(heap.small[n]) : n \in SmallSizes}

TypeOK ==
    /\ \A a \in Chunks : heap.chunk[a] \in
            [size : Nat, cin : BOOLEAN, pin : BOOLEAN, foot : Nat]
    /\ heap.dvsize \in Nat /\ heap.topsize \in Nat /\ heap.footprint \in Nat
    /\ heap.checks \in 1 .. Larger(ReleaseRate, Cardinality(Space))
    /\ heap.backed \subseteq Space
    /\ DOMAIN live \subseteq Chunks
    /\ \A t \in Threads : Held(call[t]) \subseteq DOMAIN live

\* The chunks of a segment follow one another from its base to the top or
\* to its record, none cut short or run over (sm_do_check_top_chunk 1525,
\* and what every traversal of the space relies on).
Tiled ==
    /\ \A s \in Range(heap.segs) : s.base \in HeapChunks
    /\ \A a \in HeapChunks : \E s \in Range(heap.segs) :
        /\ Holds(s, a)
        /\ CASE a = heap.top -> s = heap.segs[1] /\ NextChunk(heap, a) = End(s) - TopFoot
             [] a \in Records -> a = s.rec /\ NextChunk(heap, a) <= End(s) - MinChunk
             [] OTHER -> NextChunk(heap, a) \in HeapChunks /\ Holds(s, NextChunk(heap, a))

\* The bit and the foot in a chunk's head tell the truth about the chunk
\* below it, and two free chunks never touch (sm_do_check_free_chunk
\* 1574-1598, sm_do_check_in_use_chunk 1559).
BoundaryTags ==
    /\ \A s \in Range(heap.segs) : heap.chunk[s.base].pin
    /\ \A a \in HeapChunks \ ({heap.top} \cup Records) :
        LET c == heap.chunk[a]
            next == heap.chunk[NextChunk(heap, a)]
        IN  /\ next.pin = c.cin
            /\ ~c.cin => c.pin /\ next.cin /\ next.foot = c.size
            /\ c.cin /\ a # heap.state => next.foot = Stamp

\* Every chunk is accounted for once: the caller's, the space's own, the
\* top, the designated victim, or in the one bin its size belongs to.
\* Nothing in use is lost, nothing free is in use.
Accounted ==
    /\ {a \in HeapChunks : InUse(heap.chunk[a])} \cup MapChunks
            = DOMAIN live \cup {heap.state} \cup Records
    /\ HeapChunks \ (DOMAIN live \cup {heap.state} \cup Records)
            = {heap.top} \cup Binned \cup ({heap.dv} \ {0})
    /\ {heap.dv, heap.top} \cap Binned = {} /\ heap.dv # heap.top
    /\ heap.dvsize = IF heap.dv = 0 THEN 0 ELSE SizeOf(heap, heap.dv)
    /\ heap.topsize = SizeOf(heap, heap.top)
    /\ \A n \in SmallSizes : /\ IsInjective(heap.small[n])
                             /\ \A a \in Range(heap.small[n]) : SizeOf(heap, a) = n
    /\ \A a \in heap.tree : SizeOf(heap, a) >= SmallLimit

\* foot_print is what the system lends, the regions whose munmap failed
\* included, and no region belongs to two segments or mappings.
FootprintExact ==
    LET regions == {<<s.base, s.size>> : s \in Range(heap.segs)} \cup
                   {<<a - heap.chunk[a].foot,
                      SizeOf(heap, a) + heap.chunk[a].foot + MapFootPad>> : a \in MapChunks}
        granules(r) == GranulesOf(r[1], r[2])
    IN  /\ heap.footprint = Granule * Cardinality(heap.backed)
        /\ \A r \in regions : granules(r) \subseteq heap.backed
        /\ \A r, q \in regions : r # q => granules(r) \cap granules(q) = {}

\* A segment's record lies in the segment (the assertion at 2683), so that
\* unmapping a segment never unmaps the record of another.
RecordsAtHome == \A i \in 2 .. Len(heap.segs) : Holds(heap.segs[i], heap.segs[i].rec)

\* No chunk lies below least_address, where sm_is_address_ok would take it
\* for a stray pointer and free would report it.
AddressesOk == \A a \in Chunks : a >= heap.least

\* A block is as large as its caller asked (the assertions at 1612, 3240).
Granted == \A a \in DOMAIN live : SizeOf(heap, a) - 1 >= live[a]

\* Where chunks, records and blocks lie.
Layout == TypeOK /\ Tiled /\ RecordsAtHome /\ AddressesOk /\ Granted

\* Nothing in the heap is lost, counted twice or lent by nobody.
MemoryAccounted == Accounted /\ FootprintExact

\* All that a call relies on when it takes the lock.
HeapSound == Layout /\ BoundaryTags /\ MemoryAccounted

\* The calls implement a store of disjoint blocks in memory the system
\* lends, and touch no block but the one they are handed.

Memory == UNION {(g * Granule) .. (g * Granule + Granule - 1) : g \in heap.backed}
Blocks == [p \in {a + 1 : a \in DOMAIN live} |->
              IF p - 1 \in Chunks THEN SizeOf(heap, p - 1) - 1 ELSE 0]
Store == INSTANCE BlockStore WITH memory <- Memory, blocks <- Blocks
StoreSpec == Store!Spec

\* Memory is asked of the system only within the footprint limit.
GrowsWithinLimit ==
    [][heap'.footprint > heap.footprint /\ heap.limit # 0
            => heap'.footprint <= heap.limit]_vars

\* A direct-mapped chunk is never what an independent allocation cuts up
\* (the assertion !sm_is_mapped(pmck) at 3310).  No run has it: the code
\* breaks it where two threads allocate so at once.
CarvesOrdinaryChunk ==
    \A t \in Threads : call[t].op = "carve" => call[t].at \notin MapChunks
=============================================================================
