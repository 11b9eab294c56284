------------------------------ MODULE Teardown ------------------------------
(***************************************************************************)
(* sm_destroy_space (allocator_internal.c): the walk over the segments     *)
(* that gives a space back to the system.  Each segment is unmapped after  *)
(* its link was read from its record, which lies in the space itself, and  *)
(* the system may refuse.  A reading of a record is fit if the record is   *)
(* still there.                                                            *)
(***************************************************************************)
EXTENDS Space

RecordOf(h, i) == IF i = 1 THEN h.state ELSE h.segs[i].rec

\* A mutant: a segment is unmapped before its link is read.
UnmapSegmentFirst(h, x, i) ==
    LET s == h.segs[i]
        back == IF s.external THEN x.backed ELSE x.backed \ GranulesOf(s.base, s.size)
    IN  {[backed |-> back, freed |-> x.freed + IF s.external THEN 0 ELSE s.size,
          fit |-> x.fit /\ RecordOf(h, i) \div Granule \in back]}

\* A mutant: the caller's memory is unmapped too.
UnmapSegmentForeign(h, x, i) ==
    LET s == h.segs[i]
        read == [x EXCEPT !.fit = @ /\ RecordOf(h, i) \div Granule \in x.backed]
        gone == [read EXCEPT !.backed = @ \ GranulesOf(s.base, s.size), !.freed = @ + s.size]
    IN  IF UnmapFails THEN {read, gone} ELSE {gone}

UnmapSegment(h, x, i) ==
    LET s == h.segs[i]
        read == [x EXCEPT !.fit = @ /\ RecordOf(h, i) \div Granule \in x.backed]
        gone == [read EXCEPT !.backed = @ \ GranulesOf(s.base, s.size), !.freed = @ + s.size]
    IN  CASE s.external -> {read}
          [] ~s.external /\ UnmapFails -> {read, gone}
          [] OTHER -> {gone}

\* What the walk may leave, by what munmap gives back of each segment in turn.
DestroySpace(h) ==
    LET after[i \in 0 .. Len(h.segs)] ==
            IF i = 0 THEN {[backed |-> h.backed, freed |-> 0, fit |-> TRUE]}
            ELSE UNION {UnmapSegment(h, x, i) : x \in after[i - 1]}
    IN  after[Len(h.segs)]

(***************************************************************************)
(* Properties.                                                             *)
(***************************************************************************)
\* Destroying the space never reads the record of a segment in memory it
\* has given back, whatever the order in which the segments came, and
\* whichever munmap fails (sm_destroy_space 3628-3630).
DestroyReadsLinked == \A x \in DestroySpace(heap) : x.fit

\* It gives back each region once: what it counts as freed is what the
\* process has lost.  The memory the caller brought, the mappings made for
\* large blocks and what an earlier munmap failed to return stay, and nothing
\* else does when none fails now (sm_destroy_space 3630-3631).
DestroyReturnsSegments ==
    LET own == UNION {GranulesOf(s.base, s.size) : s \in {r \in Range(heap.segs) : ~r.external}}
    IN  /\ \A x \in DestroySpace(heap) :
            /\ x.freed = Granule * Cardinality(heap.backed \ x.backed)
            /\ heap.backed \ own \subseteq x.backed
        /\ \E x \in DestroySpace(heap) : x.backed = heap.backed \ own
=============================================================================
