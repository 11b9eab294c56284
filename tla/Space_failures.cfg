SPECIFICATION Spec
CONSTANTS
    t1 = t1
    t2 = t2
    Threads <- OneThread
    Granule = 8
    Space <- ThreeGranules
    SmallLimit = 4
    SegmentChunk = 2
    StateChunk = 2
    MapThreshold = 6
    TrimThreshold = 8
    ReleaseRate = 2
    MapFails = TRUE
    UnmapFails = TRUE
    Remaps = FALSE
    Requests = {1, 3, 5}
    Alignments = {}
    Paddings = {0}
    Limits = {0, 12}
    Counts = {1, 2}
    BulkSizes = {}
    FirstSizes = {8, 16}
    External = {TRUE}
    Uses = {"track"}
    MaxBlocks = 3
INVARIANTS
    HeapSound
    ObserversAgree
    DestroyReadsLinked
    DestroyReturnsSegments
PROPERTIES
    GrowsWithinLimit
