SPECIFICATION Spec
CONSTANTS
    t1 = t1
    t2 = t2
    Threads <- OneThread
    Granule = 8
    Space <- FourGranules
    SmallLimit = 4
    SegmentChunk = 2
    StateChunk = 2
    MapThreshold = 6
    TrimThreshold = 8
    ReleaseRate = 2
    MapFails = TRUE
    UnmapFails = FALSE
    Remaps = FALSE
    Requests = {1, 2, 5}
    Alignments = {}
    Paddings = {0}
    Limits = {}
    Counts = {}
    BulkSizes = {}
    FirstSizes = {8}
    External = {}
    Uses = {}
    MaxBlocks = 3
INVARIANTS
    Layout
    BoundaryTags
    MemoryAccounted
    ChecksPass
PROPERTIES
    StoreSpec
