SPECIFICATION Spec
CONSTANTS
    t1 = t1
    t2 = t2
    Threads <- TwoThreads
    Granule = 8
    Space <- ThreeGranules
    SmallLimit = 4
    SegmentChunk = 2
    StateChunk = 2
    MapThreshold = 6
    TrimThreshold = 8
    ReleaseRate = 2
    MapFails = TRUE
    UnmapFails = FALSE
    Remaps = FALSE
    Requests = {1}
    Alignments = {}
    Paddings = {}
    Limits = {}
    Counts = {2}
    BulkSizes = {}
    FirstSizes = {8}
    External = {}
    Uses = {}
    MaxBlocks = 4
INVARIANTS
    BoundaryTags
