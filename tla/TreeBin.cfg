SPECIFICATION Spec
CONSTANTS
    Chunk = {c1, c2, c3, c4, c5}
    None = None
    Head = Head
    WordBits = 7
    TreeShift = 3
    TreeBins = 4
    IndexBits = 3
    Sizes = {8, 9, 10, 11, 16, 18, 20, 24, 33}
    Requests = {2, 8, 9, 10, 12, 17, 33, 70}
    Victims = {0, 10, 20}
SYMMETRY SameChunk
INVARIANTS
    TreesSound
    SearchesFit
PROPERTIES
    PromiseSpec
