\* Every input of 11 bytes of two values; every file of four lines; words of a byte.
SPECIFICATION Spec
CONSTANTS
    Base = 2
    RunMax = 3
    LongLen = 3
    MatchMax = 6
    Window = 5
    SrcLen = 11
    WordBits = 8
    ByteBits = 4
    Cells = 2
    CA = 21
    CB = 185
    CC = 235
    CD = 19
    None = None
    Words = Words
INVARIANTS
    Decompresses
    WritesInside
    SizesRight
    FilesRight
    CrossIsTwoPasses
    TransformsInvert
CHECK_DEADLOCK FALSE
