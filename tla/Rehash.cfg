SPECIFICATION Spec
CONSTANTS
  k1 = k1
  k2 = k2
  k3 = k3
  k4 = k4
  Junk = Junk
  Nothing = Nothing
  Key = {k1, k2, k3, k4}
  Hash <- MCHash
  Value = {1, 2}
  Sizes = {4, 8}
  MaxEntries = 3
INVARIANTS
    TypeOK
    NothingLost
    Arranged
PROPERTIES
    LoopEnds
CHECK_DEADLOCK FALSE
