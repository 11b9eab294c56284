SPECIFICATION Spec
CONSTANTS
  k1 = k1
  k2 = k2
  k3 = k3
  t1 = t1
  t2 = t2
  Junk = Junk
  Threads = {t1}
  Key = {k1, k2, k3}
  Hash <- ThreeHash
  Version <- TwoForFirst
  Sizes = {4, 8}
  CanFail = {"flags", "growKeys", "growValues"}
INVARIANTS
    TableConsistent
    SlotsBacked
    ProbesReach
    AnswersFromMap
PROPERTIES
    MapSpec
CHECK_DEADLOCK FALSE
