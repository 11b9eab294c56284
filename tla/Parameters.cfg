\* Three threads initialise one allocator context.
SPECIFICATION Spec
CONSTANTS
  t1 = t1
  t2 = t2
  t3 = t3
  Thread <- ThreeThreads
  NoThread = NoThread
  Unbuilt = Unbuilt
INVARIANTS
    EntersBuiltMutex
    MutualExclusion
    ReadyMeansSet
PROPERTIES
    SetUpOnce
    CallsReturn
