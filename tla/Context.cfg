\* Two threads, two contexts; two troubles in all.
SPECIFICATION Spec
CONSTANTS
    Threads = {t1, t2}
    Contexts = {c1, c2}
    Handlers = {h1}
    MadeKey = MadeKey
    MaxTrouble = 2
    MaxFailures = 2
    MaxGets = 1
    Null = Null
    Plain = Plain
    Junk = Junk
    Dropped = Dropped
CONSTRAINT LittleTrouble
SYMMETRY Symmetry
INVARIANTS
    WrongOnlyUnchecked
    EntityKept
    GeneratorReady
    LifeSound
CHECK_DEADLOCK FALSE
