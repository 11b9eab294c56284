\* One thread, one context, nothing else going wrong.
SPECIFICATION Spec
CONSTANTS
    Threads = {t1}
    Contexts = {c1}
    Handlers = {h1}
    MadeKey = MadeKey
    MaxTrouble = 0
    MaxFailures = 0
    MaxGets = 0
    Null = Null
    Plain = Plain
    Junk = Junk
    Dropped = Dropped
CONSTRAINT LittleTrouble
SYMMETRY Symmetry
INVARIANT NoWildCall
CHECK_DEADLOCK FALSE
