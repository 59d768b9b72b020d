SPECIFICATION FairSpec
CONSTANTS
    Threads = {t1, t2, t3, t4, t5}
    Creator = t1
    Lists = {l1}
    None = None
INVARIANTS
    TypeOK
    HeldIsAlive
    CountExact
    DestroyedOnce
    NoRefAfterDelete
PROPERTIES
    Freed
CHECK_DEADLOCK FALSE
