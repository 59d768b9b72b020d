SPECIFICATION FairSpec
CONSTANTS
    Messages = {m1, m2, m3}
    Nodes = {1, 2, 3}
    HeadNode = 1
    Senders = {main, sender}
    MainThread = main
    Workers = {w1, w2}
    FirstWorkers = {w1}
    None = None
INVARIANTS
    TypeOK
    AppendIsLast
    NoIdleWhileQueued
PROPERTIES
    FifoSpec
    Delivered
