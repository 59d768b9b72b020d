SPECIFICATION Spec
CONSTANTS
    Threads = {t1, t2}
    Hooks = {h1, h2}
    Nodes = {1, 2, 3, 4}
    HeadNode = 1
    None = None
    SharedReaders = TRUE
INVARIANT
    WalkOnList
