SPECIFICATION Spec
CONSTANTS
    Threads = {t1, t2, t3}
    Hooks = {h1, h2}
    Nodes = {1, 2, 3, 4}
    HeadNode = 1
    None = None
    SharedReaders = FALSE
INVARIANTS
    TypeOK
    WalkOnList
    AppendOnList
    EachHookOnce
SYMMETRY HookSymmetry
