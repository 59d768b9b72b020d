SPECIFICATION FairSpec
CONSTANTS
    Endpoints = {a, b, c}
    Threads = {t1, t2}
    None = None
    CallersLock = TRUE
INVARIANTS
    TypeOK
    
    
    

    
CHECK_DEADLOCK FALSE
