SPECIFICATION FairSpec
CONSTANTS
    s1 = s1
    s2 = s2
    s3 = s3
    Slaves = {s1, s2, s3}
    Plans <- MCPlans
    CanStop = TRUE
    None = None
INVARIANTS
    TypeOK
    Accounted
PROPERTIES
    Ends
CHECK_DEADLOCK FALSE
