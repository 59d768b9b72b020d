SPECIFICATION Spec
CONSTANTS
    Threads = {t1, t2}
    Addresses = {1, 2, 3}
    Kinds <- MCKinds
    Messages <- MCMessages
    Params <- MCParams
    AnyName = AnyName
    NoFilter = NoFilter
    None = None
    MaxChanges = 4
INVARIANT
    NoneMissed
