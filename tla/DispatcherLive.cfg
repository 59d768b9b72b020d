SPECIFICATION FairSpec
CONSTANTS
    Threads = {t1, t2}
    Addresses = {1, 2}
    Kinds <- MCKinds
    Messages <- MCBroadcasts
    Params = {"x"}
    AnyName = AnyName
    NoFilter = NoFilter
    None = None
    MaxChanges = 4
PROPERTIES
    LifetimeSpec
    
