SPECIFICATION Spec
CONSTANTS
    net = net
    cpe = cpe
    Sides = {net, cpe}
    AutoRestart = {cpe}
    Modulus = 3
    MaxPending = 2
    Retransmissions = 1
    MaxData <- MCMaxData
    LineSize = 4
    None = None
INVARIANTS
    TypeOK
    NeverStranded
    ReleasedIsKnown
PROPERTY
    DataSpec
