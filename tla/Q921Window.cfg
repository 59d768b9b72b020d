SPECIFICATION Spec
CONSTANTS
    net = net
    cpe = cpe
    Sides = {net, cpe}
    AutoRestart = {cpe}
    Modulus = 8
    MaxPending = 3
    Retransmissions = 1
    MaxData <- MCMaxData
    LineSize = 4
    None = None
PROPERTY
    DataSpec
