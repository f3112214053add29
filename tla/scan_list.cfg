SPECIFICATION Spec
CONSTANTS
    x = x
    y = y
    z = z
    a = a
    b = b
    Networks <- MCNetworks
    Ssids <- MCSsids
    SsidOf <- MCSsidOf
    IndexRange = 4
    MaxMoves = 3
    MaxCommands = 3
INVARIANTS TypeOK ReadsInList FreshIfScanned NotHidden
PROPERTY CommandEnds
CHECK_DEADLOCK FALSE
