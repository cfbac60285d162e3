SPECIFICATION FairSpec
CONSTANTS
    Conns = {c1, c2}
    NoConn = NoConn
    MaxBuffered = 1
    MaxFaults = 1
PROPERTIES ReconnectsAfterError
