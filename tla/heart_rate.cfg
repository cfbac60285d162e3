SPECIFICATION FairSpec
CONSTANTS
    Conns = {c1, c2, c3}
    NoConn = NoConn
    MaxBuffered = 2
    MaxFaults = 2
INVARIANTS
    TypeOK
    StreamFollowsPage
PROPERTIES
    StreamsEnd
    BeatsResume
