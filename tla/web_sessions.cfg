SPECIFICATION Spec
CONSTANTS
    Subjects = {u1, u2}
    Browsers = {b1, b2}
    Requests = {r1, r2, r3}
    Sessions = {s1, s2}
    NoSubject = NoSubject
    NoToken = NoToken
    NoBrowser = NoBrowser
    MaxFaults = 2
SYMMETRY Symmetric
CHECK_DEADLOCK FALSE
INVARIANTS
    TypeOK
    OwnToken
    ErrorsHaveCause
    SignOutReachesAll
PROPERTIES
    ImplementsLifecycle
