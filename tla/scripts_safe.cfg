SPECIFICATION Spec
CONSTANTS
    Srcs = {s1, s2}
    Slots = {x1, x2, x3}
    Infos = {i1, i2, i3, i4}
    NoSrc = NoSrc
    NoInfo = NoInfo
SYMMETRY Symmetric
INVARIANTS
    TypeOK
    CountsElements
    RunsOnItsPage
