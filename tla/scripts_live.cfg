SPECIFICATION FairSpec
CONSTANTS
    Srcs = {s1, s2}
    Slots = {x1, x2}
    Infos = {i1, i2, i3}
    NoSrc = NoSrc
    NoInfo = NoInfo
PROPERTIES
    ImplementsLifecycle
    ImplementsFairLifecycle
