\* Three calls on two successive cores.
CONSTANTS
    Calls = {c1, c2, c3}
    Sessions = {s1, s2}
    Nobody = Nobody
    Methods = {"ensure", "elevated", "request"}
    Levels = {"plain", "elevated"}
    EventCap = 0
SPECIFICATION ClientSpec
SYMMETRY Symmetry
INVARIANTS
    ReplyOnce
    HeldIsCurrent
    OneWriter
    NoOrphanCore
CHECK_DEADLOCK FALSE
