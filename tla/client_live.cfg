\* Calls return, and are told when their session is over.
CONSTANTS
    Calls = {c1, c2}
    Sessions = {s1, s2}
    Nobody = Nobody
    Methods = {"ensure", "request", "shutdown"}
    Levels = {"plain"}
    EventCap = 1
SPECIFICATION PatientSpec
PROPERTIES
    CallEnds
    OrphanTold
CHECK_DEADLOCK FALSE
