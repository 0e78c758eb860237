\* A client that waits for its last session to be over.
CONSTANTS
    Runs = {r1, r2}
    NoRun = NoRun
SPECIFICATION SettledSpec
SYMMETRY RunSymmetry
INVARIANTS
    SidecarHasPool
    NoPoolLeftBehind
CHECK_DEADLOCK FALSE
