\* Any client: requests at any time, late callbacks, all failures.
CONSTANTS
    Runs = {r1, r2}
    NoRun = NoRun
SPECIFICATION HostSpec
SYMMETRY RunSymmetry
INVARIANTS
    DoneMeansClean
    NoOrphan
    RunningIsWatched
    NeverWedged
    StoppedHasNoSidecar
    ChangesAnnounced
PROPERTIES
    StopOkMeansGone
    ImplementsSession
CHECK_DEADLOCK FALSE
