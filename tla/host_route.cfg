\* Any client.
CONSTANTS
    Runs = {r1, r2}
    NoRun = NoRun
SPECIFICATION HostSpec
INVARIANT SidecarHasPool
CHECK_DEADLOCK FALSE
