\* Requests are answered and exits are acted upon.
CONSTANTS
    Runs = {r1}
    NoRun = NoRun
SPECIFICATION FairHostSpec
PROPERTIES
    RequestAnswered
    ExitStopsEngine
CHECK_DEADLOCK FALSE
