\* Two sessions, two flows, a limit of one flow, two adapters.
CONSTANTS
    Sessions = {s1, s2, f1, f2}
    Flows = {f1, f2}
    Adapters = {a1, a2}
    Nobody = Nobody
    FlowLimit = 1
    Requests <- MCRequests
SPECIFICATION UdpSpec
INVARIANTS
    StopLeavesNothing
    ActiveCounts
    EndedHoldsNothing
PROPERTIES
    StopReturns
    RelaysCut
CHECK_DEADLOCK FALSE
