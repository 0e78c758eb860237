\* Two adapters, two dials, short times.
CONSTANTS
    a1 = a1
    a2 = a2
    Order <- MCOrder
    Weight <- MCWeight
    SingleStack = {a2}
    Dials = {d1, d2}
    Backoff <- MCBackoff
    EvidenceTTL = 1
    QuarantineTTL = 1
SPECIFICATION HealthSpec
SYMMETRY DialSymmetry
INVARIANTS
    NoBlameInOutage
    WeightsBalanced
PROPERTIES
    PicksBest
