\* Two callers and two questions of one adapter, a cache of one entry.
CONSTANTS
    Adapters = {a1}
    Domains = {d1, d2}
    Callers = {c1, c2}
    Lookups = {l1, l2}
    Nobody = Nobody
    Policies = {"auto", "off", "strict"}
    MaxCacheEntries = 1
    FailureThreshold = 1
    CacheTTL = 1
    MaxTTL = 2
    MaxTime = 2
SPECIFICATION DnsSpec
INVARIANTS
    CacheBounded
    OneLookup
    OneFallback
PROPERTIES
    ResolveReturns
CHECK_DEADLOCK FALSE
