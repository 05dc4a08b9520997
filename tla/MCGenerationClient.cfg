SPECIFICATION Spec
CONSTANTS
    r1 = r1
    r2 = r2
    p1 = p1
    Requests = {r1, r2}
    Oversized = {r2}
    Probes = {p1}
    RequestLimit = 1
    max_delta_events = 1
    WireCap = 1
    MaxConnections = 2
    Scenarios <- MCScenarios
INVARIANTS
    RequestsAccounted
    ConnectionsKeptApart
    GapsOnlyAfterOverflow
PROPERTIES
    KeepsPromise
CHECK_DEADLOCK FALSE
