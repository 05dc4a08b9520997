SPECIFICATION LiveSpec
CONSTANTS
    r1 = r1
    r2 = r2
    p1 = p1
    Requests = {r1}
    Oversized = {}
    Probes = {p1}
    RequestLimit = 1
    max_delta_events = 1
    WireCap = 1
    MaxConnections = 2
    Scenarios <- MCLiveScenarios
PROPERTIES
    EverythingReturns
CHECK_DEADLOCK FALSE
