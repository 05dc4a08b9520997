SPECIFICATION LiveSpec
CONSTANTS
    Sessions = {s1, s2}
    s1 = s1
    s2 = s2
    Streaming = {s1}
    max_delta_events = 2
    Scenarios <- MCScenarios
INVARIANTS
    GaugesExact
    TextLostOnlyByDropping
PROPERTIES
    KeepsPromise
    EverythingEnds
CHECK_DEADLOCK FALSE
