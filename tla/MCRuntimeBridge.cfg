\* Two requests with the same id and a third.
SPECIFICATION BridgeFairSpec
CONSTANTS
    Jobs = {j1, j2, j3}
    j1 = j1
    j2 = j2
    j3 = j3
    Nobody = Nobody
    request_id <- IdsOfJobs
    input_tokens <- One
    output_tokens <- One
    max_active_requests = 2
    max_total_input_tokens = 2
    max_reserved_output_tokens = 2
    max_session_frames = 4
    max_request_frames = 2
    control_reserve_frames = 1
    Scenarios <- Clients
INVARIANTS Bookkeeping WireFaithful NothingOrphaned
PROPERTIES CancelsItsOwn KeepsPromise EverythingEnds
CHECK_DEADLOCK FALSE
