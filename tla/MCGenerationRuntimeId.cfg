SPECIFICATION Spec
CONSTANTS
    Jobs = {j1, j2}
    Nobody = Nobody
    request_id <- SameId
    input_tokens <- Input
    output_tokens <- Output
    max_active_requests = 2
    max_total_input_tokens = 4
    max_reserved_output_tokens = 4
    max_queued_deltas = 1
    max_queued_tokens = 1
    MaxTokens = 2
    sloPolicy = TRUE
    Silent = {}
SYMMETRY Symmetry
INVARIANT ReusableAfterRelease
