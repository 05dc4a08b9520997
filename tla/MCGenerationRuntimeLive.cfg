\* Two requests at once.
SPECIFICATION LiveSpec
CONSTANTS
    Jobs = {j1, j2}
    j1 = j1
    j2 = j2
    Nobody = Nobody
    request_id <- OwnIds
    input_tokens <- Input
    output_tokens <- Input
    max_active_requests = 2
    max_total_input_tokens = 4
    max_reserved_output_tokens = 4
    max_queued_deltas = 1
    max_queued_tokens = 1
    MaxTokens = 1
    sloPolicy = TRUE
    Silent = {j2}
PROPERTIES AcceptedEnds StopReturns
