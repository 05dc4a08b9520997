SPECIFICATION Spec
CONSTANTS
    Jobs = {j1, j2}
    Statuses <- MCStatuses
    max_queued_deltas = 2
    max_queued_tokens = 3
    MaxTokens = 4
INVARIANTS Bookkeeping
PROPERTIES CancelSilences ImplementsStream
CHECK_DEADLOCK FALSE
