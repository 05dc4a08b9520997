\* Three requests share four data frames; a frame of 4 exceeds max_frame_bytes.
SPECIFICATION FairSpec
CONSTANTS
    Requests = {r1, r2, r3}
    Sizes = {1, 2, 3, 4}
    max_frame_bytes = 3
    max_session_frames = 5
    max_session_bytes = 9
    max_request_frames = 3
    max_request_bytes = 6
    control_reserve_frames = 1
    control_reserve_bytes = 2
    terminal_reserve_bytes = 2
CHECK_DEADLOCK FALSE
INVARIANTS
    Bookkeeping
    TerminalAlwaysFits
    NothingAfterTerminal
PROPERTIES
    NoOvertaking
    TerminalDelivered
