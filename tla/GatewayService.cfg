SPECIFICATION LiveSpec
CONSTANTS
    Chats = {c1, c2}
    Readyz = {z1}
    Scrapes = {m1}
    pool_size = 2
    MaxConnections = 2
INVARIANTS
    OfferedAccounted
PROPERTIES
    ConnectsOneAtATime
    OnlyCaughtOutlive
    CallsAnswered
CHECK_DEADLOCK FALSE
