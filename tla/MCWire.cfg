SPECIFICATION ProtocolSpec
CONSTANTS
    MaxI32 = 2
    MaxU32 = 5
    MaxU64 = 9
    One = 2
    MaxDouble = 30
    Manifests <- MCManifests
    Requests <- MCRequests
    Numbers <- MCNumbers
    Payloads <- MCPayloads
    Messages <- MCMessages
    Epochs = {0, 1, 2}
INVARIANTS
    CodecsAgree
    FramesRead
    SessionFaithful
PROPERTIES
    SessionEnds
CHECK_DEADLOCK FALSE
