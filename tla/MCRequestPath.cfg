SPECIFICATION ChatSpec
CONSTANTS
    MaxI32 = 1100000
    MaxU32 = 1200000
    MaxU64 = 1300000
    One = 1001
    MaxDouble = 1400000000
    MaxId = 3
    Roots <- MCRoots
    Workers <- MCWorkers
    WorkerManifests <- MCWorkerManifests
    Tokenizers <- MCTokenizers
    Bodies <- MCBodies
    TokenLists <- MCTokenLists
INVARIANTS
    StagesAgree
    ResponseFaithful
CHECK_DEADLOCK FALSE
