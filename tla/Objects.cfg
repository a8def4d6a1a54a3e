CONSTANTS
    t1 = t1
    Version = 18
    Threads = {t1}
    KeysOf <- FetchAndSubgroup
    FetchGroups = {0, 2}
    ObjectIds = {0, 1, 3}
    Ascending = FALSE
    OkAscending = FALSE
    MaxObjects = 3
    MaxStreams = 1
    PieceSizes = {0, 1, 3}
    SplitHeader = FALSE
    Wrap = 64
    None = None
SPECIFICATION Spec
INVARIANTS
    ObjectsAsSent
    EndIsTold
    OpenStreamsOnly
CHECK_DEADLOCK FALSE
