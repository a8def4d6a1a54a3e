CONSTANTS
    t1 = t1
    t2 = t2
    Loop = Loop
    Threads = {t1}
    IsServer = FALSE
    WebTransport = TRUE
    SingleOwner = TRUE
    PeerSids <- NoSids
    MaxNew = 1
    MaxChunks = 2
SPECIFICATION FairSpec
INVARIANTS
    PrefixFirst
PROPERTIES
    SendsInOrder
    CloseCompletes
CHECK_DEADLOCK FALSE
