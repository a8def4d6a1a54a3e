CONSTANTS
    t1 = t1
    t2 = t2
    Loop = Loop
    Threads = {t1, t2}
    IsServer = TRUE
    WebTransport = FALSE
    SingleOwner = FALSE
    PeerSids <- OneClientSid
    MaxNew = 2
    MaxChunks = 1
SYMMETRY Interchangeable
SPECIFICATION Spec
INVARIANTS
    ToldOnce
    CloseOnce
PROPERTIES
    FreshIds
    EndedStaysEnded
CHECK_DEADLOCK FALSE
