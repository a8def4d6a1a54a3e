CONSTANTS
    Small = 600
    Bytes = {0, 1, 63, 64, 127, 128, 191, 192, 223, 224, 252, 255}
    RangeFrom = 17
    MaxTuples = 2
    MaxNamespace = 3
    MaxTrackName = 3
    MaxText = 3
    Tuples32 = 2
    NameBytes = 3
    EncodedRoom = 100
SPECIFICATION Spec
INVARIANTS
    RoundTrip
    MessagesRoundTrip
    
    TextRoundTrip
    HeadersRoundTrip
CHECK_DEADLOCK FALSE
