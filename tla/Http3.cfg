CONSTANTS
    Configurations <- MCConfigurations
    Within <- MCWithin
    Payload <- MCPayload
    MaxWrites = 2
    MaxStreams = 4
    MaxDatagrams = 1
    MaxCuts = 1
    CutHeader = FALSE
    Overtaking = FALSE
SPECIFICATION Spec
INVARIANTS
    SameProtocol
    Transparent
PROPERTIES
    Settled
CHECK_DEADLOCK FALSE
