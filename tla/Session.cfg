CONSTANTS
    t1 = t1
    Versions = {16, 17, 18}
    Threads = {t1}
    Limits = {2, 4}
    NewLimits = {4}
    EarlyLimit = FALSE
    Verdicts = {0, 1}
    GoawayVersions = {16, 17}
    EarlyData = {17, 18}
    CutSetup = FALSE
    DataOvertakes = FALSE
    MaxCalls <- CallsOfEnds
    MaxLimitCalls = 2
SPECIFICATION FairSpec
INVARIANTS
    NoRefusal
    StreamsInOrder
    LimitTold
PROPERTIES
    SessionComesUp
CHECK_DEADLOCK FALSE
