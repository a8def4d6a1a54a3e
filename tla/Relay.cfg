CONSTANTS
    NULL = NULL
    Publishers = {p}
    Subscribers = {s}
    Watchers = {w}
    Namespaces <- MCNamespaces
    Watched <- MCWatched
    Keys <- MCTrack
    Locations <- MCLocations
    Layer <- MCLayer
    Filters <- MCFilters
    Ranges <- MCRanges
    Joins <- MCJoins
    Orders = {"descending"}
    Wants = {"namespace"}
    LayerLimit <- MCNoLimit
    Forwards = {TRUE}
    MaxRequests = 2
    MaxTotal = 3
    MaxObjects = 3
    MaxPublished = 2
    MaxVarint = 1000
    Cases = {}
SPECIFICATION Spec
INVARIANTS
    TablesAgree
    OwnObjects
    FetchExact
    JoinComplete
    WatchersTold
PROPERTIES
    SilentAfterEnd
    Served
CHECK_DEADLOCK FALSE
