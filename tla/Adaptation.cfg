CONSTANTS
    NULL = NULL
    Stresses = {0, 410, 1000}
    Flags <- MCFlags
    Levels = 2
    MaxQuality <- MCMaxQuality
    ImproveHoldoff = 1
    DegradeHoldoff = 1
    ResImproveHoldoff = 1
    ResDegradeHoldoff = 0
    ResStableDwell = 2
    MinLevelDwell = 1
    DegradeDwell = 1
    ResDegradeDwell = 0
    Hysteresis = 40
    LayerCounts = {1, 3}
    LayerHoldoff = 2
SPECIFICATION Spec
PROPERTIES
    UpgradesApart
    Settles
    EncoderFollows
