SPECIFICATION HlcSpec
CONSTANTS
    HLC_MAX_MS = 3
    HLC_MAX_COUNTER = 1
    WallReadings = {0, 1, 2, 5}
    MaxCalls = 9
INVARIANTS
    StateIsLatest
PROPERTIES
    NowIsFresh
