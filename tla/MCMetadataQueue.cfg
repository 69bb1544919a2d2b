SPECIFICATION MCSpec
CONSTANTS
    f1 = f1
    f2 = f2
    File = {f1, f2}
    Content = {c1, c2}
    None = None
    QUEUE_CAPACITY = 1
    MaxScans = 2
    MaxEdits = 1
    MaxFailures = 1
INVARIANTS
    Accounted
    ReadyHasImage
PROPERTIES
    ThumbnailKept
    ScanReturns
CHECK_DEADLOCK FALSE
