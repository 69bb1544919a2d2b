SPECIFICATION LibSpec
CONSTANTS
    Uuid = {u1, u2, u3}
    LocId = {l1, l2, l3}
    LegacyLocs = {}
    small1 = small1
    small2 = small2
    big1 = big1
    big2 = big2
    s1 = s1
    s2 = s2
    ends = ends
    w1 = w1
    w2 = w2
    Content = {small1, big1}
    Hash = {s1, s2, w1, w2, ends}
    Bytes <- MCBytes
    PREFIX_SUFFIX_THRESHOLD = 2
    Volume = {v1}
    Mount = v1
    Nil = Nil
    Path = {p1, p2}
    Device = {d1}
    Here = d1
    Size = {1, 3}
    NoHash = NoHash
    NoUuid = NoUuid
    NoFile = NoFile
    NoLoc = NoLoc
    NoEntry = NoEntry
    NoJob = NoJob
    Cli = FALSE
    Watching = FALSE
    MaxClock = 0
    MaxRestarts = 0
    MaxEdits = 1
    MaxScans = 1
    MaxVerifies = 1
    MaxErrors = 0
SYMMETRY Symmetry
INVARIANTS
    LiveRowsListed
CHECK_DEADLOCK FALSE
