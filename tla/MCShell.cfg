SPECIFICATION ShellSpec
CONSTANTS
    MaxCalls = 3
    WatchCall = {w1, w2}
    NoWatcher = NoWatcher
    Copy = {b1, b2}
    Cli = {}
    Target = {t}
    NoFile = NoFile
    Earlier = Earlier
    Provider = {p1, p2}
    NoProvider = NoProvider
    Absent = Absent
    Malformed = Malformed
SYMMETRY Symmetry
INVARIANTS
    WatchingIsTold
PROPERTIES
    SavedIsWhole
    ActiveStarts
    NothingLost
CHECK_DEADLOCK FALSE
