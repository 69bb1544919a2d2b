SPECIFICATION Spec
CONSTANTS
    Uuid = {u1, u2}
    LocId = {l1, l2, l3}
    LegacyLocs = {l1}
    Hash = {g1, g2}
    Volume = {v1}
    Nil = Nil
    Path = {p1, p2}
    Device = {d1}
    Size = {1, 2}
    NoHash = NoHash
    NoUuid = NoUuid
    NoFile = NoFile
    NoLoc = NoLoc
    MaxClock = 2
    MaxRestarts = 1
SYMMETRY Symmetry
INVARIANTS
    OneFreshPerPath
PROPERTIES
    TombstonesFinal
    EventIffWritten
CHECK_DEADLOCK FALSE
