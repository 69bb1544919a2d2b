SPECIFICATION TwoSpec
CONSTANTS
    Uuid = {u1}
    LocId = {l1, l2, l3}
    LegacyLocs = {}
    Hash = {g1, g2}
    Volume = {v1}
    Nil = Nil
    Path = {p1, p2}
    Device = {d1}
    Size = {1}
    NoHash = NoHash
    NoUuid = NoUuid
    NoFile = NoFile
    NoLoc = NoLoc
    MaxClock = 5
    MaxRestarts = 0
SYMMETRY Symmetry
INVARIANTS
    OneLivePerPath
PROPERTIES
    TombstonesFinalHere
CHECK_DEADLOCK FALSE
