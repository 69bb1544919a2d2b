SPECIFICATION Spec
CONSTANTS
    Client = {desktop, cli}
    Desktop = {desktop}
    Uuid = {u1, u2}
    NoUuid = NoUuid
    Hash = {h1, h2}
    NoHash = NoHash
    Path = {p1, p2}
    Name = {"red"}
    Mime = {"m"}
    PortDeletes = TRUE
    MaxRows = 3
    MaxWrites = 8
SYMMETRY Symmetry
INVARIANTS
    HitsAreLive
    LabelsOnce
PROPERTIES
    TriggersKeepSync
CHECK_DEADLOCK FALSE
