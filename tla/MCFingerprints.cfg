SPECIFICATION Spec
CONSTANTS
    d1 = d1
    d2 = d2
    i1 = i1
    i2 = i2
    c1 = c1
    c2 = c2
    Disk = {d1, d2}
    NoDisk = NoDisk
    Ident = {i1, i2}
    NoIdent = NoIdent
    IdentOf <- MCIdentOf
    Point = {1, 2}
    Rel = {1, 2}
    Content = {c1, c2}
    NoContent = NoContent
    Holds <- MCHolds
    Uuid = {u1, u2, u3}
    NoRow = NoRow
    Shell = {app}
    Machine = {desk}
    MachineOf <- MCMachineOf
    LegacyMachine = desk
    LegacyDisk = d1
    Placements <- MCPlacements
    MaxCalls = 3
    Job = {b1, cli}
    Batch = {b1}
    EmitEvery = 2
    DropsComplete = FALSE
INVARIANTS
    FillsAnnounced
    PromotesOwnBytes
    ListedPathIsOwn
PROPERTIES
    VerifyEnds
CHECK_DEADLOCK FALSE
