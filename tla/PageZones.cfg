CONSTANTS
    MAX_VZONES = 2
    Extents <- Requests
    RegionPages = 2
    NumFrames = 4
    Device = 9
    MaxIncrease = 2
SPECIFICATION Spec
INVARIANTS
    TypeOK
    OverlapOnlyInside
    FilledIsOwn
    BreakInZone
