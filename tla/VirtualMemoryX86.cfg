CONSTANTS
    TEMPMAP_PAGES = 3
    IdentityFrames = 13
    Pool = {11, 12, 13}
    DataFrames = {20}
    Idx = {0, 1, 2, 3}
    Virt <- Addresses
    KernelIdx = {0}
    SpaceIdx = 1
    PgPd = 1
    PgPt = 2
    MaxSpaces = 3
SPECIFICATION Spec
INVARIANTS
    OnlyKernelPdLost
    
PROPERTIES
    MapUnmapExact
