CONSTANTS
    TEMPMAP_PAGES = 3
    RegionFrames = 4
    IdentityFrames = 8
    Pool = {4, 5, 6, 7, 8}
    AllocOrders <- Orders
    DataFrames = {20}
    Virt <- Addresses
    Idx = {0, 1}
    KernelIdx = 1
    HighIdx = 1
    PgPml4 = 1
    PgPdptHigh = 2
    PgPdHigh = 3
    MaxSpaces = 2
SPECIFICATION Spec
PROPERTY UnmapFrees
