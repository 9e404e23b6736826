CONSTANTS
    ByteCount = 12
    ITEM_BITS = 2
    PAGE_SIZE_DEFAULT = 4
    WORD = 256
    Owner = {o1, o2, o3}
    Lengths = {4, 7, 8}
    Aligns = {2, 4, 8, 128}
    FixedAddrs = {0, 30, 36, 92}
    MemoryMaps <- Maps
    LowEnd = 8
    CoreStart = 8
    CoreEbss = 14
    ApicBase = 88
SPECIFICATION Spec
INVARIANTS
    TypeOK
    FramesAccounted
    GrantsDisjoint
    ProtectedNeverGranted
    
PROPERTIES
    GrantsAligned
    ImplementsFrameAllocator
    FindableEnds
