CONSTANTS
    ByteCount = 12
    ITEM_BITS = 2
    PAGE_SIZE_DEFAULT = 4
    WORD = 256
    Owner = {o1, o2}
    Lengths = {4, 8}
    Aligns = {4, 8}
    FixedAddrs = {36, 44, 56}
    MemoryMaps <- SmallMaps
    LowEnd = 8
    CoreStart = 8
    CoreEbss = 14
    ApicBase = 88
SPECIFICATION Spec
PROPERTY
    SearchEnds
