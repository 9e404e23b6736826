CONSTANTS
    ByteCount = 3
    ITEM_BITS = 2
    Starts <- MCStarts
    Probes = {0, 1, 2, 3, 4, 5, 6, 9}
SPECIFICATION BitMapSpec
PROPERTIES
    ImplementsBitSet
