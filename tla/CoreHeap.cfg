CONSTANTS
    Base = 10
    ZoneEnd = 25
    PageWords = 5
    WordBytes = 4
    Requests = {0, 8}
    DataWords <- UserWords
    FreshMemories <- MixedMemories
SPECIFICATION Spec
INVARIANTS
    HeapInv
    LiveDisjoint
    
PROPERTIES
    DataKept
    
