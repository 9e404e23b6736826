CONSTANTS
    WORD = 8
    fBase = 1
    length = 3
    Byte = {0, 1}
    Counts = {0, 1, 2, 3, 7}
SPECIFICATION FileSpec
INVARIANTS
    FileExact
    CallsExact
