CONSTANTS
    MAX_WRITE_BUFFER = 6
    MAX_LOG_WRITERS = 2
    KCON_WIDTH = 3
    KCON_HEIGHT = 2
    Messages <- AllMessages
    Warning <- OneWarning
    Levels = {0, 3, 4}
    Writers = {"other"}
    Char <- Characters
    INT = 16
    LONG = 256
SPECIFICATION LogSpec
INVARIANTS
    
    NumbersRead
    ScreenIsTail
