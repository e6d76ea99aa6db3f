CONSTANTS
    MSG_BUFFER_SIZE = 3
    MSG_LOG_SIZE = 4
    Levels = {0, 1}
    Lengths = {1, 4}
    MaxMessages = 7
SPECIFICATION LogSpec
INVARIANT HoldsNewest
CHECK_DEADLOCK FALSE
