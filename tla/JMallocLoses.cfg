SPECIFICATION Spec
CONSTANTS
    Requests <- LostSizes
    ArenaLimit = 4
    MALLOC_BUF_SIZE = 32767
    WordSize = 65536
PROPERTIES
    Contract
CHECK_DEADLOCK FALSE
