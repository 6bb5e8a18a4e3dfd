SPECIFICATION Spec
CONSTANTS
    Requests <- ReadBackSizes
    ArenaLimit = 3
    MALLOC_BUF_SIZE = 32767
    WordSize = 65536
INVARIANTS
    TypeOK
PROPERTIES
    Contract
CHECK_DEADLOCK FALSE
