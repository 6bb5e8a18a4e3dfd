SPECIFICATION Spec
CONSTANTS
    Tables <- SmallTables
    Words <- SmallWords
    MaxWords = 2
    MAX_NAME_LENGTH = 8
    ByteRange = 256
    UintRange = 65536
INVARIANTS
    TypeOK
    ReadsWhatIsThere
    AnswersRight
CHECK_DEADLOCK FALSE
