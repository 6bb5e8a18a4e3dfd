SPECIFICATION Spec
CONSTANTS
    Descriptions <- Projects
    Files <- UserFiles
    Libs <- UserLibs
    Languages <- Compilable
    MAX_ARGS = 2
    MaxTime = 3
    MaxVersion = 1
CONSTRAINT Telling
INVARIANTS
    TypeOK
    ListsComplete
    OverrunOnlyIfTooMany
PROPERTIES
    ReportsTruth
    CompilesOnlyStale
