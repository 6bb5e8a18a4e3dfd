SPECIFICATION FairSpec
CONSTANTS
    Lines <- MCLines
    MaxFd = 7
    CloseMax = 6
    ProcLimit = 2
    PipeCap = 2
    Burst = 2
    FileLen = 1
INVARIANTS
    TypeOK
    LineKept
    PipelineResult
    WholeLineLeavesNoFd
    CrashOnlyOnMalformed
PROPERTIES
    LineEndsIfForked
CHECK_DEADLOCK FALSE
