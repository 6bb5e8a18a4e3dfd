SPECIFICATION FairSpec
CONSTANTS
    Lines <- MCPipeline
    MaxFd = 7
    CloseMax = 6
    ProcLimit = 2
    PipeCap = 2
    Burst = 3
    FileLen = 1
PROPERTIES
    LineEnds
CHECK_DEADLOCK FALSE
