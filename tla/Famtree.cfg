SPECIFICATION FairSpec
CONSTANTS
    Names <- ThreeNames
    Sexes <- ThreeSexes
    MaxLines = 6
INVARIANTS
    TypeOK
    LinksMutual
    CycleCheckRight
    FailsOnlyOnTwoParents
    PrintsRight
PROPERTIES
    CheckEnds
CHECK_DEADLOCK FALSE
