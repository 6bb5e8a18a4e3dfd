SPECIFICATION FairSpec
CONSTANTS
    Sources <- Trees
    Commands <- Lists
    NameLen <- Lengths
    Sizes = {0, 1, 2}
    MaxDirs = 2
    MaxEdits = 1
INVARIANTS
    TypeOK
    RoundTrip
    ExtractFailsOnly
    NeverCorrupt
    OverrunOnlyOnRepeat
    CutNoticed
PROPERTY
    BothEnd
CHECK_DEADLOCK FALSE
