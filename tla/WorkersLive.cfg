SPECIFICATION FairSpec
CONSTANTS
    f1 = f1
    f2 = f2
    NoWorker = NoWorker
    Files <- MCFiles
    StartList <- MCStartList
    Lists <- SmallLists
    Modes <- LiveModes
    MaxInc = 1
    MaxSignals = 2
    SigCap = 1
PROPERTIES
    InterruptEndsProgram
    MaxRunEndsProgram
CHECK_DEADLOCK FALSE
