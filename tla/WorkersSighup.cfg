SPECIFICATION FairSpec
CONSTANTS
    f1 = f1
    f2 = f2
    NoWorker = NoWorker
    Files <- MCFiles
    StartList <- MCStartList
    Lists <- SmallLists
    Modes <- NoMaxRun
    MaxInc = 2
    MaxSignals = 1
    SigCap = 1
PROPERTIES
    SighupIsPropagated
CHECK_DEADLOCK FALSE
