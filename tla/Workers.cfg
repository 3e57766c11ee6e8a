SPECIFICATION Spec
CONSTANTS
    f1 = f1
    f2 = f2
    NoWorker = NoWorker
    Files <- MCFiles
    StartList <- MCStartList
    Lists <- MCLists
    Modes <- NoMaxRun
    MaxInc = 2
    MaxSignals = 2
    SigCap = 1
INVARIANTS
    TypeOK
    WgCountsRunning
    StatusNamesItsWorker
    LiveWorkerIsInMap
    ExitAfterAllWorkers
PROPERTIES
    ImplementsFleet
CHECK_DEADLOCK FALSE
