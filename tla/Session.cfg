SPECIFICATION FairSpec
CONSTANTS
    a = a
    b = b
    none = none
    NoHost = none
    Hosts <- MCHosts
    Configs <- MCConfigs
    MaxReloads = 1
INVARIANTS
    TypeOK
    SubscriptionFollowsConfig
    PanicNeedsReload
    EndedWorkerHasNoSession
PROPERTIES
    SighupIsTaken
    InterruptStopsWork
CHECK_DEADLOCK FALSE
