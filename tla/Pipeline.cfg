SPECIFICATION MCSpec
CONSTANTS
    PromPacket <- MCPromPacket
    csLLStrValue = "csLL"
    Minute = 1
    MaxNow = 3
    MaxPackets = 2
    MaxScrapes = 1
    Kvs <- MCKvs
    MaxKvs = 4
    Alias <- MCAlias
    Measurement = ""
    SensorPath <- MCSensor
    PathConfigs <- MCPathConfigs
    MaxPaths = 3
    FreqUnits = 1000
    Word = 16777216
    GnPrefixes <- MCGnPrefixes
    GnUpdates <- MCGnUpdates
    GnDeletes <- MCGnDeletes
    GnExts = {"none", "juniper", "bad"}
    GnOptions <- MCGnOptions
    MaxItems = 3
    HeaderName = "hdr"
    TimestampName = "ts"
    XrPaths = {p1, p2}
    XrSchemas <- MCXrSchemas
    XrMessages <- MCXrMessages
    MaxXr = 2
    NoNs = ""
    LogConfigs <- MCLogConfigs
    MaxPkts = 2
    MaxLogReloads = 1
    Claims = {c1, c2}
    KDevs = {d1, d2}
    KDbs = {b1, b2}
    EosDevs = {d1}
    MaxKMsgs = 3
    MaxSessions = 2
    MaxVersions = 3
    SimCases <- MCSimCases
    U32 = 65536
    U64 = 1048576
    MaxSimPkts = 7
INVARIANT DuplicatesNeedGrowth
PROPERTY ScrapeIsFresh
INVARIANT PointsKeepEveryLeaf
INVARIANT SubscriptionIsFaithful
INVARIANT NotificationKeepsUpdates
INVARIANT MetricsHaveTheirKeys
INVARIANT OpenFilesAreHeld
INVARIANT NilLoggerNeedsReload
INVARIANT OneContextPerDb
INVARIANT HandledAsConfigured
INVARIANT PublishedIsCurrent
INVARIANT SensorsAreInOrder
CHECK_DEADLOCK FALSE
