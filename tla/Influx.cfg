SPECIFICATION MCSpec
CONSTANTS
    Meas <- MCMeas
    Size <- MCSize
    BatchSize = 8
    MaxReloads = 1
    All = All
    Metric <- MCMetric
    AccCap = 3
    DeviceTs = DeviceTs
INVARIANT TypeOK
INVARIANT EveryPointOnce
INVARIANT OrderIsKept
PROPERTY SentIsSettled
INVARIANT MergingKeepsFields
CHECK_DEADLOCK FALSE
