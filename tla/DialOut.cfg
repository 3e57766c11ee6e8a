SPECIFICATION FairSpec
CONSTANTS
    Streams = {s1, s2, s3}
    MaxOpen = 1
    Kind <- MCKind
    MaxReplays = 1
    ChanCap = 2
    Consumer = Consumer
    None = None
INVARIANT TypeOK
INVARIANT StreamLagsByTheRaceOnly
PROPERTY DialBackIsServed
PROPERTY FullChannelIsDrained
CHECK_DEADLOCK FALSE
