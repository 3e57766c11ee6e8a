SPECIFICATION FairSpec
CONSTANTS
    Modes <- MCModes
    Script <- MCScript
    MaxConns = 2
INVARIANT TypeOK
INVARIANT SequentialKeepsUpdates
INVARIANT NewestIsPublished
INVARIANT FirstSyncIsIgnored
PROPERTY OnceEnds
CHECK_DEADLOCK FALSE
