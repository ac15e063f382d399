CONSTANTS
    Shards <- MCShards
    FailParts <- MCFailParts
    NormalMsgs <- MCNormalMsgs
    NormalHandleBatchCnt = 2
    FailHandleBatchCnt = 1
    MaxRetry = 1
    MaxCrashes = 1
    MaxToggles = 1
    MaxOutages = 1
SPECIFICATION Spec
INVARIANT TypeOK
INVARIANT NoMessageLost
PROPERTY AllCommitted
CHECK_DEADLOCK FALSE
