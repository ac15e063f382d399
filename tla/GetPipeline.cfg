CONSTANTS
    Requests <- MCRequests
    MaxBlobs <- MCMaxBlobs
    ChanCap <- MCChanCap
SPECIFICATION MCSpec
INVARIANT TypeOK
INVARIANT LocationSplit
INVARIANT GetOkImpliesComplete
INVARIANT MatricesBound
INVARIANT AcceptedConfigPartitions
INVARIANT WellFormedConfigAccepted
