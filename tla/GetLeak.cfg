CONSTANTS
    Requests <- MCRequests
    MaxBlobs <- MCMaxBlobs
    ChanCap <- MCChanCap
SPECIFICATION MCSpec
PROPERTY GetCleansUp
