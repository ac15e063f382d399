CONSTANTS
    Vols <- MCVols
    Callers = {c1, c2}
    Count = 1
    Disks <- MCDisks
    Units <- MCUnits
    Scores <- MCScores
    AllocThr <- MCAllocThr
    DiskLoadThr = 1
    NoDiskLoadThreshold <- MCNoDiskLoad
SPECIFICATION LiveSpec
PROPERTY PreAllocReturns
