CONSTANTS
    Clusters <- MCClusters
    Values <- MCValues
    Choosers <- MCChoosers
    RRMod = 2
    MaxLoads = 2
    MaxEdits = 1
    MaxChooses = 2
SPECIFICATION Spec
PROPERTY ScanFindsCluster
