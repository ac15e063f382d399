CONSTANTS
    d0 = d0
    d1 = d1
    Disks <- MCDisks
    Disk0 = d0
    Attempts = 3
SPECIFICATION Spec
INVARIANT RefreshAtMostOnce
