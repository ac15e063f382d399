CONSTANTS
    Procs <- MCProcsRace
    Keys <- MCKeys
    Limit = 1
    Calls <- MCCallsDeadlock
    Known <- MCKnownAB
SPECIFICATION Spec
PROPERTY AllCallsReturn
CHECK_DEADLOCK FALSE
