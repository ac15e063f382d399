CONSTANTS
    Names <- MCNames
    Waiters <- MCWaiters
    MaxSwitches <- MCMaxSwitches
    MaxChanges <- MCMaxChanges
    MaxErrors <- MCMaxErrors
    MaxWaits <- MCMaxWaits
SPECIFICATION Spec
INVARIANT WgMatchesEnabled
PROPERTY SleepersWokenWhenEnabled
