CONSTANTS
    N <- MCN
    M <- MCM
    X <- MCX
SPECIFICATION Spec
INVARIANT TypeOK
INVARIANT BufferConservation
INVARIANT ToleratesMFailures
INVARIANT BrokenOnlyIfUnrecoverable
INVARIANT DecidesBeforePipeCloses
INVARIANT SortedByLocality
PROPERTY AllBuffersReturned
