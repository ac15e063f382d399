SPECIFICATION Spec
INVARIANT CompleteOnlyIfAllSucceeded
INVARIANT StoppedAfterVerdict
INVARIANT NoBidTwice
INVARIANT IdsAccounted
PROPERTY OneVerdictEventually
PROPERTY ExactRanges
