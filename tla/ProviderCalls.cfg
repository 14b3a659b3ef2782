\* Two callers of one provider: its breaker, its retries and its limiter.
SPECIFICATION CallsFairSpec
CONSTANTS
    Callers = {c1, c2}
    FailureThreshold = 3
    SuccessThreshold = 2
    MaxCount = 3
    MaxFaults = 4
    MaxCancels = 1
    MaxAttempts = 2
    c1 = c1
    c2 = c2
INVARIANTS
    ClosedBelowThreshold
    OverrunBounded
    LateBounded
PROPERTIES
    OpensAfterStreak
    Recovers
    CancelledEnds
