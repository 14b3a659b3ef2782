\* Safety of the subscriber: every path of the loop, with the heartbeat, Close and
\* cancellation interleaved.
SPECIFICATION Spec
CONSTANTS
    NumURLs = 2
    MaxWSFailures = 2
    BlockCap = 1
    ErrCap = 1
    WireCap = 1
    MaxBlock = 3
    MaxFaults = 1
INVARIANTS
    TypeOK
    NoUnaccountedGap
    FallbackNotOverdue
    ClientLeakOnlyAfterFallback
PROPERTIES
    ImplementsBlockStream
