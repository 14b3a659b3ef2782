\* Progress of the subscriber under fair scheduling.
SPECIFICATION FairSpec
CONSTANTS
    NumURLs = 1
    MaxWSFailures = 1
    BlockCap = 1
    ErrCap = 1
    WireCap = 1
    MaxBlock = 3
    MaxFaults = 1
PROPERTIES
    CancelStopsLoop
    CatchesUp
