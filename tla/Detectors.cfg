\* Two pairs, one with a gas price cache, three blocks, two publications each.
SPECIFICATION FairSpec
CONSTANTS
    Pairs = {p1, p2}
    Priced = {p1}
    BlockCap = 1
    GasPrices = {10, 14}
    MaxGas = 12
    Threshold = 20
    TTL = 2
    VolatileTTL = 1
    MaxAttempts = 2
    MaxBlock = 2
    MaxSent = 3
    Finding = {p2}
    MaxOpps = 2
    p1 = p1
    p2 = p2
INVARIANTS
    TypeOK
    LockStep
    LoopNotStarved
    StopsAtTheEnd
    PublicationsAccounted
PROPERTIES
    GasInTime
    BlocksAnalysed
    LoopStops
