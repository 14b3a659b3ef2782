\* Progress of one call of Process with as many sizes as its buffers can take.
SPECIFICATION FairSpec
CONSTANTS
    NumSizes = 5
    Workers = {w1}
    BufferSize = 1
    Permits = 1
    MaxFailures = 1
    w1 = w1
INVARIANTS
    NeverStuck
PROPERTIES
    ProcessEnds
