\* One size more than the buffers can take.
SPECIFICATION FairSpec
CONSTANTS
    NumSizes = 6
    Workers = {w1}
    BufferSize = 1
    Permits = 0
    MaxFailures = 0
    w1 = w1
PROPERTIES
    BackpressureHandled
