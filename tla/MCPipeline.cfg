\* Safety of one call of Process with two workers that compete for one permit with
\* the pipelines of other pairs, and full buffers on every side.
SPECIFICATION Spec
CONSTANTS
    NumSizes = 3
    Workers = {w1, w2}
    BufferSize = 1
    Permits = 1
    MaxFailures = 1
    w1 = w1
    w2 = w2
SYMMETRY Symmetry
INVARIANTS
    TypeOK
    CompleteResult
    NoSendAfterClose
    PermitsConserved
PROPERTIES
    SentOnce
