\* Two endpoints, overlapping rounds of checks, callers, Close, one fault.
SPECIFICATION Spec
CONSTANTS
    NumEndpoints = 2
    Slots = {r1, r2}
    MaxClients = 2
    MaxFaults = 1
    r1 = r1
    r2 = r2
SYMMETRY Symmetry
INVARIANTS
    TypeOK
    ClientsClosed
PROPERTIES
    FailsOnlyWithoutUsable
    HandsOutOpenClient
