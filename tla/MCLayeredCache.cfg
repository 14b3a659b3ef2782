\* Two keys over an L1 of one element, two callers, TTLs around that of L1.
SPECIFICATION Spec
CONSTANTS
    Keys = {k1, k2}
    Values = {v1, v2}
    Callers = {c1, c2}
    Slots = {s1, s2, s3}
    None = None
    MaxSize = 1
    L1MaxTTL = 2
    MaxTTL = 3
    k1 = k1
    k2 = k2
    v1 = v1
    v2 = v2
    c1 = c1
    c2 = c2
    s1 = s1
    s2 = s2
    s3 = s3
SYMMETRY Symmetry
VIEW View
INVARIANTS
    TypeOK
    MapAndListAgree
    HitIsLast
    HitWithinTTLs
