\* A warm-up and two detections, two CEX callers, two fee tiers; ticks of 12 s.
SPECIFICATION Spec
CONSTANTS
    Callers = {c1, c2}
    NumTiers = 2
    Amounts = {1, 2}
    BookTTL = 1
    QuoteTTL = 1
    L1TTL = 1
    MaxBlock = 2
    MaxRounds = 2
    c1 = c1
    c2 = c2
INVARIANTS
    QuotesOfBlock
    BestOfAnswered
