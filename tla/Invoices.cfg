SPECIFICATION FairSpec
CONSTANTS
    v1 = v1
    v2 = v2
    s1 = s1
    s2 = s2
    c1 = c1
    c2 = c2
    w1 = w1
    w2 = w2
    Variant = {v1, v2}
    Create = {s1, s2}
    Cancel = {c1}
    Request = {s1, s2, c1}
    Worker = {w1}
    MaxStalled = 1
    PoolSize = 3
    Dto <- Dtos
    Stock0 <- Stock
    None = None
INVARIANTS
    TypeOK
    StockWithinDeliveries
    StockExplained
PROPERTIES
    EveryRequestEnds
    EveryJobSettles
