SPECIFICATION FairSpec
CONSTANTS
    v1 = v1
    v2 = v2
    p1 = p1
    p2 = p2
    Variant = {v1, v2}
    Create = {p1, p2}
    Decide = {d1, d2}
    Request = {p1, p2, d1, d2}
    Worker = {w1}
    MaxStalled = 0
    Items <- Orders
    Stock0 <- Stock
    None = None
INVARIANTS
    TypeOK
    StockExplained
    CostPricesOfOnePurchase
PROPERTIES
    DecisionsFinalUnlessRaced
    EveryRequestEnds
