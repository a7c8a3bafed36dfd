SPECIFICATION Spec
CONSTANTS
    v1 = v1
    v2 = v2
    s1 = s1
    s2 = s2
    c1 = c1
    c2 = c2
    w1 = w1
    w2 = w2
    Variant = {v1}
    Create = {s1}
    Cancel = {c1, c2}
    Request = {s1, c1, c2}
    Worker = {w1, w2}
    MaxStalled = 1
    PoolSize = 2
    Dto <- OneSale
    Stock0 <- Stock
    None = None
INVARIANTS
    StockExplained
SYMMETRY Alike
