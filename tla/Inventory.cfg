SPECIFICATION FairSpec
CONSTANTS
    b1 = b1
    b2 = b2
    v1 = v1
    Branch = {b1, b2}
    Variant = {v1}
    Request = {r1, r2, r3}
    Pod = {"api"}
    PodOf <- OnePod
    PoolSize = 4
    Call <- Calls
    Stock0 <- Stock
    None = None
INVARIANTS
    TypeOK
    StockEnvelope
    LocksOfOpenTransfers
    AuditTrailExplained
PROPERTIES
    EveryRequestEnds
    LedgerIsKept
