SPECIFICATION Spec
CONSTANTS
    b1 = b1
    b2 = b2
    v1 = v1
    Branch = {b1, b2}
    Variant = {v1}
    Request = {r1, r2}
    Pod = {"api"}
    PodOf <- OnePod
    PoolSize = 4
    Call <- Adjustments
    Stock0 <- Stock
    None = None
INVARIANT AuditTrailComplete
