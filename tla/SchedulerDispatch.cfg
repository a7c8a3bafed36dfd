SPECIFICATION Spec
CONSTANTS
    r1 = r1
    r2 = r2
    sup = sup
    Scheduled = {"low-stock-check", "reset-low-stock-alerts"}
    Pod = {p1}
    Row = {r2}
    SupplierOf <- Suppliers
    Branch = {}
    Writer = {u1}
    MaxDue = 1
    None = None
INVARIANT CompletedJobsRan
