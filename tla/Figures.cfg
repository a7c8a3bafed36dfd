SPECIFICATION Spec
CONSTANTS
    b1 = b1
    b2 = b2
    u1 = u1
    v1 = v1
    x1 = x1
    s1 = s1
    s2 = s2
    Branch = {b1, b2}
    User = {u1}
    Variant = {v1}
    Product = {x1}
    Category = "category"
    ProductOf <- Products
    Price <- Prices
    Cost = {1, 2}
    Sale = {s1, s2}
    Purchase = {"p1"}
    Order <- Orders
    Stock0 <- Row
    Quantity = {0, 1, 2, 5, 6, 10, 11}
    Threshold <- Thresholds
    Report = {"r1"}
    Asked = {b2}
    Period = "year"
    DaysIn <- Calendar
    DayLength = 2
    MaxNow = 2
    MaxWrites = 2
    None = None
INVARIANTS
    TypeOK
    FiguresAgree
    ReportsAgree
    StatusesAgree
    NoSaleComparedTwice
PROPERTY
    ClosedDaysOnlyLose
SYMMETRY Alike
