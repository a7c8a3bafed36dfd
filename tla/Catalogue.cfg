SPECIFICATION Spec
CONSTANTS
    c1 = c1
    p1 = p1
    v1 = v1
    n1 = n1
    n2 = n2
    Seeded = {c1, p1, v1}
    Row0 <- Rows
    Request = {r1, r2, r3}
    Name = {n1, n2}
    Cost = {1, 2}
    None = None
INVARIANTS
    TypeOK
    NoBrokenImages
    ImagesKept
PROPERTY
    UpdatesDoWhatTheyWereAsked
SYMMETRY Alike
