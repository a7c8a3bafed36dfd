SPECIFICATION Spec
CONSTANTS
    boss = boss
    clerk = clerk
    m1 = m1
    m2 = m2
    m3 = m3
    Seeded = {boss, clerk}
    Row0 <- Rows
    Request = {r1, r2, r3}
    Email = {m1, m2, m3}
    Change <- Changes
    None = None
INVARIANTS
    TypeOK
    SessionLostByFailureOnly
    RotatedOnceUnlessOvertaken
    EmailsDiffer
PROPERTIES
    TokensKeepTheirPromise
    DecisionsOnAccountsLast
SYMMETRY Alike
