SPECIFICATION IdentitySpec
CONSTANTS
    None = None
    admin = admin
    web = web
    staff = staff
    public = public
    h1 = h1
    h2 = h2
    t1 = t1
    t2 = t2
    c1 = c1
    c2 = c2
    c3 = c3
    Surfaces = {admin, web}
    Organizations = {staff, public}
    OrganizationsOf <- OrganizationsOfBoth
    Roles = {"admin"}
    RolesOf <- RolesOfBoth
    Transactions = {t1, t2}
    Handlers = {h1, h2}
    Keys = 2
    TokenLife = 2
    SessionLife = 2
    Leeway = 1
    MaxTime = 3
    MaxSessions = 2
    MaxPolicy = 1
    NoCaller = NoCaller
    Callers = {c1, c2, c3}
    Lives = {1, 4, 6}
    Margin = 2
    MaxNow = 6
    MaxCorrections = 2
SYMMETRY IdentitySymmetry
INVARIANTS OneSessionPerLogin RolesOfOwnLogin PublishedKeysAccepted OneRequest
PROPERTIES ServedWithinToken
CHECK_DEADLOCK FALSE
