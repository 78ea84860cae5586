SPECIFICATION Spec
CONSTANTS
    o1 = o1
    o2 = o2
    Orgs = {o1, o2}
    Customers = {k1, k2}
    Subscriptions = {s1}
    Checkouts = {c1, c2}
    Home <- OneHome
    Handlers = {h1, h2}
    None = None
    Period = 1
    MaxTime = 3
    MaxEvents = 3
    MaxTroubles = 1
SYMMETRY Alike
CHECK_DEADLOCK FALSE
INVARIANTS TypeOK NothingUnpaid SessionsAreOurs SettledIsCurrent
