SPECIFICATION Spec
CONSTANTS
    ana = ana
    bob = bob
    w1 = w1
    w2 = w2
    p1 = p1
    p2 = p2
    p3 = p3
    b1 = b1
    b2 = b2
    f1 = f1
    f2 = f2
    f3 = f3
    User = {ana, bob}
    Password = {w1, w2}
    Page = {p1, p2, p3}
    Browser = {b1, b2}
    BrowserOf <- TwoAndOne
    Form = {f1, f2, f3}
    Mishaps = {"audit", "network", "storage", "reload"}
    NoUser = NoUser
    NoForm = NoForm
    NoRecord = NoRecord
SYMMETRY Symmetries
CHECK_DEADLOCK FALSE
INVARIANTS
    TypeOK
    KeysAreServed
    SessionIsConsistent
    AccountsKeepTheirKeys
