SPECIFICATION Spec
CONSTANTS
    ana = ana
    bob = bob
    k1 = k1
    k2 = k2
    c1 = c1
    c2 = c2
    c3 = c3
    s1 = s1
    Peer = {ana, bob}
    Key = {k1, k2}
    Call = {c1, c2}
    Failures = TRUE
    Sender = {s1}
    Unpinned = Unpinned
    NoCall = NoCall
    NoPeer = NoPeer
    NoKey = NoKey
SYMMETRY Symmetries
INVARIANTS
    TypeOK
    SentUnderConfirmedKeys
    PanelIsTrue
PROPERTIES
    SerialPinsStay
