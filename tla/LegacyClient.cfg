SPECIFICATION Spec
CONSTANTS
    ana = ana
    bob = bob
    k1 = k1
    k2 = k2
    m1 = m1
    m2 = m2
    m3 = m3
    Peer = {ana, bob}
    Key = {k1, k2}
    Id = {m1, m2, m3}
    NoPeer = NoPeer
    NoKey = NoKey
    NoId = NoId
    Offered <- MCOffered
    Arriving <- MCArriving
    REPLAY_WINDOW = 1
    Generations = 2
INVARIANTS
    TypeOK
    SentUnderConfirmed
    FileHoldsPins
    ReplaysAreOld
    IdentityIsStable
PROPERTIES
    PinnedKeysStay
    ComeToRest
