SPECIFICATION FairSpec
CONSTANTS
    bob = bob
    carol = carol
    m1 = m1
    m2 = m2
    h1 = h1
    h2 = h2
    Account = {bob, carol}
    MsgId = {m1, m2}
    Owner <- ToBoth
    Handler = {h1, h2}
    MaxCopies = 2
    Mishaps = {"drop", "logout", "reload", "fail", "expire"}
    Nobody = Nobody
    NoMsg = NoMsg

CHECK_DEADLOCK FALSE
INVARIANTS
    TypeOK
    NoRepeatAfterReload
PROPERTIES
    ImplementsMailbox
    RetriesWork
