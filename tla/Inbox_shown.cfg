SPECIFICATION FairSpec
CONSTANTS
    bob = bob
    carol = carol
    m1 = m1
    m2 = m2
    h1 = h1
    h2 = h2
    Account = {bob}
    MsgId = {m1}
    Owner <- ToBob
    Handler = {h1}
    MaxCopies = 2
    Mishaps = {"reload"}
    Nobody = Nobody
    NoMsg = NoMsg

CHECK_DEADLOCK FALSE
PROPERTIES
    EventuallyShown
