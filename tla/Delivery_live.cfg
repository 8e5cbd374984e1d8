SPECIFICATION FairSpec
CONSTANTS
    alice = alice
    bob = bob
    s1 = s1
    s2 = s2
    s3 = s3
    m1 = m1
    m2 = m2
    User = {alice, bob}
    Address <- Names
    MsgId = {m1}
    Socket = {s1, s2, s3}
    Traffic <- OneMsg
    MaxInbox = 1
    Mishaps = {"crash", "loss", "connect", "audit", "reject", "tab"}
    NoUser = NoUser
    NoSocket = NoSocket
    NoMsg = NoMsg
    NoRow = NoRow
CONSTRAINT SenderIsSteady
PROPERTIES
    EventuallyHanded
