SPECIFICATION FairSpec
CONSTANTS
    login = login
    register = register
    Form = {login, register}
    s1 = s1
    s2 = s2
    WebSocket = {s1, s2}
    MaxWire = 2
    MaxParked = 2
    Mishaps = {"drop", "slow", "refuse", "logout", "overlap"}
    None = None

CHECK_DEADLOCK FALSE
INVARIANTS
    TypeOK
    ReadinessIsTrue
PROPERTIES
    OnlineOrLate
    LeftSessionsEnd
