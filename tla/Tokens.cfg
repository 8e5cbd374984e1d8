SPECIFICATION TokensSpec
CONSTANTS
    User = {ana}
    Person = {p1, p2}
    Nobody = Nobody
    SESSION_TTL_SECONDS = 9
    MinTTL = 1
    MaxTTL = 2
    MaxLife = 3
    Leeway = 1
    Configured = TRUE
    Horizon = 4
    Secrets = 2
    Issues = 3
    Open = 1
SYMMETRY Interchangeable
INVARIANTS
    TokensOK
    IssuedAreAccepted
    StrangersExpire
