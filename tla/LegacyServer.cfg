SPECIFICATION Spec
CONSTANTS
    User = {ana, bob}
    Socket = {c1, c2, c3}
    NoUser = NoUser
    NoSocket = NoSocket
SYMMETRY Interchangeable
INVARIANTS
    TypeOK
    RoutesMatchConnections
    KeysFollowRoute
    ListsHeal
CHECK_DEADLOCK FALSE
