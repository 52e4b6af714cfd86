\* One account, two requests at once, every failure.
CONSTANTS
    User = {ann}
    Jti = {j1, j2, j3}
    Role = {"user", "premium"}
    AccessTTL = 1
    RefreshTTL = 2
    FailOpen = FALSE
    StoreFails = TRUE
    MaxTime = 3
    Req = {r1, r2}
    MaxRequests = 3
    Password = {p1, p2}
    Strong = {p1, p2}
    MaxLink = 2
    ResetTTL = 1
    BanTTL = 1
    Fails = TRUE
CONSTRAINTS
    AccountFirst
    OneStore
SYMMETRY Interchangeable
SPECIFICATION MCSpec
INVARIANTS
    TypeOK
    RevokedStayUseless
    
    LinksEndOnce
    OldPasswordBuysNothing
    BannedMintsNothing
PROPERTIES
    BanOnlyByModerators
    RevokedBuysNothing
CHECK_DEADLOCK FALSE
