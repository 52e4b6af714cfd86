\* The marker's lifetime as app.go passes it: that of an access token.
CONSTANTS
    User = {ann}
    Jti = {j1, j2, j3}
    Role = {"user"}
    AccessTTL = 1
    RefreshTTL = 2
    FailOpen = FALSE
    StoreFails = FALSE
    MaxTime = 3
    Req = {r1, r2}
    MaxRequests = 3
    Password = {p1}
    Strong = {p1}
    MaxLink = 1
    ResetTTL = 1
    BanTTL = 1
    Fails = FALSE
SYMMETRY Interchangeable
SPECIFICATION Spec
INVARIANTS
    DeadStaysDead
CHECK_DEADLOCK FALSE
