\* Overlapping requests of one account; nothing else goes wrong.
CONSTANTS
    User = {ann}
    Jti = {j1, j2, j3, j4}
    Role = {"user"}
    AccessTTL = 2
    RefreshTTL = 3
    FailOpen = FALSE
    StoreFails = FALSE
    MaxTime = 1
    Req = {r1, r2}
    MaxRequests = 4
    Password = {p1, p2}
    Strong = {p1, p2}
    MaxLink = 1
    ResetTTL = 1
    BanTTL = 1
    Fails = FALSE
SYMMETRY Interchangeable
SPECIFICATION Spec
INVARIANTS
    CancelledLinkIsDead
CHECK_DEADLOCK FALSE
