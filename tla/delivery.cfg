\* Two API processes with room for one playlist each, one player.
CONSTANTS
    MaxTime = 3
    Address = {ip}
    Rule = {"streaming", "user_api"}
    Budget <- MCBudget
    RateWindow = 2
    Api = {api1, api2}
    Key = {master, variant}
    LocalMax = 1
    LocalTTL = 1
    PlaylistTTL = 2
    Viewer = {viewer}
    ViewWindow = 2
    Req = {r1, r2}
    Patience = 1
    MaxEvents = 3
    MaxVersions = 2
SPECIFICATION Spec
CONSTRAINTS
    OneKind
    PublishedFirst
SYMMETRY Symmetry
INVARIANTS
    TypeOK
    WithinBudget
    CopiesAgeOut
    ClearSticks
    ViewsAreDistinct
    ClaimsAreBacked
CHECK_DEADLOCK FALSE
