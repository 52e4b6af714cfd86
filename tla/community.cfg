\* Two overlapping requests on a small community.
CONSTANTS
    ann = ann
    bob = bob
    v1 = v1
    v2 = v2
    c1 = c1
    c2 = c2
    p1 = p1
    x1 = x1
    User = {ann, bob}
    Video = {v1, v2}
    Comment = {c1, c2, c3, c4}
    Playlist = {p1, p2, p3}
    Report = {x1, x2, x3}
    Nobody = nobody
    NoVideo = novideo
    NoComment = nocomment
    NoPlaylist = noplaylist
    NoReport = noreport
    RoleOf <- MCRoleOf
    Owner <- MCOwner
    Req = {r1, r2}
    MaxRequests = 2
    Fails = TRUE
ACTION_CONSTRAINTS
    Overlapping
    Telling
    OneTarget
SPECIFICATION MCSpec
INVARIANTS
    TypeOK
    CountersMatch
    AppendsNeverCollide
    NothingDangles
    NotesAreEarned
    ReviewIsBacked
PROPERTIES
    EveryRequestEnds
CHECK_DEADLOCK FALSE
