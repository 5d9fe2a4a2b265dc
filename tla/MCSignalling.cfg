\* Two pages, one room, three sessions.
SPECIFICATION PagesSpec
CONSTANTS
    a1 = a1
    Clients = {c1, c2}
    RoomIds = {r1}
    NoRoom = NoRoom
    SessionIds = {s1, s2, s3}
    Addr <- MCAddr
    LoggedIn = {}
    AuthMode = "turn"
    Modes = {"stun"}
    OwnerLeaveChoices = {FALSE}
    OwnerActions = {"enable_all", "disable_all", "stop_share", "toggle_share_permission", "kick", "ban"}
    MaxActs = 6
SYMMETRY Symmetry
VIEW StateView
INVARIANTS
    PagesTypeOK
    FirstIsRoom
    ViewIsCurrent
    PresentersCapture
    SessionsAreConnected
    StoppedIsNotWatched
CHECK_DEADLOCK FALSE
