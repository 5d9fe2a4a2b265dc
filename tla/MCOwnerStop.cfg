\* Two pages, one room, two sessions, an owner that stops the others.
SPECIFICATION PagesSpec
CONSTANTS
    a1 = a1
    Clients = {c1, c2}
    RoomIds = {r1}
    NoRoom = NoRoom
    SessionIds = {s1, s2}
    Addr <- MCAddr
    LoggedIn = {}
    AuthMode = "turn"
    Modes = {"stun"}
    OwnerLeaveChoices = {FALSE}
    OwnerActions = {"stop_share"}
    MaxActs = 4
SYMMETRY Symmetry
VIEW StateView
INVARIANTS
    StreamsEndWithSessions
CHECK_DEADLOCK FALSE
