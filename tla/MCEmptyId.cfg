\* The empty string is a room id that a create message may carry.
SPECIFICATION Spec
CONSTANTS
    c1 = c1
    c2 = c2
    c3 = c3
    a1 = a1
    a2 = a2
    Clients = {c1, c2, c3}
    RoomIds = {r1, NoRoom}
    NoRoom = NoRoom
    SessionIds = {s1, s2}
    Addr <- MCAddr
    LoggedIn = {c1, c2}
    AuthMode = "turn"
    Modes = {"turn", "stun"}
    OwnerLeaveChoices = {TRUE}
SYMMETRY Symmetry
VIEW StateView
INVARIANTS
    RoomsAreServed
